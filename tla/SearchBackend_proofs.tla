-------------------------- MODULE SearchBackend_proofs --------------------------
(***************************************************************************)
(* What holds of the search backend for any number of threads: of KBClient, *)
(* its transport, and of SearchService, which caches what that answers.     *)
(*                                                                         *)
(* KBClient.  A slot is counted from Fetch to the one run of the call's     *)
(* callback.  The invariant says who may still run that callback: the caller*)
(* while it holds the lock, a worker whose job has finished, a caller that  *)
(* cancelled its job, or close for the job it has dropped, and never two of *)
(* them.                                                                    *)
(*                                                                         *)
(* SearchService.  Behind every value in the cache, and behind what a search*)
(* is about to store, there is one valid response; the times at which it was*)
(* asked for, given and stored are a deadline apart at most.  A lookup and a*)
(* store do the same to the order of the keys: all keep their places but the*)
(* one that goes last, and the first when there is no room for it.          *)
(***************************************************************************)
EXTENDS KBClient, SearchService, FiniteSetTheorems, SequenceTheorems, TLAPS

NeverAdmitted == {"idle", "capacity", "refused"}
HasLock == {"submitting", "registering"}

\* One call: where its caller is, what its future is and who runs its callback
CallOK(c) ==
    /\ caller[c] \in NeverAdmitted \cup {"submitting"} =>
         job[c] = "none" /\ callback[c] = "none"
    /\ caller[c] = "registering" => job[c] # "none" /\ callback[c] = "none"
    /\ caller[c] \notin NeverAdmitted \cup HasLock => job[c] # "none" /\ callback[c] # "none"
    /\ caller[c] \in HasLock <=> lock = c
    /\ callback[c] = "run" => Ended(c)
    /\ caller[c] = "cancelling" => job[c] = "cancelled" /\ callback[c] = "registered"
    /\ dropped = c => /\ job[c] = "cancelled" /\ callback[c] = "registered"
                      /\ caller[c] # "cancelling"

\* close: once it has begun nobody is between admission and registration.
ClosingOK ==
    /\ closer # "open" <=> closed
    /\ closer = "cancelling" <=> dropped # NoOne
    /\ closed => lock = NoOne

ClosedWithLast == http = "closed" => closed /\ Holding = {}

IInv ==
    /\ TypeOK
    /\ \A c \in Calls : CallOK(c)
    /\ ClosingOK
    /\ ClosedWithLast
    /\ SlotsCounted

-----------------------------------------------------------------------------
\* Names of what a step may change
LEMMA HoldingFinite == IsFiniteSet(Holding) /\ Cardinality(Holding) \in Nat
<1>1. Holding \in SUBSET Calls  BY DEF Holding
<1> QED  BY <1>1, KBConstants, FS_Subset, FS_CardinalityType

\* _request_done, run for a call that holds a slot and by whoever may run it, takes exactly
\* that slot away and closes the connection with the last.
LEMMA DoneReleases ==
    ASSUME NEW c \in Calls, c \in Holding, SlotsCounted, ClosedWithLast,
           TypeOK, RequestDone(c), Holding' = Holding \ {c}, closed' = closed
    PROVE  /\ SlotsCounted' /\ ClosedWithLast'
           /\ inflight' \in Nat /\ http' \in {"none", "open", "closed"}
           /\ http' = IF closed /\ Holding' = {} /\ http = "open" THEN "closed" ELSE http
<1>1. IsFiniteSet(Holding) /\ Cardinality(Holding) \in Nat  BY HoldingFinite
<1>2. Cardinality(Holding \ {c}) = Cardinality(Holding) - 1  BY <1>1, FS_RemoveElement
<1>3. IsFiniteSet(Holding \ {c}) /\ Cardinality(Holding \ {c}) \in Nat
  BY <1>1, FS_RemoveElement, FS_CardinalityType
<1>4. inflight' = Cardinality(Holding') /\ inflight' \in Nat
  BY <1>2, <1>3 DEF SlotsCounted, RequestDone
<1>5. inflight' = 0 <=> Holding' = {}  BY <1>3, <1>4, FS_EmptySet
<1>6. http # "closed"  BY DEF ClosedWithLast
<1>7. http' = IF closed /\ Holding' = {} /\ http = "open" THEN "closed" ELSE http
  BY <1>5, <1>6 DEF RequestDone, GivenUp, TypeOK
<1> QED  BY <1>4, <1>6, <1>7 DEF SlotsCounted, ClosedWithLast, TypeOK

-----------------------------------------------------------------------------
\* The steps that take or give back no slot

LEMMA SubmitKeeps ==
    ASSUME IInv, NEW c \in Calls, Submit(c)
    PROVE  IInv' /\ UNCHANGED Pool!poolVars
<1>. USE DEF IInv
<1>1. TypeOK'
  BY DEF TypeOK, CallerStates, JobStates, CloserStates, Submit, Go, closing, working
<1>2. ASSUME NEW d \in Calls  PROVE CallOK(d)'
  BY DEF TypeOK, CallerStates, JobStates, CloserStates, CallOK, ClosingOK, NeverAdmitted,
       HasLock, Ended, Submit, Go, LockFree, closing, working
<1>3. ClosingOK'
  BY DEF TypeOK, CallerStates, JobStates, CloserStates, CallOK, ClosingOK, NeverAdmitted,
       HasLock, Submit, Go, LockFree, closing, working
<1>4. Holding' = Holding
  BY DEF TypeOK, CallerStates, JobStates, CloserStates, Holding, CallOK, NeverAdmitted,
       HasLock, Submit, Go, closing, working
<1>5. SlotsCounted' /\ ClosedWithLast'
  BY <1>4 DEF TypeOK, CallerStates, JobStates, CloserStates, SlotsCounted, ClosedWithLast,
       Submit, closing, working
<1>6. UNCHANGED Pool!poolVars
  BY <1>4 DEF Pool!poolVars, Submit, closing, working
<1>. QED  BY <1>1, <1>2, <1>3, <1>5, <1>6

LEMMA ResultKeeps ==
    ASSUME IInv, NEW c \in Calls, Result(c)
    PROVE  IInv' /\ UNCHANGED Pool!poolVars
<1>. USE DEF IInv
<1>1. TypeOK'
  BY DEF TypeOK, CallerStates, JobStates, CloserStates, Result, Go, closing, working
<1>2. ASSUME NEW d \in Calls  PROVE CallOK(d)'
  BY DEF TypeOK, CallerStates, JobStates, CloserStates, CallOK, ClosingOK, NeverAdmitted,
       HasLock, Ended, Result, Go, LockFree, closing, working
<1>3. ClosingOK'
  BY DEF TypeOK, CallerStates, JobStates, CloserStates, CallOK, ClosingOK, NeverAdmitted,
       HasLock, Result, Go, LockFree, closing, working
<1>4. Holding' = Holding
  BY DEF TypeOK, CallerStates, JobStates, CloserStates, Holding, CallOK, NeverAdmitted,
       HasLock, Result, Go, closing, working
<1>5. SlotsCounted' /\ ClosedWithLast'
  BY <1>4 DEF TypeOK, CallerStates, JobStates, CloserStates, SlotsCounted, ClosedWithLast,
       Result, closing, working
<1>6. UNCHANGED Pool!poolVars
  BY <1>4 DEF Pool!poolVars, Result, closing, working
<1>. QED  BY <1>1, <1>2, <1>3, <1>5, <1>6

LEMMA ExpireKeeps ==
    ASSUME IInv, NEW c \in Calls, Expire(c)
    PROVE  IInv' /\ UNCHANGED Pool!poolVars
<1>. USE DEF IInv
<1>1. TypeOK'
  BY DEF TypeOK, CallerStates, JobStates, CloserStates, Expire, Go, closing, working
<1>2. ASSUME NEW d \in Calls  PROVE CallOK(d)'
  BY DEF TypeOK, CallerStates, JobStates, CloserStates, CallOK, ClosingOK, NeverAdmitted,
       HasLock, Ended, Expire, Go, LockFree, closing, working
<1>3. ClosingOK'
  BY DEF TypeOK, CallerStates, JobStates, CloserStates, CallOK, ClosingOK, NeverAdmitted,
       HasLock, Expire, Go, LockFree, closing, working
<1>4. Holding' = Holding
  BY DEF TypeOK, CallerStates, JobStates, CloserStates, Holding, CallOK, NeverAdmitted,
       HasLock, Expire, Go, closing, working
<1>5. SlotsCounted' /\ ClosedWithLast'
  BY <1>4 DEF TypeOK, CallerStates, JobStates, CloserStates, SlotsCounted, ClosedWithLast,
       Expire, closing, working
<1>6. UNCHANGED Pool!poolVars
  BY <1>4 DEF Pool!poolVars, Expire, closing, working
<1>. QED  BY <1>1, <1>2, <1>3, <1>5, <1>6

LEMMA CancelKeeps ==
    ASSUME IInv, NEW c \in Calls, Cancel(c)
    PROVE  IInv' /\ UNCHANGED Pool!poolVars
<1>. USE DEF IInv
<1>1. TypeOK'
  BY DEF TypeOK, CallerStates, JobStates, CloserStates, Cancel, Go, closing, working
<1>2. ASSUME NEW d \in Calls  PROVE CallOK(d)'
  BY DEF TypeOK, CallerStates, JobStates, CloserStates, CallOK, ClosingOK, NeverAdmitted,
       HasLock, Ended, Cancel, Go, LockFree, closing, working
<1>3. ClosingOK'
  BY DEF TypeOK, CallerStates, JobStates, CloserStates, CallOK, ClosingOK, NeverAdmitted,
       HasLock, Cancel, Go, LockFree, closing, working
<1>4. Holding' = Holding
  BY DEF TypeOK, CallerStates, JobStates, CloserStates, Holding, CallOK, NeverAdmitted,
       HasLock, Cancel, Go, closing, working
<1>5. SlotsCounted' /\ ClosedWithLast'
  BY <1>4 DEF TypeOK, CallerStates, JobStates, CloserStates, SlotsCounted, ClosedWithLast,
       Cancel, closing, working
<1>6. UNCHANGED Pool!poolVars
  BY <1>4 DEF Pool!poolVars, Cancel, closing, working
<1>. QED  BY <1>1, <1>2, <1>3, <1>5, <1>6

LEMMA TakeKeeps ==
    ASSUME IInv, NEW w \in Workers, Take(w)
    PROVE  IInv' /\ UNCHANGED Pool!poolVars
<1>. USE DEF IInv
<1>1. TypeOK'
  BY DEF TypeOK, CallerStates, JobStates, CloserStates, Take, Go, closing, working
<1>2. ASSUME NEW d \in Calls  PROVE CallOK(d)'
  BY DEF TypeOK, CallerStates, JobStates, CloserStates, CallOK, ClosingOK, NeverAdmitted,
       HasLock, Ended, Take, Go, LockFree, closing, working
<1>3. ClosingOK'
  BY DEF TypeOK, CallerStates, JobStates, CloserStates, CallOK, ClosingOK, NeverAdmitted,
       HasLock, Take, Go, LockFree, closing, working
<1>4. Holding' = Holding
  BY DEF TypeOK, CallerStates, JobStates, CloserStates, Holding, CallOK, NeverAdmitted,
       HasLock, Take, Go, closing, working
<1>5. SlotsCounted' /\ ClosedWithLast'
  BY <1>4 DEF TypeOK, CallerStates, JobStates, CloserStates, SlotsCounted, ClosedWithLast,
       Take, closing, working
<1>6. UNCHANGED Pool!poolVars
  BY <1>4 DEF Pool!poolVars, Take, closing, working
<1>. QED  BY <1>1, <1>2, <1>3, <1>5, <1>6

LEMMA UseHttpKeeps ==
    ASSUME IInv, NEW w \in Workers, UseHttp(w)
    PROVE  IInv' /\ (Pool!Open \/ UNCHANGED Pool!poolVars)
<1>. USE DEF IInv
<1>1. TypeOK'
  BY DEF TypeOK, CallerStates, JobStates, CloserStates, UseHttp, Go, closing, working
<1>2. ASSUME NEW d \in Calls  PROVE CallOK(d)'
  BY DEF TypeOK, CallerStates, JobStates, CloserStates, CallOK, ClosingOK, NeverAdmitted,
       HasLock, Ended, UseHttp, Go, LockFree, closing, working
<1>3. ClosingOK'
  BY DEF TypeOK, CallerStates, JobStates, CloserStates, CallOK, ClosingOK, NeverAdmitted,
       HasLock, UseHttp, Go, LockFree, closing, working
<1>4. Holding' = Holding
  BY DEF TypeOK, CallerStates, JobStates, CloserStates, Holding, CallOK, NeverAdmitted,
       HasLock, UseHttp, Go, closing, working
<1>5. SlotsCounted' /\ ClosedWithLast'
  BY <1>4 DEF TypeOK, CallerStates, JobStates, CloserStates, SlotsCounted, ClosedWithLast,
       UseHttp, closing, working
<1>6. worker[w] \in Holding
  BY DEF TypeOK, Holding, CallOK, NeverAdmitted, Ended, UseHttp
<1>7. Pool!Open \/ UNCHANGED Pool!poolVars
  BY <1>4, <1>6 DEF Pool!Open, Pool!poolVars, UseHttp, closing, working
<1>. QED  BY <1>1, <1>2, <1>3, <1>5, <1>7

LEMMA FinishKeeps ==
    ASSUME IInv, NEW w \in Workers, Finish(w)
    PROVE  IInv' /\ UNCHANGED Pool!poolVars
<1>. USE DEF IInv
<1>1. TypeOK'
  BY DEF TypeOK, CallerStates, JobStates, CloserStates, Finish, Go, closing, working
<1>2. ASSUME NEW d \in Calls  PROVE CallOK(d)'
  BY DEF TypeOK, CallerStates, JobStates, CloserStates, CallOK, ClosingOK, NeverAdmitted,
       HasLock, Ended, Finish, Go, LockFree, closing, working
<1>3. ClosingOK'
  BY DEF TypeOK, CallerStates, JobStates, CloserStates, CallOK, ClosingOK, NeverAdmitted,
       HasLock, Finish, Go, LockFree, closing, working
<1>4. Holding' = Holding
  BY DEF TypeOK, CallerStates, JobStates, CloserStates, Holding, CallOK, NeverAdmitted,
       HasLock, Finish, Go, closing, working
<1>5. SlotsCounted' /\ ClosedWithLast'
  BY <1>4 DEF TypeOK, CallerStates, JobStates, CloserStates, SlotsCounted, ClosedWithLast,
       Finish, closing, working
<1>6. UNCHANGED Pool!poolVars
  BY <1>4 DEF Pool!poolVars, Finish, closing, working
<1>. QED  BY <1>1, <1>2, <1>3, <1>5, <1>6

LEMMA BecomeIdleKeeps ==
    ASSUME IInv, NEW w \in Workers, BecomeIdle(w)
    PROVE  IInv' /\ UNCHANGED Pool!poolVars
<1>. USE DEF IInv
<1>1. TypeOK'
  BY DEF TypeOK, CallerStates, JobStates, CloserStates, BecomeIdle, Go, closing, working
<1>2. ASSUME NEW d \in Calls  PROVE CallOK(d)'
  BY DEF TypeOK, CallerStates, JobStates, CloserStates, CallOK, ClosingOK, NeverAdmitted,
       HasLock, Ended, BecomeIdle, Go, LockFree, closing, working
<1>3. ClosingOK'
  BY DEF TypeOK, CallerStates, JobStates, CloserStates, CallOK, ClosingOK, NeverAdmitted,
       HasLock, BecomeIdle, Go, LockFree, closing, working
<1>4. Holding' = Holding
  BY DEF TypeOK, CallerStates, JobStates, CloserStates, Holding, CallOK, NeverAdmitted,
       HasLock, BecomeIdle, Go, closing, working
<1>5. SlotsCounted' /\ ClosedWithLast'
  BY <1>4 DEF TypeOK, CallerStates, JobStates, CloserStates, SlotsCounted, ClosedWithLast,
       BecomeIdle, closing, working
<1>6. UNCHANGED Pool!poolVars
  BY <1>4 DEF Pool!poolVars, BecomeIdle, closing, working
<1>. QED  BY <1>1, <1>2, <1>3, <1>5, <1>6

LEMMA ShutdownKeeps ==
    ASSUME IInv, Shutdown
    PROVE  IInv' /\ UNCHANGED Pool!poolVars
<1>. USE DEF IInv
<1>1. TypeOK'
  BY DEF TypeOK, CallerStates, JobStates, CloserStates, Shutdown, Go, closing, working
<1>2. ASSUME NEW d \in Calls  PROVE CallOK(d)'
  BY DEF TypeOK, CallerStates, JobStates, CloserStates, CallOK, ClosingOK, NeverAdmitted,
       HasLock, Ended, Shutdown, Go, LockFree, closing, working
<1>3. ClosingOK'
  BY DEF TypeOK, CallerStates, JobStates, CloserStates, CallOK, ClosingOK, NeverAdmitted,
       HasLock, Shutdown, Go, LockFree, closing, working
<1>4. Holding' = Holding
  BY DEF TypeOK, CallerStates, JobStates, CloserStates, Holding, CallOK, NeverAdmitted,
       HasLock, Shutdown, Go, closing, working
<1>5. SlotsCounted' /\ ClosedWithLast'
  BY <1>4 DEF TypeOK, CallerStates, JobStates, CloserStates, SlotsCounted, ClosedWithLast,
       Shutdown, closing, working
<1>6. UNCHANGED Pool!poolVars
  BY <1>4 DEF Pool!poolVars, Shutdown, closing, working
<1>. QED  BY <1>1, <1>2, <1>3, <1>5, <1>6

LEMMA DrainKeeps ==
    ASSUME IInv, Drain
    PROVE  IInv' /\ UNCHANGED Pool!poolVars
<1>. USE DEF IInv
<1>1. TypeOK'
  BY DEF TypeOK, CallerStates, JobStates, CloserStates, Drain, Go, closing, working
<1>2. ASSUME NEW d \in Calls  PROVE CallOK(d)'
  BY DEF TypeOK, CallerStates, JobStates, CloserStates, CallOK, ClosingOK, NeverAdmitted,
       HasLock, Ended, Drain, Go, LockFree, closing, working
<1>3. ClosingOK'
  BY DEF TypeOK, CallerStates, JobStates, CloserStates, CallOK, ClosingOK, NeverAdmitted,
       HasLock, Drain, Go, LockFree, closing, working
<1>4. Holding' = Holding
  BY DEF TypeOK, CallerStates, JobStates, CloserStates, Holding, CallOK, NeverAdmitted,
       HasLock, Drain, Go, closing, working
<1>5. SlotsCounted' /\ ClosedWithLast'
  BY <1>4 DEF TypeOK, CallerStates, JobStates, CloserStates, SlotsCounted, ClosedWithLast,
       Drain, closing, working
<1>6. UNCHANGED Pool!poolVars
  BY <1>4 DEF Pool!poolVars, Drain, closing, working
<1>. QED  BY <1>1, <1>2, <1>3, <1>5, <1>6

LEMMA DrainedKeeps ==
    ASSUME IInv, Drained
    PROVE  IInv' /\ UNCHANGED Pool!poolVars
<1>. USE DEF IInv
<1>1. TypeOK'
  BY DEF TypeOK, CallerStates, JobStates, CloserStates, Drained, Go, closing, working
<1>2. ASSUME NEW d \in Calls  PROVE CallOK(d)'
  BY DEF TypeOK, CallerStates, JobStates, CloserStates, CallOK, ClosingOK, NeverAdmitted,
       HasLock, Ended, Drained, Go, LockFree, closing, working
<1>3. ClosingOK'
  BY DEF TypeOK, CallerStates, JobStates, CloserStates, CallOK, ClosingOK, NeverAdmitted,
       HasLock, Drained, Go, LockFree, closing, working
<1>4. Holding' = Holding
  BY DEF TypeOK, CallerStates, JobStates, CloserStates, Holding, CallOK, NeverAdmitted,
       HasLock, Drained, Go, closing, working
<1>5. SlotsCounted' /\ ClosedWithLast'
  BY <1>4 DEF TypeOK, CallerStates, JobStates, CloserStates, SlotsCounted, ClosedWithLast,
       Drained, closing, working
<1>6. UNCHANGED Pool!poolVars
  BY <1>4 DEF Pool!poolVars, Drained, closing, working
<1>. QED  BY <1>1, <1>2, <1>3, <1>5, <1>6

LEMMA JoinKeeps ==
    ASSUME IInv, Join
    PROVE  IInv' /\ UNCHANGED Pool!poolVars
<1>. USE DEF IInv
<1>1. TypeOK'
  BY DEF TypeOK, CallerStates, JobStates, CloserStates, Join, Go, closing, working
<1>2. ASSUME NEW d \in Calls  PROVE CallOK(d)'
  BY DEF TypeOK, CallerStates, JobStates, CloserStates, CallOK, ClosingOK, NeverAdmitted,
       HasLock, Ended, Join, Go, LockFree, closing, working
<1>3. ClosingOK'
  BY DEF TypeOK, CallerStates, JobStates, CloserStates, CallOK, ClosingOK, NeverAdmitted,
       HasLock, Join, Go, LockFree, closing, working
<1>4. Holding' = Holding
  BY DEF TypeOK, CallerStates, JobStates, CloserStates, Holding, CallOK, NeverAdmitted,
       HasLock, Join, Go, closing, working
<1>5. SlotsCounted' /\ ClosedWithLast'
  BY <1>4 DEF TypeOK, CallerStates, JobStates, CloserStates, SlotsCounted, ClosedWithLast,
       Join, closing, working
<1>6. UNCHANGED Pool!poolVars
  BY <1>4 DEF Pool!poolVars, Join, closing, working
<1>. QED  BY <1>1, <1>2, <1>3, <1>5, <1>6

-----------------------------------------------------------------------------
\* The steps that run a callback

LEMMA CancelDoneKeeps ==
    ASSUME IInv, NEW k \in Calls, CancelDone(k)
    PROVE  IInv' /\ Pool!Release(k)
<1>. USE DEF IInv
<1>. DEFINE c == k
<1>1. c \in Calls /\ c \in Holding /\ callback[c] = "registered" /\ Ended(c)
  BY DEF TypeOK, CallerStates, JobStates, CloserStates, Holding, CallOK, ClosingOK,
       NeverAdmitted, HasLock, Ended, CancelDone
<1>2. RequestDone(c) /\ closed' = closed
  BY DEF CancelDone, closing
<1>3. Holding' = Holding \ {c}
  BY <1>1, <1>2 DEF TypeOK, CallerStates, JobStates, CloserStates, Holding, CallOK,
       NeverAdmitted, HasLock, CancelDone, RequestDone, Go, closing, working
<1>4. /\ SlotsCounted' /\ ClosedWithLast'
      /\ inflight' \in Nat /\ http' \in {"none", "open", "closed"}
      /\ Pool!Release(c)
  BY <1>1, <1>2, <1>3, DoneReleases DEF Pool!Release, Pool!Left
<1>5. TypeOK'
  BY <1>1, <1>2, <1>4 DEF TypeOK, CallerStates, JobStates, CloserStates, CancelDone,
       RequestDone, Go, closing, working
<1>6. ASSUME NEW d \in Calls  PROVE CallOK(d)'
  BY <1>1, <1>2 DEF TypeOK, CallerStates, JobStates, CloserStates, CallOK, ClosingOK,
       NeverAdmitted, HasLock, Ended, CancelDone, RequestDone, Go, LockFree, closing, working
<1>7. ClosingOK'
  BY <1>1, <1>2 DEF TypeOK, CallerStates, JobStates, CloserStates, CallOK, ClosingOK,
       CancelDone, RequestDone, Go, LockFree, closing, working
<1>. QED  BY <1>4, <1>5, <1>6, <1>7

LEMMA FinishDoneKeeps ==
    ASSUME IInv, NEW w \in Workers, FinishDone(w)
    PROVE  IInv' /\ Pool!Release(worker[w])
<1>. USE DEF IInv
<1>. DEFINE c == worker[w]
<1>1. c \in Calls /\ c \in Holding /\ callback[c] = "registered" /\ Ended(c)
  BY DEF TypeOK, CallerStates, JobStates, CloserStates, Holding, CallOK, ClosingOK,
       NeverAdmitted, HasLock, Ended, FinishDone
<1>2. RequestDone(c) /\ closed' = closed
  BY DEF FinishDone, closing
<1>3. Holding' = Holding \ {c}
  BY <1>1, <1>2 DEF TypeOK, CallerStates, JobStates, CloserStates, Holding, CallOK,
       NeverAdmitted, HasLock, FinishDone, RequestDone, Go, closing, working
<1>4. /\ SlotsCounted' /\ ClosedWithLast'
      /\ inflight' \in Nat /\ http' \in {"none", "open", "closed"}
      /\ Pool!Release(c)
  BY <1>1, <1>2, <1>3, DoneReleases DEF Pool!Release, Pool!Left
<1>5. TypeOK'
  BY <1>1, <1>2, <1>4 DEF TypeOK, CallerStates, JobStates, CloserStates, FinishDone,
       RequestDone, Go, closing, working
<1>6. ASSUME NEW d \in Calls  PROVE CallOK(d)'
  BY <1>1, <1>2 DEF TypeOK, CallerStates, JobStates, CloserStates, CallOK, ClosingOK,
       NeverAdmitted, HasLock, Ended, FinishDone, RequestDone, Go, LockFree, closing, working
<1>7. ClosingOK'
  BY <1>1, <1>2 DEF TypeOK, CallerStates, JobStates, CloserStates, CallOK, ClosingOK,
       FinishDone, RequestDone, Go, LockFree, closing, working
<1>. QED  BY <1>4, <1>5, <1>6, <1>7

LEMMA DrainDoneKeeps ==
    ASSUME IInv, DrainDone
    PROVE  IInv' /\ Pool!Release(dropped)
<1>. USE DEF IInv
<1>. DEFINE c == dropped
<1>1. c \in Calls /\ c \in Holding /\ callback[c] = "registered" /\ Ended(c)
  BY DEF TypeOK, CallerStates, JobStates, CloserStates, Holding, CallOK, ClosingOK,
       NeverAdmitted, HasLock, Ended, DrainDone
<1>2. RequestDone(c) /\ closed' = closed
  BY DEF DrainDone, closing
<1>3. Holding' = Holding \ {c}
  BY <1>1, <1>2 DEF TypeOK, CallerStates, JobStates, CloserStates, Holding, CallOK,
       NeverAdmitted, HasLock, DrainDone, RequestDone, Go, closing, working
<1>4. /\ SlotsCounted' /\ ClosedWithLast'
      /\ inflight' \in Nat /\ http' \in {"none", "open", "closed"}
      /\ Pool!Release(c)
  BY <1>1, <1>2, <1>3, DoneReleases DEF Pool!Release, Pool!Left
<1>5. TypeOK'
  BY <1>1, <1>2, <1>4 DEF TypeOK, CallerStates, JobStates, CloserStates, DrainDone,
       RequestDone, Go, closing, working
<1>6. ASSUME NEW d \in Calls  PROVE CallOK(d)'
  BY <1>1, <1>2, KBConstants DEF TypeOK, CallerStates, JobStates, CloserStates, CallOK,
       ClosingOK, NeverAdmitted, HasLock, Ended, DrainDone, RequestDone, Go, LockFree, closing,
       working
<1>7. ClosingOK'
  BY <1>1, <1>2 DEF TypeOK, CallerStates, JobStates, CloserStates, CallOK, ClosingOK,
       DrainDone, RequestDone, Go, LockFree, closing, working
<1>. QED  BY <1>4, <1>5, <1>6, <1>7

-----------------------------------------------------------------------------
\* Admission takes a slot; registration may find the future ended; close may find the
\* client unused.
LEMMA FetchKeeps ==
    ASSUME IInv, NEW c \in Calls, Fetch(c)
    PROVE  IInv' /\ (Pool!Admit(c) \/ UNCHANGED Pool!poolVars)
<1>. USE DEF IInv
<1>1. caller[c] = "idle" /\ LockFree /\ c \notin Holding  BY DEF Fetch, Holding
<1>2. TypeOK'
  BY DEF TypeOK, CallerStates, JobStates, CloserStates, Fetch, Go, closing, working
<1>3. ASSUME NEW d \in Calls  PROVE CallOK(d)'
  BY <1>1, KBConstants DEF TypeOK, CallerStates, CallOK, NeverAdmitted, HasLock, Ended, Fetch, Go,
       LockFree, closing, working
<1>4. ClosingOK'
  BY DEF ClosingOK, Fetch, Refuses, closing
<1>5. CASE Refuses \/ Full
  <2>1. Holding' = Holding  BY <1>5 DEF TypeOK, Holding, Fetch, Go
  <2> QED
    BY <1>2, <1>3, <1>4, <1>5, <2>1 DEF SlotsCounted, ClosedWithLast, Fetch, closing,
         Pool!poolVars
<1>6. CASE ~Refuses /\ ~Full
  <2>1. callback[c] = "none"  BY <1>1 DEF CallOK, NeverAdmitted
  <2>2. Holding' = Holding \cup {c}
    BY <1>1, <1>6, <2>1 DEF TypeOK, CallerStates, Holding, Fetch, Go
  <2>3. Cardinality(Holding') = Cardinality(Holding) + 1
    BY <1>1, <2>2, HoldingFinite, FS_AddElement
  <2>4. SlotsCounted' /\ ClosedWithLast'
    BY <1>6, <2>3 DEF SlotsCounted, ClosedWithLast, Fetch, Refuses, closing
  <2>5. MaxInflight \in Nat  BY KBConstants, FS_CardinalityType DEF MaxInflight
  <2>6. Cardinality(Holding) < MaxInflight  BY <1>6, <2>5, HoldingFinite DEF SlotsCounted, Full
  <2>7. Pool!Cardinality(Holding) = Cardinality(Holding)
    BY DEF Pool!Cardinality, Cardinality
  <2>8. Pool!Admit(c)  BY <1>1, <1>6, <2>2, <2>6, <2>7 DEF Pool!Admit, Fetch, Refuses, closing
  <2> QED  BY <1>2, <1>3, <1>4, <2>4, <2>8
<1> QED  BY <1>5, <1>6

LEMMA RegisterKeeps ==
    ASSUME IInv, NEW c \in Calls, Register(c)
    PROVE  IInv' /\ (Pool!Release(c) \/ UNCHANGED Pool!poolVars)
<1>. USE DEF IInv
<1>1. c \in Holding /\ caller[c] = "registering" /\ callback[c] = "none" /\ lock = c
  BY DEF Register, Holding, CallOK, HasLock
<1>2. ~closed  BY <1>1, KBConstants DEF ClosingOK
<1>3. ASSUME NEW d \in Calls  PROVE CallOK(d)'
  BY <1>1, KBConstants DEF TypeOK, CallerStates, JobStates, CallOK, NeverAdmitted, HasLock, Ended,
       Register, RequestDone, Go, closing, working
<1>4. ClosingOK'
  BY DEF ClosingOK, Register, closing
<1>5. CASE Ended(c)
  <2>1. RequestDone(c) /\ closed' = closed  BY <1>5 DEF Register, closing
  <2>2. Holding' = Holding \ {c}
    BY <1>1, <2>1 DEF TypeOK, CallerStates, Holding, Register, RequestDone, Go
  <2>3. /\ SlotsCounted' /\ ClosedWithLast'
        /\ inflight' \in Nat /\ http' \in {"none", "open", "closed"}
        /\ Pool!Release(c)
    BY <1>1, <2>1, <2>2, DoneReleases DEF Pool!Release, Pool!Left
  <2>4. TypeOK'
    BY <2>1, <2>3 DEF TypeOK, CallerStates, JobStates, CloserStates, Register, RequestDone, Go,
         closing, working
  <2> QED  BY <1>3, <1>4, <2>3, <2>4
<1>6. CASE ~Ended(c)
  <2>1. Holding' = Holding
    BY <1>1, <1>6 DEF TypeOK, CallerStates, Holding, Register, Go
  <2>2. TypeOK'
    BY <1>6 DEF TypeOK, CallerStates, JobStates, CloserStates, Register, Go, closing, working
  <2> QED
    BY <1>3, <1>4, <1>6, <2>1, <2>2 DEF SlotsCounted, ClosedWithLast, Register, closing,
         Pool!poolVars
<1> QED  BY <1>5, <1>6

LEMMA CloseBeginKeeps ==
    ASSUME IInv, CloseBegin
    PROVE  IInv' /\ Pool!Close
<1>. USE DEF IInv
<1>1. TypeOK'
  BY DEF TypeOK, CloserStates, CloseBegin, GivenUp, working
<1>2. ASSUME NEW d \in Calls  PROVE CallOK(d)'
  BY DEF CallOK, Ended, CloseBegin, working
<1>3. ClosingOK'
  BY DEF ClosingOK, CloseBegin, LockFree
<1>4. Holding' = Holding  BY DEF Holding, CloseBegin
<1>5. inflight = 0 <=> Holding = {}
  BY HoldingFinite, FS_EmptySet DEF SlotsCounted
<1>6. SlotsCounted' /\ ClosedWithLast'
  BY <1>4, <1>5 DEF SlotsCounted, ClosedWithLast, CloseBegin, GivenUp, TypeOK
<1>7. Pool!Close
  BY <1>4, <1>5 DEF Pool!Close, Pool!Left, ClosingOK, CloseBegin, GivenUp, TypeOK
<1> QED
  BY <1>1, <1>2, <1>3, <1>6, <1>7

-----------------------------------------------------------------------------
LEMMA InitOK == Init => IInv
<1> SUFFICES ASSUME Init  PROVE IInv
  OBVIOUS
<1>1. \A c \in Calls : caller[c] = "idle"  BY DEF Init
<1>5. Holding = {}  BY <1>1 DEF Holding
<1>2. SlotsCounted  BY <1>5, FS_EmptySet DEF Init, SlotsCounted
<1>3. TypeOK
  <2>1. queue \in Seq(Calls)  BY DEF Init
  <2>2. /\ caller \in [Calls -> CallerStates] /\ job \in [Calls -> JobStates]
        /\ callback \in [Calls -> {"none", "registered", "run"}]
        /\ worker \in [Workers -> Calls \cup {NoOne}]
    BY DEF Init, CallerStates, JobStates
  <2> QED  BY <2>1, <2>2 DEF Init, TypeOK, CloserStates
<1>4. ASSUME NEW c \in Calls  PROVE CallOK(c)
  BY KBConstants DEF Init, CallOK, NeverAdmitted, HasLock, Ended
<1> QED  BY <1>2, <1>3, <1>4 DEF IInv, Init, ClosingOK, ClosedWithLast

LEMMA StutterKeeps ==
    ASSUME IInv, UNCHANGED vars
    PROVE  IInv' /\ UNCHANGED Pool!poolVars
<1>1. Holding' = Holding  BY DEF vars, Holding
<1>2. ASSUME NEW c \in Calls  PROVE CallOK(c)'  BY DEF IInv, vars, CallOK, Ended
<1> QED
  BY <1>1, <1>2 DEF IInv, vars, TypeOK, ClosingOK, ClosedWithLast, SlotsCounted, Pool!poolVars

\* Every step keeps the invariant and is a step of the pool, or none.
LEMMA NextKeeps ==
    ASSUME IInv, [Next]_vars
    PROVE  IInv' /\ [Pool!PoolNext]_Pool!poolVars
<1>1. ASSUME NEW c \in Calls, Fetch(c) \/ CallerStep(c)
      PROVE  IInv' /\ (Pool!Admit(c) \/ Pool!Release(c) \/ UNCHANGED Pool!poolVars)
  BY <1>1, FetchKeeps, SubmitKeeps, RegisterKeeps, ResultKeeps, ExpireKeeps, CancelKeeps,
     CancelDoneKeeps DEF CallerStep
<1>2. ASSUME NEW w \in Workers, WorkerStep(w)
      PROVE  IInv' /\ (Pool!Open \/ Pool!Release(worker[w]) \/ UNCHANGED Pool!poolVars)
  BY <1>2, TakeKeeps, UseHttpKeeps, FinishKeeps, FinishDoneKeeps, BecomeIdleKeeps DEF WorkerStep
<1>3. ASSUME CloseBegin \/ CloserStep
      PROVE  IInv' /\ (Pool!Close \/ Pool!Release(dropped) \/ UNCHANGED Pool!poolVars)
  BY <1>3, CloseBeginKeeps, ShutdownKeeps, DrainKeeps, DrainDoneKeeps, DrainedKeeps, JoinKeeps
     DEF CloserStep
<1>4. ASSUME NEW c, Pool!Release(c)  PROVE c \in Calls
  BY <1>4 DEF Pool!Release, Holding
<1> QED  BY <1>1, <1>2, <1>3, <1>4, StutterKeeps DEF Next, Pool!PoolNext

\* The invariant holds in every reachable state.
THEOREM Invariance == Spec => []IInv
BY InitOK, NextKeeps, PTL DEF Spec

\* Every variable keeps its type; the count of slots never goes below zero
\* (kb_client.py:61-94).
THEOREM TypeCorrect == Spec => []TypeOK
<1>1. IInv => TypeOK  BY DEF IInv
<1> QED  BY <1>1, Invariance, PTL

\* A slot is counted for every admitted call until its callback has run, whichever thread
\* runs it, and it runs once (kb_client.py:61-94).
THEOREM SlotsAreCounted == Spec => []SlotsCounted
<1>1. IInv => SlotsCounted  BY DEF IInv
<1> QED  BY <1>1, Invariance, PTL

\* The connection outlives every request that could use it (kb_client.py:90-94, 152-160).
THEOREM ConnectionOutlivesRequests == Spec => []NoUseAfterClose
<1>1. ASSUME IInv, http = "closed", NEW c \in Calls
      PROVE  job[c] \notin {"pending", "running", "using"} /\ caller[c] # "submitting"
  <2>1. closed /\ c \notin Holding  BY <1>1 DEF IInv, ClosedWithLast
  <2>2. caller[c] \in NeverAdmitted \/ callback[c] = "run"
    BY <2>1 DEF Holding, NeverAdmitted
  <2> QED  BY <1>1, <2>2 DEF IInv, CallOK, NeverAdmitted, Ended
<1>2. IInv => NoUseAfterClose  BY <1>1 DEF NoUseAfterClose
<1> QED  BY <1>2, Invariance, PTL

\* The client implements the admission pool: every step of callers, workers and close is
\* one admission below the limit, one release, the opening or the close of the pool, or
\* nothing the pool sees (kb_client.py:61-94, 152-160).
THEOREM ImplementsPool == Spec => Pool!PoolSpec
<1>1. Init => Pool!PoolInit
  BY DEF Init, Pool!PoolInit, Holding
<1>2. IInv /\ [Next]_vars => [Pool!PoolNext]_Pool!poolVars
  BY NextKeeps
<1> QED  BY <1>1, <1>2, Invariance, PTL DEF Spec, Pool!PoolSpec

-----------------------------------------------------------------------------
\* SearchService

Entries == [key : Keys, at : 0..MaxTime, value : Values]

LEMMA EntryType ==
    ASSUME ServiceTypeOK, NEW i \in DOMAIN cache
    PROVE  cache[i] \in Entries
<1>1. cache \in Seq(Entries)
  BY DEF ServiceTypeOK, Entries
<1>2. i \in 1..Len(cache)
  BY <1>1
<1>3. QED
  BY <1>1, <1>2

\* One response of the provider stands behind a value: given for this key, and valid.
Behind(k, value, g) ==
    g.key = k /\ value = Mapped(g.hits) /\ Valid(g.hits, k.edition)

Backed(entry) ==
    \E g \in given : Behind(entry.key, entry.value, g) /\ entry.at <= g.at + Deadline

\* A search has asked no longer ago than the deadline, and has a response to show for what
\* it is about to store.
InTime(s) ==
    /\ stage[s] \in {"asking", "storing"} => asked[s] <= now /\ now <= asked[s] + Deadline
    /\ stage[s] = "storing" =>
         \E g \in given : Behind(key[s], result[s], g) /\ asked[s] <= g.at

ServiceInv ==
    /\ ServiceTypeOK
    /\ \A i \in DOMAIN cache : Backed(cache[i])
    /\ \A s \in Searches : InTime(s)
    /\ LastUsedKept

\* But for the last of its new entries, the cache shows old ones, not of k, in their old
\* order; the one that is missing was the first of a full cache.
Shifted(k, old, kept) ==
    \E from \in [1..kept -> 1..old] :
      /\ \A j \in 1..kept : cache'[j] = cache[from[j]] /\ cache[from[j]].key # k
      /\ \A i, j \in 1..kept : i < j => from[i] < from[j]
      /\ \A i \in DOMAIN cache : cache[i].key # k =>
           (\E j \in 1..kept : from[j] = i) \/ (i = 1 /\ kept + 1 = CacheLimit)

\* The entry of k goes last, the others keep their order; at most the first is evicted.
GoesLast(k, entry) ==
    /\ Len(cache') \in 1..CacheLimit /\ Len(cache') >= Len(cache)
    /\ cache'[Len(cache')] = entry
    /\ Shifted(k, Len(cache), Len(cache') - 1)

\* One element moved to the end, or replaced there by e
Moved(seq, i, e) == Append(RemoveAt(seq, i), e)

LEMMA MovedToEnd ==
    ASSUME NEW seq \in Seq(Entries), NEW i \in 1..Len(seq), NEW e \in Entries
    PROVE  /\ Moved(seq, i, e) \in Seq(Entries)
           /\ Len(Moved(seq, i, e)) = Len(seq) /\ Moved(seq, i, e)[Len(seq)] = e
           /\ \A j \in 1..(Len(seq) - 1) :
                (j < i => Moved(seq, i, e)[j] = seq[j])
                /\ (j >= i => Moved(seq, i, e)[j] = seq[j + 1])
<1> DEFINE left == SubSeq(seq, 1, i - 1)
           right == SubSeq(seq, i + 1, Len(seq))
           n == Len(seq)
<1>1. n \in Nat /\ i \in 1..n
  OBVIOUS
<1>2. /\ left \in Seq(Entries) /\ Len(left) = i - 1
      /\ \A j \in 1..(i - 1) : left[j] = seq[j]
  BY <1>1
<1>3. /\ right \in Seq(Entries) /\ Len(right) = n - i
      /\ \A j \in 1..(n - i) : right[j] = seq[i + j]
  BY <1>1
<1>4. RemoveAt(seq, i) = left \o right
  BY DEF RemoveAt
<1> HIDE DEF left, right
<1> DEFINE both == left \o right
<1>5. /\ both \in Seq(Entries) /\ Len(both) = n - 1
      /\ \A j \in 1..(n - 1) : both[j] = IF j <= i - 1 THEN left[j] ELSE right[j - (i - 1)]
  <2>1. /\ both \in Seq(Entries) /\ Len(both) = Len(left) + Len(right)
        /\ \A j \in 1..(Len(left) + Len(right)) :
             both[j] = IF j <= Len(left) THEN left[j] ELSE right[j - Len(left)]
    BY <1>2, <1>3, ConcatProperties
  <2>2. Len(left) + Len(right) = n - 1
    BY <1>1, <1>2, <1>3
  <2>3. QED
    BY <1>2, <2>1, <2>2
<1>6. \A j \in 1..(n - 1) :
        (j < i => both[j] = seq[j]) /\ (j >= i => both[j] = seq[j + 1])
  <2>1. ASSUME NEW j \in 1..(n - 1), j < i PROVE both[j] = seq[j]
    BY <1>1, <1>2, <1>5, <2>1
  <2>2. ASSUME NEW j \in 1..(n - 1), j >= i PROVE both[j] = seq[j + 1]
    <3>1. j - (i - 1) \in 1..(n - i) /\ i + (j - (i - 1)) = j + 1 /\ ~(j <= i - 1)
      BY <1>1, <2>2
    <3>2. both[j] = right[j - (i - 1)]
      BY <1>5, <3>1
    <3>3. QED
      BY <1>3, <3>1, <3>2
  <2>3. QED
    BY <2>1, <2>2
<1>7. Moved(seq, i, e) = Append(both, e)
  BY <1>4 DEF Moved
<1> HIDE DEF both
<1>8. QED
  BY <1>1, <1>5, <1>6, <1>7

LEMMA NotAfterItself ==
    ASSUME ServiceTypeOK, NEW k
    PROVE  ~UsedAfter(k, k)
<1>1. SUFFICES ASSUME UsedAfter(k, k) PROVE FALSE
  OBVIOUS
<1>2. PICK i \in DOMAIN used : used[i] = k /\ \A j \in DOMAIN used : j >= i => used[j] # k
  BY <1>1 DEF UsedAfter
<1>3. i \in Int
  BY <1>1 DEF ServiceTypeOK
<1>4. QED
  BY <1>2, <1>3

\* No key is in the cache twice.
LEMMA OneOfEach ==
    ASSUME ServiceTypeOK, LastUsedKept, NEW i \in DOMAIN cache, NEW j \in DOMAIN cache,
           cache[i].key = cache[j].key
    PROVE  i = j
<1>1. DOMAIN cache = 1..Len(cache) /\ Len(cache) \in Nat
  BY DEF ServiceTypeOK
<1>2. ~(i < j) /\ ~(j < i)
  BY NotAfterItself DEF LastUsedKept
<1>3. QED
  BY <1>1, <1>2

\* A key that has an entry: the entry, or a new one in its stead, goes last.
LEMMA MovingGoesLast ==
    ASSUME ServiceTypeOK, LastUsedKept, NEW k, NEW i \in At(k), NEW entry \in Entries,
           entry.key = k, cache' = Append(RemoveAt(cache, i), entry)
    PROVE  GoesLast(k, entry) /\ cache' \in Seq(Entries)
<1> DEFINE n == Len(cache)
           from == [j \in 1..(n - 1) |-> IF j < i THEN j ELSE j + 1]
<1>1. /\ cache \in Seq(Entries) /\ n \in Nat /\ DOMAIN cache = 1..n
      /\ i \in 1..n /\ cache[i].key = k /\ n <= CacheLimit /\ CacheLimit \in Nat
  BY ServiceConstants DEF ServiceTypeOK, Entries, At, LastUsedKept
<1>2. /\ cache' \in Seq(Entries) /\ Len(cache') = n /\ cache'[n] = entry
      /\ \A j \in 1..(n - 1) : cache'[j] = cache[IF j < i THEN j ELSE j + 1]
  <2>1. PICK t : t = Moved(cache, i, entry)
    OBVIOUS
  <2>2. /\ t \in Seq(Entries) /\ Len(t) = n /\ t[n] = entry
        /\ \A j \in 1..(n - 1) : (j < i => t[j] = cache[j]) /\ (j >= i => t[j] = cache[j + 1])
    <3>1. cache \in Seq(Entries) /\ i \in 1..Len(cache) /\ entry \in Entries
      BY <1>1
    <3>2. QED
      BY ONLY <2>1, <3>1, MovedToEnd
  <2>3. cache' = t
    BY <2>1 DEF Moved
  <2>4. QED
    BY <1>1, <2>2, <2>3
<1>3. from \in [1..(n - 1) -> 1..n]
  BY <1>1
<1>4. \A j \in 1..(n - 1) : cache'[j] = cache[from[j]] /\ from[j] \in 1..n /\ from[j] # i
  BY <1>1, <1>2
<1>5. ASSUME NEW j \in 1..(n - 1) PROVE cache[from[j]].key # k
  <2>1. PICK p \in DOMAIN cache : p = from[j] /\ p # i
    BY <1>1, <1>4
  <2>2. QED
    BY <1>1, <2>1, OneOfEach
<1>6. \A p, q \in 1..(n - 1) : p < q => from[p] < from[q]
  BY <1>1
<1>7. ASSUME NEW p \in 1..n, cache[p].key # k PROVE \E j \in 1..(n - 1) : from[j] = p
  <2>1. p # i
    BY <1>1, <1>7
  <2>2. CASE p < i
    <3>1. p \in 1..(n - 1) /\ from[p] = p
      BY <1>1, <2>2
    <3>2. QED
      BY <3>1
  <2>3. CASE p > i
    <3>1. p - 1 \in 1..(n - 1) /\ from[p - 1] = p
      BY <1>1, <2>3
    <3>2. QED
      BY <3>1
  <2>4. QED
    BY <1>1, <2>1, <2>2, <2>3
<1> HIDE DEF from
<1>8. Shifted(k, n, n - 1)
  <2>1. \A j \in 1..(n - 1) : cache'[j] = cache[from[j]] /\ cache[from[j]].key # k
    BY <1>4, <1>5
  <2>2. \A p \in DOMAIN cache : cache[p].key # k =>
          (\E j \in 1..(n - 1) : from[j] = p) \/ (p = 1 /\ (n - 1) + 1 = CacheLimit)
    BY <1>1, <1>7
  <2> HIDE DEF n
  <2>3. QED
    BY <1>3, <1>6, <2>1, <2>2, Zenon DEF Shifted
<1>9. n \in 1..CacheLimit
  BY <1>1
<1>10. n = Len(cache)
  OBVIOUS
<1> HIDE DEF n
<1>11. QED
  BY <1>1, <1>2, <1>8, <1>9, <1>10 DEF GoesLast

\* A key that has none: its entry is appended, and the first may have to go.
LEMMA AppendingGoesLast ==
    ASSUME ServiceTypeOK, LastUsedKept, NEW k, At(k) = {}, NEW entry \in Entries,
           entry.key = k, cache' = Evict(Append(cache, entry))
    PROVE  GoesLast(k, entry) /\ cache' \in Seq(Entries)
<1> DEFINE n == Len(cache)
           longer == Append(cache, entry)
<1>1. /\ cache \in Seq(Entries) /\ n \in Nat /\ DOMAIN cache = 1..n
      /\ n <= CacheLimit /\ CacheLimit \in Nat /\ CacheLimit > 0
      /\ \A i \in 1..n : cache[i].key # k
  BY ServiceConstants DEF ServiceTypeOK, Entries, At, LastUsedKept
<1>0. n = Len(cache) /\ cache' = Evict(longer)
  OBVIOUS
<1>2. /\ longer \in Seq(Entries) /\ Len(longer) = n + 1 /\ longer[n + 1] = entry
      /\ \A i \in 1..n : longer[i] = cache[i]
  BY <1>1
<1> HIDE DEF longer, n
<1>3. CASE n < CacheLimit
  <2> DEFINE from == [j \in 1..n |-> j]
  <2>1. cache' = longer
    <3>1. ~(n + 1 > CacheLimit)
      BY <1>1, <1>3
    <3>2. QED
      BY <1>0, <1>2, <3>1 DEF Evict
  <2>2. from \in [1..n -> 1..n] /\ \A j \in 1..n : from[j] = j
    OBVIOUS
  <2> HIDE DEF from
  <2>3. Len(cache') - 1 = n
    BY <1>1, <1>2, <2>1
  <2>4. /\ \A j \in 1..n : cache'[j] = cache[from[j]] /\ cache[from[j]].key # k
        /\ \A i, j \in 1..n : i < j => from[i] < from[j]
        /\ \A i \in DOMAIN cache : \E j \in 1..n : from[j] = i
    BY <1>1, <1>2, <2>1, <2>2
  <2>5. Len(cache') \in 1..CacheLimit /\ Len(cache') >= n /\ cache'[Len(cache')] = entry
    BY <1>1, <1>2, <1>3, <2>1
  <2>6. QED
    <3>1. Shifted(k, n, n)
      BY <2>2, <2>4, Zenon DEF Shifted
    <3>2. Len(cache) = n /\ Len(cache') - 1 = n
      BY <1>0, <1>1, <1>2, <2>1
    <3>3. QED
      BY <1>2, <2>1, <2>5, <3>1, <3>2 DEF GoesLast
<1>4. CASE n = CacheLimit
  <2> DEFINE from == [j \in 1..(n - 1) |-> j + 1]
  <2>1. cache' = SubSeq(longer, 2, n + 1)
    <3>1. (n + 1) > CacheLimit /\ (n + 1) - CacheLimit + 1 = 2
      BY <1>1, <1>4
    <3>2. QED
      BY <1>0, <1>2, <3>1 DEF Evict
  <2>2. /\ cache' \in Seq(Entries) /\ Len(cache') = n
        /\ \A j \in 1..n : cache'[j] = longer[j + 1]
    BY <1>1, <1>2, <2>1
  <2>3. from \in [1..(n - 1) -> 1..n] /\ \A j \in 1..(n - 1) : from[j] = j + 1
    BY <1>1
  <2> HIDE DEF from
  <2>4. \A j \in 1..(n - 1) : cache'[j] = cache[from[j]] /\ cache[from[j]].key # k
    <3>1. ASSUME NEW j \in 1..(n - 1) PROVE cache'[j] = cache[from[j]] /\ cache[from[j]].key # k
      <4>1. j \in 1..n /\ j + 1 \in 1..n /\ from[j] = j + 1
        BY <1>1, <2>3
      <4>2. cache'[j] = longer[j + 1] /\ longer[j + 1] = cache[j + 1]
        BY <1>2, <2>2, <4>1
      <4>3. QED
        BY <1>1, <4>1, <4>2
    <3>2. QED
      BY <3>1
  <2>8. \A i, j \in 1..(n - 1) : i < j => from[i] < from[j]
    BY <1>1, <2>3
  <2>5. ASSUME NEW i \in 1..n, i # 1 PROVE \E j \in 1..(n - 1) : from[j] = i
    <3>1. i - 1 \in 1..(n - 1) /\ from[i - 1] = i
      BY <1>1, <2>3, <2>5
    <3>2. QED
      BY <3>1
  <2>6. Len(cache') \in 1..CacheLimit /\ cache'[Len(cache')] = entry
    BY <1>1, <1>2, <1>4, <2>2
  <2>7. Shifted(k, n, n - 1)
    <3>1. (n - 1) + 1 = CacheLimit
      BY <1>1, <1>4
    <3>2. \A p \in DOMAIN cache : cache[p].key # k =>
            (\E j \in 1..(n - 1) : from[j] = p) \/ (p = 1 /\ (n - 1) + 1 = CacheLimit)
      BY <1>1, <2>5, <3>1
    <3>3. QED
      BY <2>3, <2>4, <2>8, <3>2, Zenon DEF Shifted
  <2>9. n = Len(cache) /\ n >= n
    BY <1>0, <1>1
  <2>10. QED
    BY <1>1, <2>2, <2>6, <2>7, <2>9 DEF GoesLast
<1>5. n < CacheLimit \/ n = CacheLimit
  BY <1>1
<1>6. QED
  BY <1>3, <1>4, <1>5

\* What one more use says about who was used after whom
LEMMA UsedOnce ==
    ASSUME ServiceTypeOK, NEW k \in Keys, Touch(k)
    PROVE  /\ used' \in Seq(Keys)
           /\ \A m : m # k => UsedAfter(k, m)'
           /\ \A a, m : m # k /\ UsedAfter(a, m) => UsedAfter(a, m)'
           /\ \A m \in {used[j] : j \in DOMAIN used} \cup {k} : \E j \in DOMAIN used' : used'[j] = m
           /\ {used'[j] : j \in DOMAIN used'} \subseteq {used[j] : j \in DOMAIN used} \cup {k}
<1> DEFINE n == Len(used)
<1>1. /\ used \in Seq(Keys) /\ n \in Nat /\ DOMAIN used = 1..n
      /\ used' \in Seq(Keys) /\ Len(used') = n + 1 /\ DOMAIN used' = 1..(n + 1)
      /\ used'[n + 1] = k /\ \A j \in 1..n : used'[j] = used[j]
  BY DEF ServiceTypeOK, Touch
<1>2. ASSUME NEW m, m # k PROVE UsedAfter(k, m)'
  <2>1. n + 1 \in DOMAIN used' /\ \A j \in DOMAIN used' : j >= n + 1 => used'[j] # m
    BY <1>1, <1>2
  <2>2. QED
    BY <1>1, <2>1 DEF UsedAfter
<1>3. ASSUME NEW a, NEW m, m # k, UsedAfter(a, m) PROVE UsedAfter(a, m)'
  <2>1. PICK i \in 1..n : used[i] = a /\ \A j \in 1..n : j >= i => used[j] # m
    BY <1>1, <1>3 DEF UsedAfter
  <2>2. i \in DOMAIN used' /\ used'[i] = a /\ \A j \in DOMAIN used' : j >= i => used'[j] # m
    BY <1>1, <1>3, <2>1
  <2>3. QED
    BY <2>2 DEF UsedAfter
<1>4. ASSUME NEW m \in {used[j] : j \in DOMAIN used} \cup {k}
      PROVE  \E j \in DOMAIN used' : used'[j] = m
  BY <1>1
<1>5. {used'[j] : j \in DOMAIN used'} \subseteq {used[j] : j \in DOMAIN used} \cup {k}
  BY <1>1
<1>6. QED
  BY <1>1, <1>2, <1>3, <1>4, <1>5

\* A key that goes last when it is used keeps the cache in the order of use.
LEMMA OrderKept ==
    ASSUME ServiceTypeOK, LastUsedKept, NEW k \in Keys, Touch(k), NEW entry \in Entries,
           entry.key = k, GoesLast(k, entry), cache' \in Seq(Entries)
    PROVE  LastUsedKept'
<1> DEFINE n == Len(cache)
           new == Len(cache')
<1>1. /\ n \in Nat /\ DOMAIN cache = 1..n /\ new \in Nat /\ DOMAIN cache' = 1..new
      /\ new \in 1..CacheLimit /\ new >= n /\ cache'[new].key = k
      /\ CacheLimit \in Nat /\ n <= CacheLimit
  BY ServiceConstants DEF ServiceTypeOK, GoesLast, LastUsedKept
<1>2. PICK from \in [1..(new - 1) -> 1..n] :
        /\ \A j \in 1..(new - 1) : cache'[j] = cache[from[j]] /\ cache[from[j]].key # k
        /\ \A i, j \in 1..(new - 1) : i < j => from[i] < from[j]
        /\ \A i \in DOMAIN cache : cache[i].key # k =>
             (\E j \in 1..(new - 1) : from[j] = i) \/ (i = 1 /\ (new - 1) + 1 = CacheLimit)
  BY DEF GoesLast, Shifted
<1>3. \A j \in 1..(new - 1) : from[j] \in DOMAIN cache /\ cache'[j].key = cache[from[j]].key
  BY <1>1, <1>2
<1> HIDE DEF n, new
<1>4. ASSUME NEW i \in DOMAIN cache', NEW j \in DOMAIN cache', i < j
      PROVE  UsedAfter(cache[j].key, cache[i].key)'
  <2>1. i \in 1..(new - 1) /\ cache'[i].key # k
    BY <1>1, <1>2, <1>4
  <2>2. CASE j = new
    <3>1. PICK m : m = cache'[i].key
      OBVIOUS
    <3>2. UsedAfter(k, m)'
      BY <2>1, <3>1, UsedOnce
    <3>3. cache'[j].key = k
      BY <1>1, <2>2
    <3>4. QED
      BY <3>1, <3>2, <3>3 DEF UsedAfter
  <2>3. CASE j # new
    <3>1. j \in 1..(new - 1)
      BY <1>1, <2>3
    <3>2. UsedAfter(cache[from[j]].key, cache[from[i]].key)
      BY <1>2, <1>3, <1>4, <2>1, <3>1 DEF LastUsedKept
    <3>3. PICK a, m : a = cache[from[j]].key /\ m = cache[from[i]].key
      OBVIOUS
    <3>4. a = cache'[j].key /\ m = cache'[i].key
      BY <1>3, <2>1, <3>1, <3>3
    <3>5. UsedAfter(a, m)'
      BY <2>1, <3>2, <3>3, <3>4, UsedOnce
    <3>6. QED
      BY <3>4, <3>5 DEF UsedAfter
  <2>4. QED
    BY <2>2, <2>3
<1>5. ASSUME NEW i \in DOMAIN cache' PROVE \E j \in DOMAIN used' : used'[j] = cache'[i].key
  <2>1. CASE i = new
    BY <1>1, <2>1, UsedOnce
  <2>2. CASE i # new
    <3>1. i \in 1..(new - 1)
      BY <1>1, <2>2
    <3>2. cache'[i].key \in {used[j] : j \in DOMAIN used}
      BY <1>3, <3>1 DEF LastUsedKept
    <3>3. QED
      BY <3>2, UsedOnce
  <2>3. QED
    BY <2>1, <2>2
<1>6. ASSUME NEW m \in {used'[j] : j \in DOMAIN used'}, At(m)' = {}
      PROVE  new = CacheLimit /\ \A i \in DOMAIN cache' : UsedAfter(cache[i].key, m)'
  <2>1. \A i \in DOMAIN cache' : cache'[i].key # m
    BY <1>6 DEF At
  <2>2. m # k
    <3>1. new \in DOMAIN cache'
      BY <1>1
    <3>2. QED
      BY <1>1, <2>1, <3>1
  <2>3. m \in {used[j] : j \in DOMAIN used}
    BY <2>2, UsedOnce
  <2>4. new = CacheLimit /\ \A j \in 1..(new - 1) : UsedAfter(cache[from[j]].key, m)
    <3>1. CASE At(m) = {}
      <4>1. n = CacheLimit /\ \A i \in DOMAIN cache : UsedAfter(cache[i].key, m)
        BY <2>3, <3>1 DEF LastUsedKept, n
      <4>2. QED
        BY <1>1, <1>3, <4>1
    <3>2. CASE At(m) # {}
      <4>1. PICK i \in DOMAIN cache : cache[i].key = m
        BY <3>2 DEF At
      <4>2. \A j \in 1..(new - 1) : from[j] # i
        BY <1>1, <1>3, <2>1, <4>1
      <4>3. i = 1 /\ new = CacheLimit
        BY <1>1, <1>2, <2>2, <4>1, <4>2
      <4>4. \A j \in 1..(new - 1) : i < from[j]
        BY <1>1, <1>3, <4>2, <4>3
      <4>5. QED
        BY <1>3, <4>1, <4>3, <4>4 DEF LastUsedKept
    <3>3. QED
      BY <3>1, <3>2
  <2>5. ASSUME NEW i \in DOMAIN cache' PROVE UsedAfter(cache[i].key, m)'
    <3>1. CASE i = new
      <4>1. UsedAfter(k, m)'
        BY <2>2, UsedOnce
      <4>2. cache'[i].key = k
        BY <1>1, <3>1
      <4>3. QED
        BY <4>1, <4>2 DEF UsedAfter
    <3>2. CASE i # new
      <4>1. i \in 1..(new - 1)
        BY <1>1, <3>2
      <4>2. PICK a : a = cache[from[i]].key
        OBVIOUS
      <4>3. a = cache'[i].key /\ UsedAfter(a, m)
        BY <1>3, <2>4, <4>1, <4>2
      <4>4. UsedAfter(a, m)'
        BY <2>2, <4>3, UsedOnce
      <4>5. QED
        BY <4>3, <4>4 DEF UsedAfter
    <3>3. QED
      BY <3>1, <3>2
  <2>6. QED
    BY <2>4, <2>5
<1>7. QED
  <2>1. Len(cache') <= CacheLimit
    BY <1>1 DEF new
  <2>2. \A m \in {used'[j] : j \in DOMAIN used'} : At(m)' = {} =>
          Len(cache') = CacheLimit /\ \A i \in DOMAIN cache' : UsedAfter(cache[i].key, m)'
    BY <1>6 DEF new
  <2>3. QED
    BY <1>4, <1>5, <2>1, <2>2 DEF LastUsedKept

\* Every entry has its response after a step, when the one that goes last has.
LEMMA BackedKept ==
    ASSUME ServiceTypeOK, \A i \in DOMAIN cache : Backed(cache[i]), given' = given,
           NEW k, NEW entry, Backed(entry), GoesLast(k, entry), cache' \in Seq(Entries)
    PROVE  \A i \in DOMAIN cache' : Backed(cache[i])'
<1>1. SUFFICES ASSUME NEW i \in DOMAIN cache' PROVE Backed(cache'[i])
  BY DEF Backed, Behind
<1>2. /\ DOMAIN cache' = 1..Len(cache') /\ Len(cache') \in Nat
      /\ DOMAIN cache = 1..Len(cache) /\ cache'[Len(cache')] = entry
  BY DEF ServiceTypeOK, GoesLast
<1>3. CASE i = Len(cache')
  BY <1>2, <1>3
<1>4. CASE i # Len(cache')
  <2>1. i \in 1..(Len(cache') - 1)
    BY <1>1, <1>2, <1>4
  <2>2. PICK p \in DOMAIN cache : cache'[i] = cache[p]
    BY <1>2, <2>1 DEF GoesLast, Shifted
  <2>3. QED
    BY <2>2
<1>5. QED
  BY <1>3, <1>4

\* A step that looks nothing up and stores nothing
LEMMA OrderStays ==
    ASSUME LastUsedKept, cache' = cache, used' = used
    PROVE  LastUsedKept'
<1>1. \A k : At(k)' = At(k)
  BY DEF At
<1>2. \A i, j \in DOMAIN cache' : i < j => UsedAfter(cache[j].key, cache[i].key)'
  <2>1. SUFFICES ASSUME NEW i \in DOMAIN cache', NEW j \in DOMAIN cache', i < j
                 PROVE  UsedAfter(cache[j].key, cache[i].key)'
    OBVIOUS
  <2>2. UsedAfter(cache[j].key, cache[i].key)
    BY <2>1 DEF LastUsedKept
  <2>3. QED
    BY <2>2 DEF UsedAfter
<1>3. ASSUME NEW k \in {used'[j] : j \in DOMAIN used'}, At(k)' = {}
      PROVE  /\ Len(cache') = CacheLimit
             /\ \A i \in DOMAIN cache' : UsedAfter(cache[i].key, k)'
  <2>1. At(k) = {} /\ k \in {used[j] : j \in DOMAIN used}
    BY <1>1, <1>3
  <2>2. Len(cache) = CacheLimit /\ \A i \in DOMAIN cache : UsedAfter(cache[i].key, k)
    BY <2>1 DEF LastUsedKept
  <2>3. QED
    BY <2>2 DEF UsedAfter
<1>4. /\ Len(cache') <= CacheLimit
      /\ \A i \in DOMAIN cache' : \E j \in DOMAIN used' : used'[j] = cache'[i].key
  BY DEF LastUsedKept
<1>5. QED
  BY <1>2, <1>3, <1>4 DEF LastUsedKept

LEMMA ServiceInitOK == ServiceInit => ServiceInv
<1>1. SUFFICES ASSUME ServiceInit PROVE ServiceInv
  OBVIOUS
<1>2. /\ now = 0 /\ cache = <<>> /\ used = <<>> /\ given = {} /\ 0 \in 0..MaxTime
      /\ \A s \in Searches : stage[s] = "idle"
  BY <1>1, ServiceConstants DEF ServiceInit
<1>3. ServiceTypeOK
  BY <1>1, <1>2 DEF ServiceInit, ServiceTypeOK, Values
<1>4. DOMAIN cache = {} /\ DOMAIN used = {} /\ Len(cache) = 0
  BY <1>2
<1>5. LastUsedKept
  BY <1>4, ServiceConstants DEF LastUsedKept
<1>6. \A s \in Searches : InTime(s)
  BY <1>2 DEF InTime
<1>7. QED
  BY <1>3, <1>4, <1>5, <1>6 DEF ServiceInv

\* A search that moves on and leaves the cache and what it has found alone
LEMMA MovingKeeps ==
    ASSUME ServiceInv, NEW s \in Searches,
           NEW where \in {"empty", "unavailable", "asking"}, Goto(s, where),
           UNCHANGED <<now, cache, key, result, given, used>>,
           IF where = "asking" THEN asked' = [asked EXCEPT ![s] = now] ELSE asked' = asked
    PROVE  ServiceInv'
<1>1. ServiceTypeOK'
  <2>1. asked' \in [Searches -> 0..MaxTime]
    BY DEF ServiceInv, ServiceTypeOK
  <2>2. QED
    BY <2>1 DEF ServiceInv, ServiceTypeOK, Goto
<1>2. \A i \in DOMAIN cache' : Backed(cache[i])'
  BY DEF ServiceInv, Backed, Behind
<1>3. LastUsedKept'
  BY OrderStays DEF ServiceInv
<1>4. ASSUME NEW q \in Searches PROVE InTime(q)'
  <2>1. InTime(q) /\ now \in Nat /\ Deadline \in Nat
    BY ServiceConstants DEF ServiceInv, ServiceTypeOK
  <2>2. CASE q = s
    BY <2>1, <2>2 DEF ServiceInv, ServiceTypeOK, InTime, Goto
  <2>3. CASE q # s
    <3>1. stage'[q] = stage[q] /\ asked'[q] = asked[q]
      BY <2>3 DEF ServiceInv, ServiceTypeOK, Goto
    <3>2. QED
      BY <2>1, <3>1 DEF InTime, Behind
  <2>4. QED
    BY <2>2, <2>3
<1>5. QED
  BY <1>1, <1>2, <1>3, <1>4 DEF ServiceInv

\* A search that answers, with the entry of its key going last
LEMMA AnsweringKeeps ==
    ASSUME ServiceInv, NEW s \in Searches, Goto(s, "answered"), Touch(key[s]),
           UNCHANGED <<now, key, asked, given>>,
           NEW entry \in Entries, entry.key = key[s], Backed(entry),
           GoesLast(key[s], entry), cache' \in Seq(Entries),
           result' \in [Searches -> Values], \A q \in Searches : q # s => result'[q] = result[q]
    PROVE  ServiceInv'
<1>1. ServiceTypeOK /\ LastUsedKept /\ key[s] \in Keys /\ \A i \in DOMAIN cache : Backed(cache[i])
  BY DEF ServiceInv, ServiceTypeOK
<1>2. ServiceTypeOK'
  <2>1. used' \in Seq(Keys)
    BY <1>1, UsedOnce
  <2>2. QED
    BY <1>1, <2>1 DEF ServiceTypeOK, Goto, Entries
<1>3. \A i \in DOMAIN cache' : Backed(cache[i])'
  BY <1>1, BackedKept
<1>4. LastUsedKept'
  BY <1>1, OrderKept
<1>5. ASSUME NEW q \in Searches PROVE InTime(q)'
  <2>1. CASE q = s
    BY <1>1, <2>1 DEF ServiceTypeOK, InTime, Goto
  <2>2. CASE q # s
    <3>1. stage'[q] = stage[q] /\ InTime(q)
      BY <1>1, <2>2 DEF ServiceInv, ServiceTypeOK, Goto
    <3>2. QED
      BY <2>2, <3>1 DEF InTime, Behind
  <2>3. QED
    BY <2>1, <2>2
<1>6. QED
  BY <1>2, <1>3, <1>4, <1>5 DEF ServiceInv

LEMMA HitKeeps == ASSUME ServiceInv, NEW s \in Searches, Hit(s) PROVE ServiceInv'
<1>1. ServiceTypeOK /\ LastUsedKept /\ DOMAIN cache = 1..Len(cache)
  BY DEF ServiceInv, ServiceTypeOK
<1>2. PICK i \in At(key[s]) : Hold(s, cache[i].value) /\ cache' = MoveToEnd(i)
  BY DEF Hit
<1>3. i \in DOMAIN cache /\ cache[i].key = key[s]
  BY DEF At
<1>4. PICK entry : entry = cache[i]
  OBVIOUS
<1>5. entry \in Entries /\ entry.key = key[s] /\ Backed(entry)
  <2>1. cache[i] \in Entries
    BY <1>1, <1>3, EntryType
  <2>2. Backed(cache[i])
    BY <1>3 DEF ServiceInv
  <2>3. QED
    BY <1>3, <1>4, <2>1, <2>2
<1>6. cache' = Append(RemoveAt(cache, i), entry)
  BY <1>2, <1>4 DEF MoveToEnd
<1>7. GoesLast(key[s], entry) /\ cache' \in Seq(Entries)
  BY <1>1, <1>5, <1>6, MovingGoesLast
<1>8. /\ result' \in [Searches -> Values]
      /\ \A q \in Searches : q # s => result'[q] = result[q]
  BY <1>1, <1>2, <1>4, <1>5 DEF Hold, ServiceTypeOK, Entries
<1>9. Goto(s, "answered") /\ Touch(key[s]) /\ UNCHANGED <<now, key, asked, given>>
  BY DEF Hit
<1>10. QED
  BY <1>5, <1>7, <1>8, <1>9, AnsweringKeeps

LEMMA StoreKeeps == ASSUME ServiceInv, NEW s \in Searches, Store(s) PROVE ServiceInv'
<1>1. ServiceTypeOK /\ LastUsedKept /\ key[s] \in Keys /\ now \in 0..MaxTime
      /\ asked[s] \in 0..MaxTime
  BY DEF ServiceInv, ServiceTypeOK
<1>2. PICK entry : entry = [key |-> key[s], at |-> now, value |-> result[s]]
  OBVIOUS
<1>3. entry \in Entries /\ entry.key = key[s]
  BY <1>1, <1>2 DEF Entries, ServiceTypeOK
<1>4. Backed(entry)
  <2>1. /\ asked[s] <= now /\ now <= asked[s] + Deadline
        /\ \E g \in given : Behind(key[s], result[s], g) /\ asked[s] <= g.at
    BY DEF Store, ServiceInv, InTime
  <2>2. PICK g \in given : Behind(key[s], result[s], g) /\ asked[s] <= g.at
    BY <2>1
  <2>3. g.at \in 0..MaxTime
    BY <1>1 DEF ServiceTypeOK
  <2>4. now <= g.at + Deadline
    BY <1>1, <2>1, <2>2, <2>3, ServiceConstants
  <2>5. QED
    BY <1>2, <2>2, <2>4 DEF Backed
<1>5. cache' = Evict(PutLast(key[s], result[s]))
  BY DEF Store
<1>6. GoesLast(key[s], entry) /\ cache' \in Seq(Entries)
  <2>1. CASE At(key[s]) = {}
    <3>1. cache' = Evict(Append(cache, entry))
      BY <1>2, <1>5, <2>1 DEF PutLast
    <3>2. QED
      BY <1>1, <1>3, <2>1, <3>1, AppendingGoesLast
  <2>2. CASE At(key[s]) # {}
    <3>1. PICK i \in At(key[s]) : i = CHOOSE j \in At(key[s]) : TRUE
      BY <2>2
    <3>2. PutLast(key[s], result[s]) = Append(RemoveAt(cache, i), entry)
      BY <1>2, <2>2, <3>1 DEF PutLast
    <3>3. cache' = Append(RemoveAt(cache, i), entry)
      <4>1. PICK moved : moved = Moved(cache, i, entry)
        OBVIOUS
      <4>2. i \in 1..Len(cache) /\ cache \in Seq(Entries)
        BY <1>1 DEF At, ServiceTypeOK, Entries
      <4>3. Len(moved) = Len(cache)
        BY <1>3, <4>1, <4>2, MovedToEnd
      <4>4. ~(Len(moved) > CacheLimit)
        BY <1>1, <4>2, <4>3, ServiceConstants DEF LastUsedKept
      <4>5. cache' = Evict(moved)
        BY <1>5, <3>2, <4>1 DEF Moved
      <4>6. QED
        BY <4>1, <4>4, <4>5 DEF Evict, Moved
    <3>4. QED
      BY <1>1, <1>3, <3>3, MovingGoesLast
  <2>3. QED
    BY <2>1, <2>2
<1>7. result' = result /\ result \in [Searches -> Values]
  BY <1>1 DEF Store, ServiceTypeOK
<1>8. Goto(s, "answered") /\ Touch(key[s]) /\ UNCHANGED <<now, key, asked, given>>
  BY DEF Store
<1>9. QED
  BY <1>3, <1>4, <1>6, <1>7, <1>8, AnsweringKeeps

LEMMA RetrieveKeeps == ASSUME ServiceInv, NEW s \in Searches, Retrieve(s) PROVE ServiceInv'
<1>1. ServiceTypeOK /\ key[s] \in Keys /\ now \in 0..MaxTime /\ stage[s] = "asking"
  BY DEF ServiceInv, ServiceTypeOK, Retrieve
<1>2. PICK hits \in Responses :
        /\ given' = given \cup {[key |-> key[s], at |-> now, hits |-> hits]}
        /\ IF Valid(hits, key[s].edition) THEN Hold(s, Mapped(hits)) /\ Goto(s, "storing")
           ELSE Goto(s, "unavailable") /\ UNCHANGED result
  BY DEF Retrieve
<1>3. UNCHANGED <<now, cache, key, asked, used>> /\ given \subseteq given'
  BY <1>2 DEF Retrieve
<1>4. ServiceTypeOK'
  <2>1. Mapped(hits) \in Values
    BY DEF Values
  <2>2. /\ result' \in [Searches -> Values]
        /\ stage' \in [Searches -> {"idle", "asking", "storing", "empty", "unavailable",
                                    "answered"}]
    BY <1>1, <1>2, <2>1 DEF ServiceTypeOK, Hold, Goto
  <2>3. given' \subseteq [key : Keys, at : 0..MaxTime, hits : Responses]
    BY <1>1, <1>2 DEF ServiceTypeOK
  <2>4. QED
    BY <1>1, <1>3, <2>2, <2>3 DEF ServiceTypeOK
<1>5. \A i \in DOMAIN cache' : Backed(cache[i])'
  BY <1>3 DEF ServiceInv, Backed, Behind
<1>6. LastUsedKept'
  BY <1>3, OrderStays DEF ServiceInv
<1>7. ASSUME NEW q \in Searches PROVE InTime(q)'
  <2>1. InTime(q) /\ InTime(s)
    BY DEF ServiceInv
  <2>2. CASE q = s /\ Valid(hits, key[s].edition)
    <3>1. result'[s] = Mapped(hits) /\ stage'[s] = "storing"
      BY <1>1, <1>2, <2>2 DEF ServiceTypeOK, Hold, Goto
    <3>2. PICK g \in given' : g = [key |-> key[s], at |-> now, hits |-> hits]
      BY <1>2
    <3>3. asked[s] <= now /\ now <= asked[s] + Deadline
      BY <1>1, <2>1 DEF InTime
    <3>4. g.key = key[s] /\ g.hits = hits /\ g.at = now
      BY <3>2
    <3>5. QED
      BY <1>3, <2>2, <3>1, <3>2, <3>3, <3>4 DEF InTime, Behind
  <2>3. CASE q = s /\ ~Valid(hits, key[s].edition)
    BY <1>1, <1>2, <2>3 DEF ServiceTypeOK, Goto, InTime
  <2>4. CASE q # s
    <3>1. stage'[q] = stage[q] /\ result'[q] = result[q]
      BY <1>1, <1>2, <2>4 DEF ServiceTypeOK, Hold, Goto
    <3>2. QED
      BY <1>3, <2>1, <3>1 DEF InTime, Behind
  <2>5. QED
    BY <2>2, <2>3, <2>4
<1>8. QED
  BY <1>4, <1>5, <1>6, <1>7 DEF ServiceInv

LEMMA TickKeeps == ASSUME ServiceInv, Tick PROVE ServiceInv'
<1>1. now \in 0..MaxTime /\ now' = now + 1 /\ now' \in 0..MaxTime
      /\ UNCHANGED <<cache, stage, key, asked, result, given, used>>
  BY ServiceConstants DEF ServiceInv, ServiceTypeOK, Tick
<1>2. ServiceTypeOK'
  BY <1>1 DEF ServiceInv, ServiceTypeOK
<1>3. (\A i \in DOMAIN cache' : Backed(cache[i])') /\ LastUsedKept'
  <2>1. \A i \in DOMAIN cache' : Backed(cache[i])'
    BY <1>1 DEF ServiceInv, Backed, Behind
  <2>2. LastUsedKept'
    BY <1>1, OrderStays DEF ServiceInv
  <2>3. QED
    BY <2>1, <2>2
<1>4. ASSUME NEW q \in Searches PROVE InTime(q)'
  <2>1. InTime(q) /\ asked[q] \in 0..MaxTime
    BY DEF ServiceInv, ServiceTypeOK
  <2>2. stage[q] \in {"asking", "storing"} => now - asked[q] < Deadline
    BY DEF Tick
  <2>3. QED
    BY <1>1, <2>1, <2>2, ServiceConstants DEF InTime, Behind
<1>5. QED
  BY <1>2, <1>3, <1>4 DEF ServiceInv

LEMMA ServiceNextKeeps == ServiceInv /\ [ServiceNext]_serviceVars => ServiceInv'
<1>1. SUFFICES ASSUME ServiceInv, [ServiceNext]_serviceVars PROVE ServiceInv'
  OBVIOUS
<1>2. ASSUME NEW s \in Searches, Decline(s) \/ Miss(s) \/ Fail(s) PROVE ServiceInv'
  BY <1>1, <1>2, MovingKeeps DEF Decline, Miss, Fail
<1>3. CASE UNCHANGED serviceVars
  <2>1. ServiceTypeOK' /\ \A s \in Searches : InTime(s)'
    BY <1>1, <1>3 DEF serviceVars, ServiceInv, ServiceTypeOK, InTime, Behind
  <2>2. \A i \in DOMAIN cache' : Backed(cache[i])'
    BY <1>1, <1>3 DEF serviceVars, ServiceInv, Backed, Behind
  <2>3. LastUsedKept'
    BY <1>1, <1>3, OrderStays DEF serviceVars, ServiceInv
  <2>4. QED
    BY <2>1, <2>2, <2>3 DEF ServiceInv
<1>4. QED
  BY <1>1, <1>2, <1>3, HitKeeps, StoreKeeps, RetrieveKeeps, TickKeeps DEF ServiceNext

\* Every reachable state of the cache and its searches satisfies the inductive invariant.
THEOREM ServiceInvariance == ServiceSpec => []ServiceInv
  BY ServiceInitOK, ServiceNextKeeps, PTL DEF ServiceSpec

\* What validation makes of a valid response names packages of the catalog only, in the
\* edition asked for.
LEMMA MappedInCatalog ==
    ASSUME NEW hits, NEW edition, Valid(hits, edition),
           NEW j \in DOMAIN Mapped(hits).packages
    PROVE  /\ Mapped(hits).packages[j] \in Catalog
           /\ edition \in {AnyEdition, Mapped(hits).packages[j].edition}
<1>1. j \in Kept(hits) /\ Mapped(hits).packages[j] = Package(hits[j])
  BY DEF Mapped
<1>2. j \in DOMAIN hits /\ ~Omitted(hits[j]) /\ ~Breach(hits[j], edition)
  BY <1>1 DEF Kept, Valid
<1>3. Package(hits[j]) \in Catalog /\ Package(hits[j]).edition = hits[j].edition
  BY <1>2 DEF Omitted, Breach, Package
<1>4. QED
  BY <1>1, <1>2, <1>3 DEF Breach

\* However lookups and stores of several searches interleave, the cache holds the keys
\* used last in the order of their use, and under each what validation made of one response
\* to that key, with packages of the catalog in the edition asked for.
THEOREM CacheIsSound == ServiceSpec => []CacheSound
<1>1. ServiceInv => CacheSound
  <2>1. SUFFICES ASSUME ServiceInv PROVE CachedAnswersValid
    BY DEF ServiceInv, CacheSound
  <2>2. SUFFICES ASSUME NEW i \in DOMAIN cache
                 PROVE  \E g \in given :
                          /\ g.key = cache[i].key
                          /\ cache[i].value = Mapped(g.hits)
                          /\ \A j \in DOMAIN cache[i].value.packages :
                               /\ cache[i].value.packages[j] \in Catalog
                               /\ g.key.edition \in {AnyEdition, cache[i].value.packages[j].edition}
    BY DEF CachedAnswersValid
  <2>3. PICK g \in given : Behind(cache[i].key, cache[i].value, g)
    BY <2>1 DEF ServiceInv, Backed
  <2>4. QED
    BY <2>3, MappedInCatalog DEF Behind
<1>2. QED
  BY <1>1, ServiceInvariance, PTL

\* No search returns a response that the provider gave longer ago than the five minutes of
\* the cache and the deadline of the transport, whoever stored it.
THEOREM AnswersAreRecent == ServiceSpec => AnswersRecent
<1>1. ASSUME ServiceInv, ServiceNext, NEW s \in Searches, stage[s] # "answered",
             stage'[s] = "answered"
      PROVE  \E g \in given : /\ g.key = key[s] /\ Mapped(g.hits) = result'[s]
                              /\ now < g.at + TimeToLive + Deadline
  <2>1. ServiceTypeOK /\ now \in Nat /\ asked[s] \in Nat
        /\ TimeToLive \in Nat \ {0} /\ Deadline \in Nat
    BY <1>1, ServiceConstants DEF ServiceInv, ServiceTypeOK
  <2>2. Hit(s) \/ Store(s)
    <3>1. ASSUME NEW q \in Searches, Decline(q) \/ Miss(q) \/ Fail(q) \/ Retrieve(q) PROVE FALSE
      BY <1>1, <2>1, <3>1 DEF Decline, Miss, Fail, Retrieve, Goto, ServiceTypeOK
    <3>2. ASSUME NEW q \in Searches, Hit(q) \/ Store(q) PROVE q = s
      BY <1>1, <2>1, <3>2 DEF Hit, Store, Goto, ServiceTypeOK
    <3>3. ~Tick
      BY <1>1 DEF Tick
    <3>4. QED
      BY <1>1, <3>1, <3>2, <3>3 DEF ServiceNext
  <2>3. CASE Hit(s)
    <3>1. PICK i \in At(key[s]) : Fresh(cache[i]) /\ Hold(s, cache[i].value)
      BY <2>3 DEF Hit
    <3>2. i \in DOMAIN cache /\ cache[i].key = key[s] /\ cache[i].at \in Nat
          /\ result'[s] = cache[i].value
      <4>1. i \in DOMAIN cache /\ cache[i].key = key[s]
        BY <3>1 DEF At
      <4>2. cache[i] \in Entries /\ result \in [Searches -> Values]
        BY <2>1, <4>1, EntryType DEF ServiceTypeOK
      <4>3. QED
        BY <3>1, <4>1, <4>2 DEF Hold, Entries
    <3>3. PICK g \in given : /\ Behind(cache[i].key, cache[i].value, g)
                             /\ cache[i].at <= g.at + Deadline
      BY <1>1, <3>2 DEF ServiceInv, Backed
    <3>4. g.at \in Nat
      BY <2>1 DEF ServiceTypeOK
    <3>5. now < g.at + TimeToLive + Deadline
      BY <2>1, <3>1, <3>2, <3>3, <3>4 DEF Fresh
    <3>6. QED
      BY <3>2, <3>3, <3>5 DEF Behind
  <2>4. CASE Store(s)
    <3>1. /\ stage[s] = "storing" /\ result'[s] = result[s]
      BY <2>4 DEF Store
    <3>2. /\ now <= asked[s] + Deadline
          /\ \E g \in given : Behind(key[s], result[s], g) /\ asked[s] <= g.at
      BY <1>1, <3>1 DEF ServiceInv, InTime
    <3>3. PICK g \in given : Behind(key[s], result[s], g) /\ asked[s] <= g.at
      BY <3>2
    <3>4. g.at \in Nat
      BY <2>1 DEF ServiceTypeOK
    <3>5. now < g.at + TimeToLive + Deadline
      BY <2>1, <3>2, <3>3, <3>4
    <3>6. QED
      BY <3>1, <3>3, <3>5 DEF Behind
  <2>5. QED
    BY <2>2, <2>3, <2>4
<1>2. ServiceInv /\ [ServiceNext]_serviceVars =>
        [\A s \in Searches : stage[s] # "answered" /\ stage'[s] = "answered" =>
           \E g \in given : /\ g.key = key[s] /\ Mapped(g.hits) = result'[s]
                            /\ now < g.at + TimeToLive + Deadline]_serviceVars
  BY <1>1
<1>3. QED
  BY <1>2, ServiceInvariance, PTL DEF ServiceSpec, AnswersRecent
=============================================================================
