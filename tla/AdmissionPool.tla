----------------------------- MODULE AdmissionPool -----------------------------
(***************************************************************************)
(* What an admission counter promises: never more than Limit admitted calls,*)
(* none after the pool was closed, and the resource they share is given up  *)
(* when the pool is closed and the last admitted call has left, not before. *)
(***************************************************************************)
EXTENDS Naturals, FiniteSets

CONSTANTS
    Calls,      \* everything that may ask for admission, once each
    Limit       \* how many may be admitted at once

VARIABLES
    held,       \* the calls that hold a slot
    closed,     \* no more admissions
    resource    \* what admitted calls use: not made yet, open, or closed

poolVars == <<held, closed, resource>>

\* Given up when nobody may use it any more
Left(stillHeld, isClosed) ==
    IF isClosed /\ stillHeld = {} /\ resource = "open" THEN "closed" ELSE resource

PoolInit == held = {} /\ closed = FALSE /\ resource = "none"

Admit(c) ==
    /\ ~closed /\ c \notin held /\ Cardinality(held) < Limit
    /\ held' = held \cup {c}
    /\ UNCHANGED <<closed, resource>>

Open ==
    /\ held # {} /\ resource = "none"
    /\ resource' = "open"
    /\ UNCHANGED <<held, closed>>

Release(c) ==
    /\ c \in held
    /\ held' = held \ {c}
    /\ resource' = Left(held', closed)
    /\ UNCHANGED closed

Close ==
    /\ ~closed
    /\ closed' = TRUE
    /\ resource' = Left(held, TRUE)
    /\ UNCHANGED held

PoolNext ==
    \/ \E c \in Calls : Admit(c) \/ Release(c)
    \/ Open \/ Close

PoolSpec == PoolInit /\ [][PoolNext]_poolVars

\* Whoever was admitted leaves in the end.
FairPoolSpec == PoolSpec /\ \A c \in Calls : WF_poolVars(Release(c))
=============================================================================
