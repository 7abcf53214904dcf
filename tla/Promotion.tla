------------------------------ MODULE Promotion ------------------------------
(***************************************************************************)
(* promote_package_results.py: every package's row of the next publication   *)
(* is its candidate, if that is valid, or else the row published before, if  *)
(* that is still valid; one package with neither blocks all.  The rows are   *)
(* made in a temporary directory, then moved into place with their index.    *)
(*                                                                         *)
(* A row is a record: the package whose job it names, the run (a number) and *)
(* the batch of that job, the outcome it claims, and its form: "strict" has  *)
(* all that a new row must have, "compat" what suffices for an old one (an   *)
(* older contract), "broken" is malformed or contradicts itself.             *)
(***************************************************************************)
EXTENDS Naturals, FiniteSets, Functions

CONSTANTS
    Packages,   \* the package slugs
    Batches,    \* the batch workflows
    NoFile      \* a file or a directory that is not there

VARIABLES
    staged,     \* candidate and previous rows with their trusted registrations
    stage,      \* what promote has in the staging directory
    promote     \* where it is

promotionVars == <<staged, stage, promote>>

Forms == {"strict", "compat", "broken"}
Outcomes == {"success", "failure"}
Conclusions == Outcomes \cup {"cancelled"}
Rows == [job : Packages, run : Nat, batch : Batches, status : Outcomes, form : Forms,
         stamped : BOOLEAN]
Registrations == [run : Nat, batch : Batches, conclusion : Conclusions]

\* Functions from some of the packages
PartFrom(S) == UNION {[D -> S] : D \in SUBSET Packages}
NoRows == <<>>
NothingStaged == [cand |-> NoRows, prev |-> NoRows, regs |-> NoRows, prevregs |-> NoRows,
                  blocked |-> {}]

IsPart(f, S) == DOMAIN f \subseteq Packages /\ \A p \in DOMAIN f : f[p] \in S
IsFile(f) == f = NoFile \/ IsPart(f, Rows)

PromotionTypeOK ==
    /\ IsPart(staged.cand, Rows) /\ IsPart(staged.prev, Rows)
    /\ IsPart(staged.regs, Registrations) /\ IsPart(staged.prevregs, Registrations)
    /\ staged.blocked \subseteq Packages
    /\ IsFile(stage.pub) /\ IsFile(stage.tmp) /\ IsFile(stage.idx) /\ IsFile(stage.tmpidx)
    /\ stage.report \in {"none", "published", "blocked"}
    /\ promote \in {"idle", "decide", "fill", "index", "rename", "replace", "report",
                    "done", "blocked", "failed"}
    /\ promote \in {"decide", "fill", "index", "rename"} =>
         stage.pub = NoFile /\ stage.idx = NoFile

EmptyStage == [pub |-> NoFile, tmp |-> NoFile, idx |-> NoFile, tmpidx |-> NoFile,
               report |-> "none"]

PromotionInit == staged = NothingStaged /\ stage = EmptyStage /\ promote = "idle"

-----------------------------------------------------------------------------
\* Wrong variants: the run, or the outcome, is not compared.
AnyRun(row, p, reg) == row.job = p /\ row.batch = reg.batch
AnyOutcome(row, reg) == TRUE

\* The row names the registered job ...
Identified(row, p, reg) == row.job = p /\ row.run = reg.run /\ row.batch = reg.batch

\* ... and says what became of it.
Conclusive(row, reg) == row.status = reg.conclusion

\* validate_persisted_result.  A candidate is held to the strict contract, a previous row to
\* the policy of the run, which is "compatibility".
Valid(row, p, reg, role) ==
    /\ row.form \in (IF role = "candidate" THEN {"strict"} ELSE {"strict", "compat"})
    /\ Identified(row, p, reg) /\ Conclusive(row, reg)
    /\ row.stamped <=> role = "previous"

\* The registrations cover the staged rows exactly.
Covered ==
    /\ DOMAIN staged.regs = DOMAIN staged.cand \cup DOMAIN staged.prev
    /\ DOMAIN staged.prevregs \subseteq DOMAIN staged.prev

Promotable ==
    {p \in DOMAIN staged.cand :
        Valid(staged.cand[p], p, staged.regs[p], "candidate") /\ p \notin staged.blocked}

\* retain_previous, for a refused candidate and for a row without one
Retainable ==
    {p \in DOMAIN staged.prev \ Promotable :
        p \in DOMAIN staged.prevregs
          /\ Valid(staged.prev[p], p, staged.prevregs[p], "previous")}

Blocked == (DOMAIN staged.cand \cup DOMAIN staged.prev) \ (Promotable \cup Retainable)

\* Wrong variant: promoted rows are not marked as published.
Unstamped(row) == row

Stamped(row) == [row EXCEPT !.stamped = TRUE]

\* Wrong variant: retained rows are not copied.
PromotedAlone == [p \in Promotable |-> Stamped(staged.cand[p])]

\* The rows of the next publication
Chosen ==
    [p \in Promotable \cup Retainable |->
        IF p \in Promotable THEN Stamped(staged.cand[p]) ELSE staged.prev[p]]

-----------------------------------------------------------------------------
\* What an earlier call left is removed, but for its report.
Cleared(s) == [EmptyStage EXCEPT !.report = s.report]

Start ==
    /\ promote \in {"idle", "failed", "blocked", "done"}
    /\ stage' = Cleared(stage) /\ promote' = "decide"
    /\ UNCHANGED staged

Decide ==
    /\ promote = "decide"
    /\ IF ~Covered THEN promote' = "failed" /\ UNCHANGED stage
       ELSE IF Blocked = {} THEN promote' = "fill" /\ stage' = [stage EXCEPT !.tmp = NoRows]
       ELSE promote' = "blocked" /\ stage' = [stage EXCEPT !.report = "blocked"]
    /\ UNCHANGED staged

\* Rows are written one by one into the temporary directory.
Fill ==
    /\ promote = "fill"
    /\ \/ \E p \in DOMAIN Chosen \ DOMAIN stage.tmp :
            stage' = [stage EXCEPT !.tmp = Restrict(Chosen, DOMAIN @ \cup {p})]
            /\ UNCHANGED promote
       \/ /\ DOMAIN stage.tmp = DOMAIN Chosen /\ promote' = "index" /\ UNCHANGED stage
    /\ UNCHANGED staged

WriteIndex ==
    /\ promote = "index"
    /\ stage' = [stage EXCEPT !.tmpidx = stage.tmp] /\ promote' = "rename"
    /\ UNCHANGED staged

\* Wrong variant: the index is moved first.
IndexFirst(s) == [s EXCEPT !.idx = s.tmpidx, !.tmpidx = NoFile]

RowsFirst(s) == [s EXCEPT !.pub = s.tmp, !.tmp = NoFile]

Rename ==
    /\ promote = "rename"
    /\ stage' = RowsFirst(stage) /\ promote' = "replace"
    /\ UNCHANGED staged

ReplaceIndex ==
    /\ promote = "replace"
    /\ stage' = [stage EXCEPT !.idx = stage.tmpidx, !.tmpidx = NoFile] /\ promote' = "report"
    /\ UNCHANGED staged

WriteReport ==
    /\ promote = "report"
    /\ stage' = [stage EXCEPT !.report = "published"] /\ promote' = "done"
    /\ UNCHANGED staged

\* An error or a kill between any two steps
Crash ==
    /\ promote \in {"decide", "fill", "index", "rename", "replace", "report"}
    /\ promote' = "failed"
    /\ UNCHANGED <<staged, stage>>

PromotionStep ==
    Start \/ Decide \/ Fill \/ WriteIndex \/ Rename \/ ReplaceIndex \/ WriteReport \/ Crash

-----------------------------------------------------------------------------
\* Wherever promote stopped, and however often it is called again, an index lies beside the
\* directory it lists, and neither lies there after a blocked promotion
\* (promote_package_results.py:827-831, 966-992).
IndexListsRows ==
    /\ stage.idx # NoFile => stage.pub = stage.idx
    /\ promote = "blocked" => stage.pub = NoFile /\ stage.idx = NoFile
=============================================================================
