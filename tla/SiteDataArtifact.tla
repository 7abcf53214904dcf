--------------------------- MODULE SiteDataArtifact ---------------------------
(***************************************************************************)
(* generated_site_data_artifact.py: "pack" puts the generated files of one   *)
(* checkout into an archive, "restore" puts an archive's files into another, *)
(* all or none, and "verify-restored" looks whether they are still there.    *)
(*                                                                         *)
(* Somebody else may write the same files at any time, any call may raise an *)
(* error, the process may be interrupted (SIGINT) or killed at any point.    *)
(***************************************************************************)
EXTENDS Naturals, FiniteSets

CONSTANTS
    Count,      \* files of the ALLOWLIST, 3
    Contents,   \* what a file may hold
    Base,       \* what every file holds in the base commit
    Gone,       \* no file
    MaxEdits    \* bound: writes by others

ASSUME SiteDataConstants ==
    /\ Count \in Nat \ {0} /\ MaxEdits \in Nat
    /\ Base \in Contents /\ Gone \notin Contents

VARIABLES
    tree,       \* the checkout's files
    strays,     \* its untracked files
    archive,    \* the archive that was packed last
    proc,       \* the command that runs, or ran last
    killed,     \* history: a command was killed in this checkout
    edits       \* bound: writes by others so far

vars == <<tree, strays, archive, proc, killed, edits>>

Files == 1..Count
Trees == [Files -> Contents \cup {Gone}]
Payloads == [Files -> Contents]
NoArchive == <<>>
Commands == {"pack", "restore", "verify"}
Ended == {"idle", "done", "failed", "killed"}
Steps == Ended \cup {"state", "load", "again", "read", "stage", "unchanged", "before",
                     "replace", "mark", "verify", "finish", "final", "rollback"}
Temporaries == {"generated", "rollback"} \X Files
Foreign == <<"foreign", 0>>

\* "saw" are the snapshots' bytes, "same" the files whose fingerprint is still the
\* snapshot's.  History: "ours" are the files that hold what this command has put there,
\* "moment" is the tree as the command found it or, after its reads, as they left it;
\* "edited" and "interrupted" tell what has happened since it began, "committed" that
\* _restore_payloads has returned, "torn" that its rollback has failed.
Process ==
    [cmd : Commands, step : Steps, i : Files, saw : Payloads, same : SUBSET Files,
     replaced : BOOLEAN, ours : SUBSET Files, moment : Trees,
     edited : BOOLEAN, interrupted : BOOLEAN, committed : BOOLEAN, torn : BOOLEAN]

TypeOK ==
    /\ tree \in Trees
    /\ strays \subseteq Temporaries \cup {Foreign}
    /\ archive \in Payloads \cup {NoArchive}
    /\ proc \in Process
    /\ killed \in BOOLEAN /\ edits \in 0..MaxEdits

Clean == [f \in Files |-> Base]

New(cmd, step) ==
    [cmd |-> cmd, step |-> step, i |-> 1, saw |-> Clean, same |-> {}, replaced |-> FALSE,
     ours |-> {}, moment |-> tree, edited |-> FALSE, interrupted |-> FALSE,
     committed |-> FALSE, torn |-> FALSE]

Init ==
    /\ tree = Clean /\ strays = {} /\ archive = NoArchive
    /\ proc = New("pack", "idle") /\ killed = FALSE /\ edits = 0

-----------------------------------------------------------------------------
At(step) == proc.step = step
Is(cmd) == proc.cmd = cmd
Running == proc.step \notin Ended

Goto(p, step) == [p EXCEPT !.step = step, !.i = 1]

\* for relative in ALLOWLIST
Loop(p, next) == IF p.i < Count THEN [p EXCEPT !.i = @ + 1] ELSE Goto(p, next)

\* _assert_repository_state
StateHolds(allowChanges) ==
    /\ strays = {} /\ \A f \in Files : tree[f] # Gone
    /\ allowChanges \/ tree = Clean

\* Wrong variant: the files are not looked at again.
SeenOnce(f) == TRUE

\* _assert_snapshot_unchanged
Unchanged(f) == f \in proc.same

\* The bytes of a file that can be read
Holds(f, data) == tree[f] # Gone /\ tree[f] = data

-----------------------------------------------------------------------------
\* A command begins in the checkout as it is.
Begin ==
    /\ ~Running
    /\ \E cmd \in Commands : proc' = New(cmd, "state")
    /\ UNCHANGED <<tree, strays, archive, killed, edits>>

CheckState ==
    /\ At("state") /\ StateHolds(~Is("restore"))
    /\ proc' = Goto(proc, IF Is("pack") THEN "read" ELSE "load")
    /\ UNCHANGED <<tree, strays, archive, killed, edits>>

Load ==
    /\ At("load") /\ archive # NoArchive
    /\ proc' = Goto(proc, IF Is("restore") THEN "again" ELSE "read")
    /\ UNCHANGED <<tree, strays, archive, killed, edits>>

CheckAgain ==
    /\ At("again") /\ StateHolds(FALSE)
    /\ proc' = Goto(proc, "read")
    /\ UNCHANGED <<tree, strays, archive, killed, edits>>

\* _read_regular_file; verify-restored compares the bytes at once.
Read ==
    LET p == [proc EXCEPT !.saw[proc.i] = tree[proc.i], !.same = @ \cup {proc.i},
                          !.moment = IF Is("restore") THEN @ ELSE tree]
    IN /\ At("read") /\ tree[proc.i] # Gone
       /\ Is("verify") => tree[proc.i] = archive[proc.i]
       /\ proc' = Loop(p, IF Is("restore") THEN "stage" ELSE "unchanged")
       /\ UNCHANGED <<tree, strays, archive, killed, edits>>

\* _stage_payloads
Stage ==
    /\ At("stage")
    /\ strays' = strays \cup {<<"generated", proc.i>>}
    /\ proc' = Loop(proc, "unchanged")
    /\ UNCHANGED <<tree, archive, killed, edits>>

CheckUnchanged ==
    /\ At("unchanged") /\ Unchanged(proc.i)
    /\ proc' = Loop(proc, IF Is("restore") THEN "before" ELSE "finish")
    /\ UNCHANGED <<tree, strays, archive, killed, edits>>

\* The files replaced so far hold the payload; this one is still the original.
CheckBefore ==
    /\ At("before") /\ Unchanged(proc.i)
    /\ \A f \in 1..(proc.i - 1) : Holds(f, archive[f])
    /\ proc' = [proc EXCEPT !.step = "replace"]
    /\ UNCHANGED <<tree, strays, archive, killed, edits>>

\* os.replace
Replace ==
    /\ At("replace")
    /\ tree' = [tree EXCEPT ![proc.i] = archive[proc.i]]
    /\ strays' = strays \ {<<"generated", proc.i>>}
    /\ proc' = [proc EXCEPT !.step = "mark", !.ours = @ \cup {proc.i}, !.same = @ \ {proc.i}]
    /\ UNCHANGED <<archive, killed, edits>>

\* Wrong variant: the flag is set when all files are replaced.
MarkAtEnd(p) == [p EXCEPT !.replaced = @ \/ p.i = Count]

Marked(p) == [p EXCEPT !.replaced = TRUE]

\* replaced = True, and on to the next file
Mark ==
    /\ At("mark")
    /\ proc' = IF proc.i < Count THEN [Marked(proc) EXCEPT !.step = "before", !.i = @ + 1]
               ELSE Goto(Marked(proc), "verify")
    /\ UNCHANGED <<tree, strays, archive, killed, edits>>

Unlinked == {s \in strays : s[1] # "generated"}

Verify ==
    /\ At("verify") /\ Holds(proc.i, archive[proc.i])
    /\ proc' = [Loop(proc, "finish") EXCEPT !.committed = proc.i = Count]
    /\ strays' = IF proc.i = Count THEN Unlinked ELSE strays
    /\ UNCHANGED <<tree, archive, killed, edits>>

Finish ==
    /\ At("finish") /\ StateHolds(TRUE)
    /\ proc' = Goto(proc, IF Is("restore") THEN "final" ELSE "done")
    /\ archive' = IF Is("pack") THEN proc.saw ELSE archive
    /\ UNCHANGED <<tree, strays, killed, edits>>

Final ==
    /\ At("final") /\ Holds(proc.i, archive[proc.i])
    /\ proc' = Loop(proc, "done")
    /\ UNCHANGED <<tree, strays, archive, killed, edits>>

\* _rollback writes every file's snapshot, replaced or not.
Rollback ==
    /\ At("rollback")
    /\ tree' = [tree EXCEPT ![proc.i] = proc.saw[proc.i]]
    /\ proc' = Loop([proc EXCEPT !.ours = @ \ {proc.i}, !.same = @ \ {proc.i}], "failed")
    /\ strays' = IF proc.i = Count THEN Unlinked ELSE strays
    /\ UNCHANGED <<archive, killed, edits>>

\* An error or an interrupt ends the command, after the rollback if a file is replaced.
\* Between os.replace and its flag only an interrupt can strike.
Raise(interrupt) ==
    /\ Running
    /\ At("mark") => interrupt
    /\ LET p == [proc EXCEPT !.interrupted = @ \/ interrupt, !.torn = @ \/ At("rollback")] IN
         IF proc.step \in {"before", "replace", "mark", "verify"} /\ proc.replaced
         THEN proc' = Goto(p, "rollback") /\ UNCHANGED strays
         ELSE proc' = Goto(p, "failed") /\ strays' = Unlinked
    /\ UNCHANGED <<tree, archive, killed, edits>>

\* A killed process leaves all as it is, the temporary file it is writing too.
Kill ==
    /\ Running
    /\ proc' = Goto(proc, "killed") /\ killed' = TRUE
    /\ \/ UNCHANGED strays
       \/ At("stage") /\ strays' = strays \cup {<<"generated", proc.i>>}
       \/ At("rollback") /\ strays' = strays \cup {<<"rollback", proc.i>>}
    /\ UNCHANGED <<tree, archive, edits>>

Command ==
    \/ CheckState \/ Load \/ CheckAgain \/ Read \/ Stage \/ CheckUnchanged \/ CheckBefore
    \/ Replace \/ Mark \/ Verify \/ Finish \/ Final \/ Rollback
    \/ \E interrupt \in BOOLEAN : Raise(interrupt)

-----------------------------------------------------------------------------
\* Somebody else writes or removes a file, or makes one; the fingerprint of a written file
\* is another one.
Edit ==
    /\ edits < MaxEdits /\ edits' = edits + 1
    /\ \/ \E f \in Files, data \in Contents \cup {Gone} :
            /\ tree' = [tree EXCEPT ![f] = data]
            /\ proc' = [proc EXCEPT !.same = @ \ {f}, !.ours = @ \ {f}, !.edited = TRUE]
            /\ UNCHANGED strays
       \/ /\ strays' = strays \cup {Foreign}
          /\ proc' = [proc EXCEPT !.edited = TRUE]
          /\ UNCHANGED tree
    /\ UNCHANGED <<archive, killed>>

\* A new checkout, and the preprocessing that generates the files in one
Checkout ==
    /\ ~Running
    /\ tree' = Clean /\ strays' = {} /\ killed' = FALSE
    /\ proc' = [New("pack", "idle") EXCEPT !.moment = Clean]
    /\ UNCHANGED <<archive, edits>>

Generate ==
    /\ ~Running
    /\ tree' \in Payloads
    /\ proc' = [New("pack", "idle") EXCEPT !.moment = Clean]
    /\ UNCHANGED <<strays, archive, killed, edits>>

Next == Begin \/ Command \/ Kill \/ Edit \/ Checkout \/ Generate

Spec == Init /\ [][Next]_vars

-----------------------------------------------------------------------------
\* What a command vouches for was in the checkout together at one moment, whoever writes
\* the files while they are read one after the other: what is packed was, and a verification
\* that passes has found exactly the archive's files so, whatever happened to the restore
\* before it: killed half-way, interrupted, or overwritten by others
\* (generated_site_data_artifact.py:435-450, 808-821).
ArchiveExact == ~Is("restore") /\ At("done") => archive = proc.moment

\* A restore is all or nothing.  When it ends well and nobody has meddled, the archive's
\* files are there.  When it fails before all of them are in place and verified, nothing of
\* them is left and without meddling the checkout is as it was, unless the rollback itself
\* fails; an interrupt between the first os.replace and its flag leaves the first file.  The
\* checks after that fail without a rollback and leave all of them.  No temporary file stays
\* behind, unless a command was killed there (generated_site_data_artifact.py:738-794).
AllOrNothing ==
    Is("restore") =>
        /\ At("done") /\ ~proc.edited => tree = archive
        /\ At("failed") /\ proc.committed /\ ~proc.edited => tree = archive
        /\ At("failed") /\ ~proc.committed /\ ~proc.torn =>
             /\ proc.ours \subseteq (IF proc.interrupted THEN {1} ELSE {})
             /\ ~proc.edited /\ ~proc.interrupted => tree = proc.moment
        /\ ~Running /\ ~killed => strays \cap Temporaries = {}

-----------------------------------------------------------------------------
\* The promise.  While a restore is replacing or putting back files and nobody meddles, the
\* checkout counts as it was found.  Broken off by force: killed, interrupted between the
\* first os.replace and its flag, or failing to roll back.
Replaces == Is("restore") /\ proc.step \in {"before", "replace", "mark", "verify", "rollback"}
Broken ==
    \/ At("killed")
    \/ At("failed") /\ (proc.torn \/ (~proc.committed /\ proc.interrupted /\ proc.ours = {1}))

Visible == IF Replaces /\ ~proc.edited THEN proc.moment ELSE tree
Spoilt == proc.edited \/ Broken
Job == IF Running THEN IF proc.committed THEN "restored" ELSE proc.cmd
       ELSE IF At("killed") THEN "failed" ELSE proc.step

Transfer == INSTANCE FileTransfer WITH
    Paths <- Files, Required <- Files, None <- NoArchive, files <- Visible,
    stored <- archive, seen <- proc.moment, job <- Job, spoilt <- Spoilt

\* The commands take files from one checkout to another as FileTransfer promises: nobody who
\* leaves them alone ever sees files of two archives, or of none
\* (generated_site_data_artifact.py:435-464, 738-821).
TransferRefined == Transfer!TransferSpec
=============================================================================
