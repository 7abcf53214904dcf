------------------------- MODULE TestResultsArtifact -------------------------
(***************************************************************************)
(* generated_test_results_artifact.py: "pack" puts the index and the results *)
(* of one checkout into an artifact, "restore" makes another checkout hold   *)
(* exactly the artifact's files, removing the results it does not have, and  *)
(* "verify-restored" looks whether they are still there.                     *)
(*                                                                         *)
(* Others may write in the checkout at any time; a command may raise an      *)
(* error, or be killed, at any point.                                        *)
(***************************************************************************)
EXTENDS Naturals, FiniteSets, Functions, FiniteSetsExt

CONSTANTS
    Count,      \* results there may be
    Junk,       \* what others write
    MaxEdits    \* bound: writes by others

ASSUME ArtifactConstants == Count \in Nat \ {0} /\ MaxEdits \in Nat

VARIABLES
    tree,       \* the checkout's generated files: a function from the paths it has
    strays,     \* its other untracked files
    base,       \* the generated files of the commit that is checked out
    archive,    \* the artifact
    proc,       \* the command that runs, or ran last
    killed,     \* history: a command was killed in this checkout
    edits       \* bound: writes by others so far

artifactVars == <<tree, strays, base, archive, proc, killed, edits>>

\* The paths in the order of their names: INDEX_PATH comes first.
Index == 0
Paths == 0..Count
NoArchive == [none |-> TRUE]
NoFiles == <<>>
Commands == {"pack", "restore", "verify"}
Ended == {"idle", "done", "failed", "killed"}
Trying == {"stage", "unchanged", "stale", "unlink", "replace", "recheck", "compare"}
RollingBack == {"clear", "rewrite"}
Steps == Ended \cup Trying \cup RollingBack
           \cup {"state", "load", "again", "discover", "read", "finish", "final"}

\* "paths" is the path set found, "saw" the snapshots' bytes, "same" the files whose
\* fingerprint is still the snapshot's, "todo" what is left of the loop, "stuck" tells that
\* the rollback's scan has an entry it will refuse.  History: "ours" are the files that hold
\* what this restore put there, "gone" those it removed; "moment" is the tree as the restore
\* found it or as the last read left it; "edited", "committed" and "torn" tell that others
\* have written since the command began, that _restore_payloads has returned, and that its
\* rollback has failed.
New(cmd, step) ==
    [cmd |-> cmd, step |-> step, todo |-> {}, paths |-> {}, saw |-> NoFiles, same |-> {},
     stuck |-> FALSE, ours |-> {}, gone |-> {}, moment |-> tree, edited |-> FALSE,
     committed |-> FALSE, torn |-> FALSE]

Temporaries == {"staged", "rewritten"} \X Paths
Foreign == {<<"foreign", p>> : p \in {Index, 1}}

ArtifactTypeOK ==
    /\ DOMAIN tree \subseteq Paths /\ DOMAIN base \subseteq Paths
    /\ strays \subseteq Temporaries \cup Foreign
    /\ archive = NoArchive \/ DOMAIN archive.files \subseteq Paths
    /\ proc.cmd \in Commands /\ proc.step \in Steps
    /\ proc.same \subseteq DOMAIN proc.saw /\ DOMAIN proc.saw \subseteq proc.paths
    /\ killed \in BOOLEAN /\ edits \in 0..MaxEdits

-----------------------------------------------------------------------------
At(step) == proc.step = step
Is(cmd) == proc.cmd = cmd
Running == proc.step \notin Ended
Present == DOMAIN tree
\* The function f with v at x
Put(f, x, v) == [y \in DOMAIN f \cup {x} |-> IF y = x THEN v ELSE f[y]]

Without(p) == Restrict(tree, Present \ {p})
With(p, data) == Put(tree, p, data)

Goto(p, step, todo) == [p EXCEPT !.step = step, !.todo = todo]

\* The loop is done with path x.
Loop(x, p, next, todo) ==
    IF p.todo = {x} THEN Goto(p, next, todo) ELSE [p EXCEPT !.todo = @ \ {x}]

\* A staged file, too, is an unexpected entry of the results directory.
Odd == \E s \in strays : s[2] # Index

\* _discover_paths finds the index, a result, and nothing else.
Discoverable == Index \in Present /\ Present # {Index} /\ ~Odd

StateHolds(allowChanges) ==
    /\ strays = {} /\ Discoverable
    /\ allowChanges \/ tree = base

\* Wrong variant: the files are not looked at again.
SeenOnce(x) == TRUE

\* _assert_snapshot_unchanged
Unchanged(x) == x \in proc.same

-----------------------------------------------------------------------------
Begin(cmd) ==
    /\ ~Running
    /\ proc' = New(cmd, "state")
    /\ UNCHANGED <<tree, strays, base, archive, killed, edits>>

CheckState ==
    /\ At("state") /\ StateHolds(~Is("restore"))
    /\ proc' = [Goto(proc, IF Is("pack") THEN "read" ELSE "load", Present)
                  EXCEPT !.paths = Present]
    /\ UNCHANGED <<tree, strays, base, archive, killed, edits>>

\* _read_artifact_directory, _parse_artifact
Load ==
    /\ At("load") /\ archive # NoArchive /\ archive.base = base
    /\ Is("verify") => proc.paths = DOMAIN archive.files
    /\ proc' = Goto(proc, IF Is("restore") THEN "again" ELSE "read", proc.paths)
    /\ UNCHANGED <<tree, strays, base, archive, killed, edits>>

CheckAgain ==
    /\ At("again") /\ StateHolds(FALSE)
    /\ proc' = Goto(proc, "discover", {})
    /\ UNCHANGED <<tree, strays, base, archive, killed, edits>>

Discover ==
    /\ At("discover") /\ Discoverable
    /\ proc' = [Goto(proc, "read", Present) EXCEPT !.paths = Present]
    /\ UNCHANGED <<tree, strays, base, archive, killed, edits>>

\* _read_regular_file; verify-restored compares the bytes at once.
Read ==
    /\ At("read")
    /\ LET x == Min(proc.todo)
           p == [proc EXCEPT !.saw = Put(@, x, tree[x]), !.same = @ \cup {x},
                             !.moment = IF Is("restore") THEN @ ELSE tree]
       IN /\ x \in Present
          /\ Is("verify") => tree[x] = archive.files[x]
          /\ proc' = IF Is("restore") THEN Loop(x, p, "stage", DOMAIN archive.files)
                     ELSE Loop(x, p, "unchanged", proc.paths)
    /\ UNCHANGED <<tree, strays, base, archive, killed, edits>>

\* _write_staged_file
Stage ==
    /\ At("stage")
    /\ LET x == Min(proc.todo) IN
         /\ strays' = strays \cup {<<"staged", x>>}
         /\ proc' = Loop(x, proc, "unchanged", proc.paths)
    /\ UNCHANGED <<tree, base, archive, killed, edits>>

Stale == proc.paths \ DOMAIN archive.files

AfterStale(p, stale) ==
    IF stale = {} THEN Goto(p, "replace", DOMAIN archive.files) ELSE Goto(p, "stale", stale)

CheckUnchanged ==
    /\ At("unchanged")
    /\ LET x == Min(proc.todo) IN
         /\ Unchanged(x)
         /\ proc' = IF Is("restore") /\ proc.todo = {x} THEN AfterStale(proc, Stale)
                    ELSE Loop(x, proc, "finish", {})
    /\ UNCHANGED <<tree, strays, base, archive, killed, edits>>

CheckStale ==
    /\ At("stale") /\ Unchanged(Max(proc.todo))
    /\ proc' = [proc EXCEPT !.step = "unlink"]
    /\ UNCHANGED <<tree, strays, base, archive, killed, edits>>

Unlink ==
    /\ At("unlink")
    /\ LET x == Max(proc.todo)
           p == [proc EXCEPT !.same = @ \ {x}, !.gone = @ \cup {x}]
       IN /\ x \in Present
          /\ tree' = Without(x)
          /\ proc' = AfterStale(p, proc.todo \ {x})
    /\ UNCHANGED <<strays, base, archive, killed, edits>>

\* os.replace, which looks at nothing
Replace ==
    /\ At("replace")
    /\ LET x == Min(proc.todo)
           p == [proc EXCEPT !.same = @ \ {x}, !.ours = @ \cup {x}]
       IN /\ tree' = With(x, archive.files[x])
          /\ strays' = strays \ {<<"staged", x>>}
          /\ proc' = Loop(x, p, "recheck", {})
    /\ UNCHANGED <<base, archive, killed, edits>>

Recheck ==
    /\ At("recheck") /\ Discoverable /\ Present = DOMAIN archive.files
    /\ proc' = Goto(proc, "compare", Present)
    /\ UNCHANGED <<tree, strays, base, archive, killed, edits>>

Compare ==
    /\ At("compare")
    /\ LET x == Min(proc.todo) IN
         /\ x \in Present /\ tree[x] = archive.files[x]
         /\ proc' = [Loop(x, proc, "final", {}) EXCEPT !.committed = proc.todo = {x}]
    /\ UNCHANGED <<tree, strays, base, archive, killed, edits>>

Final ==
    /\ At("final") /\ StateHolds(TRUE) /\ Present = DOMAIN archive.files
    /\ proc' = Goto(proc, "done", {})
    /\ UNCHANGED <<tree, strays, base, archive, killed, edits>>

\* The end of pack, whose output must not exist yet, and of verify-restored
Finish ==
    /\ At("finish") /\ StateHolds(TRUE) /\ Present = proc.paths
    /\ Is("pack") => archive = NoArchive
    /\ archive' = IF Is("pack") THEN [base |-> base, files |-> proc.saw] ELSE archive
    /\ proc' = Goto(proc, "done", {})
    /\ UNCHANGED <<tree, strays, base, killed, edits>>

-----------------------------------------------------------------------------
NotStaged == {s \in strays : s[1] # "staged"}

\* Wrong variant: there is no rollback.
LeftAsItIs == Goto(proc, "failed", {})

\* _restore_payloads fails: _rewrite_exact first scans the results directory.
RolledBack ==
    [Goto(proc, "clear", Present \ {Index})
       EXCEPT !.stuck = \E s \in NotStaged : s[2] # Index]

\* _restore_payloads has its snapshots; pack and verify-restored have nothing to undo.
InPlace == Is("restore") /\ proc.step \in Trying

\* An error, or an interrupt, at any point; a failed rollback leaves the file it could not
\* move into place.
Raise ==
    /\ Running
    /\ \/ /\ InPlace
          /\ proc' = RolledBack /\ strays' = NotStaged
       \/ /\ proc.step \in RollingBack
          /\ proc' = [Goto(proc, "failed", {}) EXCEPT !.torn = TRUE]
          /\ \/ UNCHANGED strays
             \/ At("rewrite") /\ strays' = strays \cup {<<"rewritten", Min(proc.todo)>>}
       \/ /\ ~InPlace /\ proc.step \notin RollingBack
          /\ proc' = Goto(proc, "failed", {}) /\ UNCHANGED strays
    /\ UNCHANGED <<tree, base, archive, killed, edits>>

\* It removes all results, in any order, unless it meets an entry that is none.
Clear ==
    /\ At("clear")
    /\ \/ \E x \in proc.todo \cap Present :
            /\ tree' = Without(x)
            /\ proc' = [proc EXCEPT !.todo = @ \ {x}, !.ours = @ \ {x}, !.same = @ \ {x}]
       \/ /\ proc.todo = {} /\ ~proc.stuck
          /\ proc' = Goto(proc, "rewrite", DOMAIN proc.saw) /\ UNCHANGED tree
    /\ UNCHANGED <<strays, base, archive, killed, edits>>

Rewrite ==
    /\ At("rewrite")
    /\ LET x == Min(proc.todo)
           p == [proc EXCEPT !.ours = @ \ {x}, !.same = @ \ {x}, !.gone = @ \ {x}]
       IN /\ tree' = With(x, proc.saw[x])
          /\ proc' = Loop(x, p, "failed", {})
    /\ UNCHANGED <<strays, base, archive, killed, edits>>

\* A killed process leaves all as it is, the temporary file it is writing too.
Kill ==
    /\ Running
    /\ proc' = Goto(proc, "killed", {}) /\ killed' = TRUE
    /\ \/ UNCHANGED strays
       \/ At("stage") /\ strays' = strays \cup {<<"staged", Min(proc.todo)>>}
       \/ At("rewrite") /\ strays' = strays \cup {<<"rewritten", Min(proc.todo)>>}
    /\ UNCHANGED <<tree, base, archive, edits>>

Command ==
    \/ CheckState \/ Load \/ CheckAgain \/ Discover \/ Read \/ Stage \/ CheckUnchanged
    \/ CheckStale \/ Unlink \/ Replace \/ Recheck \/ Compare \/ Final \/ Finish
    \/ Clear \/ Rewrite

\* Somebody else writes or removes a file, or makes one nobody expects.
Edit ==
    /\ edits < MaxEdits /\ edits' = edits + 1
    /\ \/ \E x \in Paths :
            /\ tree' \in {With(x, Junk), Without(x)}
            /\ proc' = [proc EXCEPT !.same = @ \ {x}, !.ours = @ \ {x}, !.gone = @ \ {x},
                                    !.edited = TRUE]
            /\ UNCHANGED strays
       \/ /\ \E s \in Foreign : strays' = strays \cup {s}
          /\ proc' = [proc EXCEPT !.edited = TRUE]
          /\ UNCHANGED tree
    /\ UNCHANGED <<base, archive, killed>>

-----------------------------------------------------------------------------
\* What is packed was in the checkout at one moment, whoever writes the files while they are
\* read one after the other (generated_test_results_artifact.py:549-567).
PackedTogether ==
    Is("pack") /\ At("done") =>
        /\ DOMAIN archive.files \subseteq DOMAIN proc.moment
        /\ archive.files = Restrict(proc.moment, DOMAIN archive.files)

\* A verification that passes proves that the checkout held all the artifact's files at one
\* moment, whatever became of the restore before it, and that the artifact is of this commit
\* (generated_test_results_artifact.py:689-709).
VerifiedExact ==
    Is("verify") /\ At("done") =>
        /\ archive.base = base
        /\ DOMAIN archive.files \subseteq DOMAIN proc.moment
        /\ archive.files = Restrict(proc.moment, DOMAIN archive.files)

\* Both: what an artifact holds, and what a verified checkout held, is of one moment.
ArtifactExact == PackedTogether /\ VerifiedExact

\* A restore whose rollback did not fail is all or nothing: when it ends well and nobody has
\* meddled, the checkout holds exactly the artifact's files; when it fails before they are
\* verified, no file it wrote is left and none it removed is missing, and without meddling
\* all is as it was.  The check after that fails with all the new files in place.  No
\* temporary file stays, unless a command was killed there
\* (generated_test_results_artifact.py:614-675).
AllOrNothing ==
    Is("restore") /\ ~proc.torn =>
        /\ At("done") /\ ~proc.edited => tree = archive.files
        /\ At("failed") /\ proc.committed /\ ~proc.edited => tree = archive.files
        /\ At("failed") /\ ~proc.committed =>
             /\ proc.ours = {} /\ proc.gone = {}
             /\ ~proc.edited => tree = proc.moment
        /\ ~Running /\ ~killed => strays \cap Temporaries = {}

-----------------------------------------------------------------------------
\* The promise.  While a restore is putting files in place or back and nobody meddles, the
\* checkout counts as it was found.  Broken off by force: killed, or failing to roll back.
Replaces == Is("restore") /\ proc.step \in Trying \cup RollingBack
Broken == At("killed") \/ (At("failed") /\ proc.torn)

Visible == IF Replaces /\ ~proc.edited THEN proc.moment ELSE tree
Seen == IF Is("restore") THEN NoFiles
        ELSE Restrict(proc.moment, DOMAIN proc.saw \cap DOMAIN proc.moment)
Stored == IF archive = NoArchive THEN NoFiles ELSE archive.files
Spoilt == proc.edited \/ Broken
Job == IF Running THEN IF proc.committed THEN "restored" ELSE proc.cmd
       ELSE IF At("killed") THEN "failed" ELSE proc.step

Transfer == INSTANCE FileTransfer WITH
    Required <- {Index}, None <- NoFiles, files <- Visible, stored <- Stored, seen <- Seen,
    job <- Job, spoilt <- Spoilt

\* The commands take files from one checkout to another as FileTransfer promises: nobody who
\* leaves them alone ever sees files of two artifacts, or of none
\* (generated_test_results_artifact.py:549-567, 614-675, 689-709).
TransferRefined == Transfer!TransferSpec
=============================================================================
