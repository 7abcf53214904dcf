-------------------------- MODULE ResultsPublication --------------------------
(***************************************************************************)
(* How rows get published, cycle after cycle: the batch runs emit result     *)
(* files, the summary workflow stages them with the rows on main, promotes   *)
(* (Promotion), copies the outcome into its checkout, packs it, and another  *)
(* job restores it, verifies it (TestResultsArtifact) and opens the draft    *)
(* pull request that somebody merges.  Packages move between batches, come   *)
(* and go; GitHub's runs are repeated or disappear.                          *)
(***************************************************************************)
EXTENDS TestResultsArtifact, Promotion

CONSTANTS
    MaxCycles,  \* bound: the number of the last orchestration; main's rows are of the first
    MaxChanges  \* bound: changes of the registrations, and of old runs

ASSUME PublicationConstants == MaxCycles \in Nat \ {0} /\ MaxChanges \in Nat
ASSUME PackagesArePaths == Packages = 1..Count
ASSUME JunkIsNoRow == Junk \notin Rows

VARIABLES
    main,       \* main's generated files and its registrations: package -> batch
    draft,      \* the open draft: files and the commit they are for
    cycle,      \* the summary run: its number, phase, commit and emitted files
    jobs,       \* GitHub's package jobs: <<run, package>> -> batch and conclusion
    lost,       \* runs that were repeated or are no longer there
    changes     \* bound

vars == <<artifactVars, promotionVars, main, draft, cycle, jobs, lost, changes>>

NoDraft == [none |-> TRUE]
NoCommit == [none |-> TRUE]
Phases == {"idle", "assemble", "promote", "delete", "copy", "index", "base", "pack",
           "upload", "restore", "verify", "publish"}

\* Rows with their index, as files
Published(rows) == Put(rows, Index, rows)

SeedRow(p, b) == [job |-> p, run |-> 1, batch |-> b, status |-> "success",
                  form |-> "compat", stamped |-> TRUE]

TypeOK ==
    /\ ArtifactTypeOK /\ PromotionTypeOK
    /\ IsPart(main.topo, Batches) /\ DOMAIN main.files \subseteq Paths
    /\ cycle.number \in 1..MaxCycles /\ cycle.phase \in Phases
    /\ \A j \in DOMAIN jobs : j[1] \in 1..MaxCycles /\ j[2] \in Packages
    /\ lost \subseteq (1..MaxCycles) \X Batches /\ changes \in 0..MaxChanges

Init ==
    \E b \in Batches :
      LET topo == [p \in Packages |-> b]
          rows == [p \in Packages |-> SeedRow(p, b)]
      IN /\ main = [files |-> Published(rows), topo |-> topo]
         /\ jobs = [j \in {1} \X Packages |-> [batch |-> b, conclusion |-> "success"]]
         /\ tree = NoFiles /\ strays = {} /\ base = NoFiles /\ archive = NoArchive
         /\ proc = New("pack", "idle") /\ killed = FALSE /\ edits = 0
         /\ PromotionInit
         /\ draft = NoDraft /\ lost = {} /\ changes = 0
         /\ cycle = [number |-> 1, phase |-> "idle", main |-> NoCommit, emitted |-> {},
                     meddled |-> FALSE]

-----------------------------------------------------------------------------
In(phase) == cycle.phase = phase
Enter(phase) == cycle' = [cycle EXCEPT !.phase = phase]

\* The jobs of a run: what they are registered for, how they end, what they emit.  A file
\* may claim another outcome, an old run or another package, be broken, or be missing.
Honest(p, n, b, outcome) == [job |-> p, run |-> n, batch |-> b, status |-> outcome,
                             form |-> "strict", stamped |-> FALSE]
File(slug, row) == [slug |-> slug, row |-> row]

Emissions(p, n, b) ==
    LET Ends(conclusion, files) == [conclusion |-> conclusion, files |-> files]
        good(outcome) == Honest(p, n, b, outcome)
    IN {Ends(outcome, {File(p, good(outcome))}) : outcome \in Outcomes}
         \cup {Ends("failure", {File(p, good("success"))}), Ends("cancelled", {}),
               Ends("success", {File(p, [good("success") EXCEPT !.form = "broken"])}),
               Ends("success", {File(p, [good("success") EXCEPT !.run = n - 2])})}
         \cup {Ends("success", {File(q, good("success"))}) : q \in DOMAIN main.topo}

\* The rows among some files; what is no row is not staged.
RowsOf(files) == Restrict(files, {p \in DOMAIN files \ {Index} : files[p] # Junk})

\* GitHub's jobs that the rows of some files name; those of main and of the draft matter.
Named(files) == {<<files[p].run, p>> : p \in DOMAIN RowsOf(files)}
Remembered == Named(main.files) \cup IF draft = NoDraft THEN {} ELSE Named(draft.files)

Checkout(files) ==
    /\ tree' = files /\ strays' = {} /\ base' = files /\ killed' = FALSE
    /\ proc' = [New("pack", "idle") EXCEPT !.moment = files]

ScratchRemoved == staged' = NothingStaged /\ stage' = EmptyStage /\ promote' = "idle"

\* The runners of a summary run, and what is on them, go with it.
RunEnds ==
    /\ cycle' = [cycle EXCEPT !.phase = "idle", !.emitted = {}, !.meddled = FALSE,
                              !.main = NoCommit]
    /\ Checkout(NoFiles) /\ archive' = NoArchive /\ ScratchRemoved

\* All batches have run, and the summary starts from the commit they were started from.
StartCycle ==
    LET n == cycle.number + 1 IN
    /\ In("idle") /\ ~Running /\ cycle.number < MaxCycles
    /\ \E ended \in [DOMAIN main.topo ->
                       UNION {Emissions(p, n, main.topo[p]) : p \in DOMAIN main.topo}] :
         /\ \A p \in DOMAIN ended : ended[p] \in Emissions(p, n, main.topo[p])
         /\ cycle' = [number |-> n, phase |-> "assemble", main |-> main,
                      emitted |-> UNION {ended[p].files : p \in DOMAIN ended},
                      meddled |-> FALSE]
         /\ jobs' = [j \in ({n} \X DOMAIN ended) \cup (Remembered \cap DOMAIN jobs) |->
                       IF j[1] # n THEN jobs[j]
                       ELSE [batch |-> main.topo[j[2]], conclusion |-> ended[j[2]].conclusion]]
    /\ Checkout(main.files)
    /\ UNCHANGED <<archive, edits, promotionVars, main, draft, lost, changes>>

-----------------------------------------------------------------------------
\* A row that stands for a package that emitted none
Synthesized(p, n, b) == [Honest(p, n, b, "failure") EXCEPT !.form = "broken"]

RowOf(slug) == (CHOOSE f \in cycle.emitted : f.slug = slug).row

\* Each registered package's job in this run, which must be there ...
Current(n, topo) ==
    [p \in DOMAIN topo |->
        [run |-> n, batch |-> topo[p], conclusion |-> jobs[<<n, p>>].conclusion]]

\* ... and its job in the run its published row names, if that run can still be found, has
\* not been repeated, and is one of the batch workflow the package is in today.
Resolves(p, row, topo) ==
    /\ <<row.run, p>> \in DOMAIN jobs /\ p \in DOMAIN topo
    /\ jobs[<<row.run, p>>].batch = topo[p] /\ <<row.run, topo[p]>> \notin lost

Historic(prev, topo) ==
    [p \in {p \in DOMAIN prev : Resolves(p, prev[p], topo)} |->
        [run |-> prev[p].run, batch |-> topo[p],
         conclusion |-> jobs[<<prev[p].run, p>>].conclusion]]

\* The candidates whose identity is not the registered one
Mismatched(cand, regs) == {p \in DOMAIN cand : ~Identified(cand[p], p, regs[p])}

\* The steps "assemble" and "normalize": two files for one package end the run, and so does
\* a row of main whose package is not registered.
Assemble ==
    LET topo == cycle.main.topo
        n == cycle.number
        slugs == {f.slug : f \in cycle.emitted}
        prev == RowsOf(tree)
        cand == [p \in slugs \cup DOMAIN topo |->
                   IF p \in slugs THEN RowOf(p) ELSE Synthesized(p, n, topo[p])]
        regs == Current(n, topo)
    IN /\ In("assemble")
       /\ \A f, g \in cycle.emitted : f.slug = g.slug => f = g
       /\ DOMAIN topo = DOMAIN cand \cup DOMAIN prev
       /\ \A p \in DOMAIN topo : <<n, topo[p]>> \notin lost
       /\ staged' = [cand |-> cand, prev |-> prev, regs |-> regs,
                     prevregs |-> Historic(prev, topo), blocked |-> Mismatched(cand, regs)]
       /\ cycle' = [cycle EXCEPT !.phase = "promote", !.emitted = {}]
       /\ UNCHANGED <<artifactVars, stage, promote, main, draft, jobs, lost, changes>>

\* promote_package_results.py; the workflow goes on only if it succeeds.
Promote ==
    /\ In("promote")
    /\ PromotionStep
    /\ cycle' = [cycle EXCEPT !.phase = IF promote' = "done" THEN "delete" ELSE @]
    /\ UNCHANGED <<artifactVars, main, draft, jobs, lost, changes>>

-----------------------------------------------------------------------------
\* The results of the checkout are deleted, the promoted rows copied, then their index.
DeleteRows ==
    /\ In("delete") /\ tree' = Restrict(tree, Present \cap {Index}) /\ Enter("copy")
    /\ UNCHANGED <<strays, base, archive, proc, killed, edits, promotionVars, main, draft,
                   jobs, lost, changes>>

CopyRow ==
    /\ In("copy")
    /\ \/ \E p \in DOMAIN stage.pub \ Present :
            tree' = With(p, stage.pub[p]) /\ UNCHANGED cycle
       \/ DOMAIN stage.pub \subseteq Present /\ Enter("index") /\ UNCHANGED tree
    /\ UNCHANGED <<strays, base, archive, proc, killed, edits, promotionVars, main, draft,
                   jobs, lost, changes>>

CopyIndex ==
    /\ In("index") /\ tree' = With(Index, stage.idx) /\ Enter("base")
    /\ UNCHANGED <<strays, base, archive, proc, killed, edits, promotionVars, main, draft,
                   jobs, lost, changes>>

BaseCurrent == main = cycle.main

\* The staging directory is removed before that.
Revalidate ==
    /\ In("base") /\ BaseCurrent /\ Enter("pack") /\ Begin("pack") /\ ScratchRemoved
    /\ UNCHANGED <<main, draft, jobs, lost, changes>>

Tool ==
    /\ In("pack") \/ In("restore") \/ In("verify")
    /\ Command \/ Raise \/ Kill
    /\ UNCHANGED <<promotionVars, main, draft, cycle, jobs, lost, changes>>

\* The artifact is uploaded; the second job checks out the same commit and downloads it.
SecondJob ==
    /\ In("pack") /\ At("done") /\ Enter("restore")
    /\ Checkout(base)
    /\ UNCHANGED <<archive, edits, promotionVars, main, draft, jobs, lost, changes>>

Restore ==
    /\ In("restore") /\ At("idle") /\ Begin("restore")
    /\ UNCHANGED <<promotionVars, main, draft, cycle, jobs, lost, changes>>

VerifyRestored ==
    /\ In("restore") /\ Is("restore") /\ At("done") /\ Enter("verify") /\ Begin("verify")
    /\ UNCHANGED <<promotionVars, main, draft, jobs, lost, changes>>

\* publish-generated-data-pr commits what the checkout holds, if main is still the base.
OpenDraft ==
    /\ In("verify") /\ Is("verify") /\ At("done") /\ BaseCurrent
    /\ draft' = [files |-> tree, base |-> cycle.main, number |-> cycle.number,
                 meddled |-> cycle.meddled \/ proc.edited]
    /\ RunEnds
    /\ UNCHANGED <<edits, main, jobs, lost, changes>>

\* A failed or cancelled step ends the run.
GiveUp ==
    /\ ~In("idle") /\ ~Running /\ RunEnds
    /\ UNCHANGED <<edits, main, draft, jobs, lost, changes>>

Meddle ==
    /\ In("pack") \/ In("restore") \/ In("verify")
    /\ changes = 0 /\ Edit
    /\ cycle' = [cycle EXCEPT !.meddled = @ \/ In("pack")]
    /\ UNCHANGED <<promotionVars, main, draft, jobs, lost, changes>>

-----------------------------------------------------------------------------
\* Others' commits matter to the steps that look at main, and are taken just before those.
Watched == In("idle") \/ In("base") \/ (In("verify") /\ At("done"))

\* Both sides change the index, so a draft for other rows does not merge.
Merge ==
    /\ Watched /\ draft # NoDraft /\ main.files = draft.base.files
    /\ main' = [main EXCEPT !.files = draft.files] /\ draft' = NoDraft
    /\ UNCHANGED <<artifactVars, promotionVars, cycle, jobs, lost, changes>>

\* A behaviour has such changes or edits in a runner, not both.
Counted == edits = 0 /\ changes < MaxChanges /\ changes' = changes + 1

\* A commit on main moves a package to a batch, registers it, or removes it: with its row,
\* or forgetting that.
Maintain ==
    /\ Watched /\ Counted
    /\ \E p \in Packages :
         \/ \E b \in Batches : main' = [main EXCEPT !.topo = Put(@, p, b)]
         \/ /\ p \in DOMAIN main.topo /\ DOMAIN main.topo # {p}
            /\ LET topo == Restrict(main.topo, DOMAIN main.topo \ {p})
                   left == Restrict(main.files, DOMAIN main.files \ {Index, p})
               IN main' \in {[files |-> main.files, topo |-> topo],
                             [files |-> Published(left), topo |-> topo]}
    /\ UNCHANGED <<artifactVars, promotionVars, draft, cycle, jobs, lost>>

\* A run is repeated as another attempt, or deleted.
Lose ==
    /\ In("assemble") /\ Counted
    /\ \E j \in DOMAIN jobs : lost' = lost \cup {<<j[1], jobs[j].batch>>}
    /\ UNCHANGED <<artifactVars, promotionVars, main, draft, cycle, jobs>>

Next ==
    \/ StartCycle \/ Assemble \/ Promote \/ DeleteRows \/ CopyRow \/ CopyIndex \/ Revalidate
    \/ Tool \/ SecondJob \/ Restore \/ VerifyRestored \/ OpenDraft \/ GiveUp \/ Meddle
    \/ Merge \/ Maintain \/ Lose

Spec == Init /\ [][Next]_vars

-----------------------------------------------------------------------------
Intact == draft # NoDraft /\ ~draft.meddled

\* A row that is published says how its own package's job ended in the run it names, however
\* wrong the emitted files are and however often it has been retained: failures are never
\* shown as passes (promote_package_results.py:501-518).
RowsTruthful ==
    Intact =>
        \A p \in DOMAIN draft.files \ {Index} :
            LET row == draft.files[p] IN
            /\ row.job = p /\ row.form # "broken" /\ row.stamped
            /\ <<row.run, p>> \in DOMAIN jobs => row.status = jobs[<<row.run, p>>].conclusion
            /\ row.run = draft.number => row.batch = draft.base.topo[p]

\* A publication is whole: one row for every package registered in its base commit, none for
\* others, and the index lists exactly those rows, though steps may fail in between and
\* files are deleted before they are copied (promote_package_results.py:852-869, 970-992;
\* generated_test_results_artifact.py:614-675).
PublishedWhole ==
    /\ TypeOK
    /\ Intact =>
         /\ DOMAIN draft.files = {Index} \cup DOMAIN draft.base.topo
         /\ draft.files[Index] = Restrict(draft.files, DOMAIN draft.files \ {Index})

\* One bad candidate blocks the others only with a cause: its package has no published row,
\* or GitHub no longer has that row's run in the batch the package is in.  What promote
\* stamps, it accepts again in every later cycle (promote_package_results.py:875-942).
BlockedWithCause ==
    promote = "blocked" =>
        \E p \in DOMAIN staged.cand :
            /\ staged.cand[p].form # "strict" \/ staged.cand[p].job # p
                 \/ staged.cand[p].run # cycle.number
                 \/ staged.cand[p].status # jobs[<<cycle.number, p>>].conclusion
            /\ \/ p \notin DOMAIN staged.prev
               \/ staged.prev[p].batch # cycle.main.topo[p]
               \/ <<staged.prev[p].run, staged.prev[p].batch>> \in lost

\* On main, a package's row is never replaced by one of an earlier run: results kept for
\* want of better ones do not overwrite what was merged while the summary ran
\* (test-all-packages-summary.yml:1331-1346).
NeverOlder ==
    [][\A p \in DOMAIN RowsOf(main.files) \cap DOMAIN RowsOf(main'.files) :
          main'.files[p].run >= main.files[p].run]_vars
=============================================================================
