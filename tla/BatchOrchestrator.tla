--------------------------- MODULE BatchOrchestrator ---------------------------
(***************************************************************************)
(* The weekly orchestration: test-all-packages-orchestrator.yml dispatches  *)
(* every batch workflow, finds the run each dispatch has made, waits for    *)
(* them and dispatches the global summary, which looks at the runs again and*)
(* collects their results (test-all-packages-summary.yml).  Both decide with*)
(* .github/scripts/orchestration_contract.py.                               *)
(*                                                                         *)
(* Runs are created, listed, finished, cancelled and run again by GitHub and*)
(* by people at any time; the orchestrator itself may be cancelled by the   *)
(* next one.                                                               *)
(***************************************************************************)
EXTENDS Naturals, Sequences, FiniteSets

CONSTANTS
    BatchCount,         \* BATCH_COUNT, 22
    MaxPolls,           \* polls of one wait: 18, 330 or 120
    MaxFailures,        \* consecutive failed lookups that end a wait: 5
    MaxRuns,            \* bound: workflow runs
    MaxOrchestrations,  \* bound: runs of the orchestrator
    MaxPushes,          \* bound: pushes to the branch
    MaxMeddling,        \* bound: runs cancelled, run again or dispatched again by people
    MaxDisturbances     \* bound: the last three together

ASSUME OrchestratorConstants ==
    /\ BatchCount \in Nat \ {0} /\ MaxPolls \in Nat \ {0} /\ MaxFailures \in Nat \ {0}
    /\ MaxRuns \in Nat /\ MaxOrchestrations \in Nat /\ MaxPushes \in Nat /\ MaxMeddling \in Nat
    /\ MaxDisturbances \in Nat

VARIABLES
    head,       \* the commit the branch is at
    orch,       \* the orchestrator: its step, its files and its shell variables
    runs,       \* all workflow runs, by id
    nonces,     \* the dispatch nonces generated so far
    meddled     \* bound: what people have done so far

vars == <<head, orch, runs, nonces, meddled>>

Batches == 1..BatchCount
Summary == 0                    \* the workflow of a summary run
Finished == {"success", "failure", "cancelled"}
Ended == {"idle", "succeeded", "failed"}
Steps == Ended \cup {"bind", "dispatch", "register", "wait", "recheck", "dispatchSummary",
                     "registerSummary", "track"}
Stages == {"none", "bind", "check", "artifact", "download", "assembled"}
Attempts == 1..MaxMeddling + 1

\* A record is pending, with run 0, until the run of its dispatch is found.
Record == [batch : Batches, nonce : Nat, run : 0..MaxRuns]
Manifest == [id : 0..MaxOrchestrations, expected : 0..MaxPushes, batches : Seq(Record)]
NoManifest == [id |-> 0, expected |-> 0, batches |-> <<>>]

\* A workflow run with the inputs of its dispatch.  "first" is how its first attempt ended,
\* "results" the attempts whose attested artifact it lists; a summary also has its stage,
\* the batch it is at, whether one was missing, and the attempts it has collected.
Run == [workflow : 0..BatchCount, id : 1..MaxOrchestrations, nonce : Nat,
        expected : 0..MaxPushes, manifest : Manifest, sha : 0..MaxPushes,
        status : {"running"} \cup Finished, attempt : Attempts,
        first : {"none"} \cup Finished, results : SUBSET Attempts, listed : BOOLEAN,
        stage : Stages, batch : 1..BatchCount + 1, missing : BOOLEAN, collected : Seq(Nat)]

Orchestrator ==
    [step : Steps, id : 0..MaxOrchestrations, sha : 0..MaxPushes, batch : Batches,
     nonce : Nat, records : Seq(Record), manifest : Manifest, run : 0..MaxRuns,
     polls : 0..MaxPolls - 1, failures : 0..MaxFailures - 1, failed : BOOLEAN]

TypeOK ==
    /\ head \in 0..MaxPushes
    /\ orch \in Orchestrator
    /\ runs \in Seq(Run) /\ Len(runs) <= MaxRuns
    /\ nonces \in Nat /\ meddled \in 0..MaxMeddling

Idle == [step |-> "idle", id |-> 0, sha |-> 0, batch |-> 1, nonce |-> 0, records |-> <<>>,
         manifest |-> NoManifest, run |-> 0, polls |-> 0, failures |-> 0, failed |-> FALSE]

Init ==
    /\ head = 0 /\ orch = Idle /\ runs = <<>>
    /\ nonces = 0 /\ meddled = 0

-----------------------------------------------------------------------------
\* orchestration_contract.py

\* The exact run name: workflow, orchestration and nonce
Titled(r, workflow, id, nonce) ==
    runs[r].workflow = workflow /\ runs[r].id = id /\ runs[r].nonce = nonce

\* _validate_record: the batch its place asks for, bound to a run
RecordOf(record, b) == record.batch = b /\ record.run # 0

\* validate_manifest: a record of each batch in order, no run and no nonce twice
ManifestValid(m) ==
    /\ Len(m.batches) = BatchCount
    /\ \A b \in Batches : RecordOf(m.batches[b], b)
    /\ \A b, c \in Batches : b # c =>
         m.batches[b].run # m.batches[c].run /\ m.batches[b].nonce # m.batches[c].nonce

\* validate_manifest_text and validate_summary_dispatch: the manifest agrees with the inputs.
InputsAgree(m, id, expected) == ManifestValid(m) /\ m.expected = expected /\ m.id = id

\* validate_sha_binding: the expected commit is the workflow's and the head of the branch.
ShaBound(expected, sha) == sha = expected /\ head = expected

\* What GitHub lists for a commit, all pages of it, and the runs there of one name
ListedFor(sha) == {r \in DOMAIN runs : runs[r].listed /\ runs[r].sha = sha}
Candidates(workflow, id, nonce, sha) == {r \in ListedFor(sha) : Titled(r, workflow, id, nonce)}

\* validate_run: the first attempt, not cancelled
Acceptable(r) == runs[r].attempt = 1 /\ runs[r].status # "cancelled"
Completed(r) == runs[r].status \in {"success", "failure"}

\* select_exact_registration: one run has the name, and it is acceptable.
Found(r, workflow, id, nonce, sha) ==
    Candidates(workflow, id, nonce, sha) = {r} /\ Acceptable(r)
NotYet(workflow, id, nonce, sha) == Candidates(workflow, id, nonce, sha) = {}
Rejected(workflow, id, nonce, sha) ==
    /\ ~NotYet(workflow, id, nonce, sha)
    /\ ~\E r \in DOMAIN runs : Found(r, workflow, id, nonce, sha)

-----------------------------------------------------------------------------
\* GitHub accepts a dispatch: one more run, of the branch's head
Created(workflow, nonce, manifest) ==
    IF Len(runs) = MaxRuns THEN {}
    ELSE {Append(runs,
            [workflow |-> workflow, id |-> orch.id, nonce |-> nonce, expected |-> orch.sha,
             manifest |-> manifest, sha |-> head, status |-> "running", attempt |-> 1,
             first |-> "none", results |-> {}, listed |-> FALSE,
             stage |-> IF workflow = Summary THEN "bind" ELSE "none",
             batch |-> 1, missing |-> FALSE, collected |-> <<>>])}

\* The orchestrator's job ends; its files and variables go with the runner.
Exit(step) == orch' = [Idle EXCEPT !.step = step, !.id = orch.id]
Continue(o, step) == orch' = [o EXCEPT !.step = step, !.polls = 0, !.failures = 0]

\* Wrong variant: a failed lookup starts the wait anew.
MissedAnew(o) ==
    IF o.failures > 0 THEN orch' = [o EXCEPT !.polls = 0]
    ELSE IF o.polls + 1 = MaxPolls THEN Exit("failed")
    ELSE orch' = [o EXCEPT !.polls = @ + 1]

\* One more poll in vain
Missed(o) == IF o.polls + 1 = MaxPolls THEN Exit("failed")
             ELSE orch' = [o EXCEPT !.polls = @ + 1]

\* The lookup fails; a few times in a row is too often.
LookupFails ==
    IF orch.failures + 1 = MaxFailures THEN Exit("failed")
    ELSE Missed([orch EXCEPT !.failures = @ + 1])

Answered == [orch EXCEPT !.failures = 0]

Disturbable == orch.id + head + meddled < MaxDisturbances

\* A new orchestrator cancels the one that runs.
Start ==
    /\ orch.id < MaxOrchestrations /\ Disturbable
    /\ orch' = [Idle EXCEPT !.step = "bind", !.id = orch.id + 1, !.sha = head]
    /\ UNCHANGED <<head, runs, nonces, meddled>>

Bind ==
    /\ orch.step = "bind"
    /\ IF ShaBound(orch.sha, orch.sha) THEN Continue(orch, "dispatch") ELSE Exit("failed")
    /\ UNCHANGED <<head, runs, nonces, meddled>>

\* _prepare_record: the next batch's, with a nonce no other record has
Prepared(nonce) ==
    IF \/ orch.batch # Len(orch.records) + 1
       \/ \E i \in DOMAIN orch.records : orch.records[i].nonce = nonce
    THEN {}
    ELSE {Append(orch.records, [batch |-> orch.batch, nonce |-> nonce, run |-> 0])}

\* A fresh nonce, the pending record, and the dispatch, whose error is not believed: a run
\* may have been made.
Dispatch ==
    /\ orch.step = "dispatch"
    /\ nonces' = nonces + 1
    /\ \/ /\ Prepared(nonces') = {} /\ Exit("failed") /\ UNCHANGED runs
       \/ /\ \E records \in Prepared(nonces') :
               Continue([orch EXCEPT !.nonce = nonces', !.records = records], "register")
          /\ runs' \in {runs} \cup Created(orch.batch, nonces', NoManifest)
    /\ UNCHANGED <<head, meddled>>

\* _bind_record_run: the pending record of this batch and nonce gets a run no other has.
Bindable(r) ==
    /\ \A i \in DOMAIN orch.records : orch.records[i].run # r
    /\ orch.records[orch.batch] = [batch |-> orch.batch, nonce |-> orch.nonce, run |-> 0]

\* build_manifest, after the last batch
Built(records) == [id |-> orch.id, expected |-> orch.sha, batches |-> records]

BindRecord(r) ==
    LET records == [orch.records EXCEPT ![orch.batch].run = r] IN
      IF ~Bindable(r) THEN Exit("failed")
      ELSE IF orch.batch < BatchCount
           THEN Continue([orch EXCEPT !.records = records, !.batch = @ + 1, !.nonce = 0],
                         "dispatch")
      ELSE IF ManifestValid(Built(records))
           THEN Continue([orch EXCEPT !.records = <<>>, !.manifest = Built(records),
                                      !.batch = 1, !.nonce = 0], "wait")
      ELSE Exit("failed")

Register ==
    /\ orch.step = "register"
    /\ \/ LookupFails
       \/ Rejected(orch.batch, orch.id, orch.nonce, orch.sha) /\ Exit("failed")
       \/ NotYet(orch.batch, orch.id, orch.nonce, orch.sha) /\ Missed(Answered)
       \/ \E r \in DOMAIN runs :
            Found(r, orch.batch, orch.id, orch.nonce, orch.sha) /\ BindRecord(r)
    /\ UNCHANGED <<head, runs, nonces, meddled>>

\* Wrong variant: failed batches are reported and forgotten.
FailureForgotten(o) == Continue(o, "recheck")

\* After the last batch: a failure anywhere ends the orchestration.
AllWaited(o) == IF o.failed THEN Exit("failed") ELSE Continue(o, "recheck")

\* The runs are waited for one after the other; a failed one does not end the wait.
WaitForRun ==
    LET r == orch.manifest.batches[orch.batch].run
        o == [orch EXCEPT !.failed = @ \/ runs[r].status = "failure"]
    IN /\ orch.step = "wait"
       /\ \/ LookupFails
          \/ ~Acceptable(r) /\ Exit("failed")
          \/ Acceptable(r) /\ ~Completed(r) /\ Missed(Answered)
          \/ /\ Acceptable(r) /\ Completed(r)
             /\ IF orch.batch = BatchCount THEN AllWaited(o)
                ELSE Continue([o EXCEPT !.batch = @ + 1], "wait")
       /\ UNCHANGED <<head, runs, nonces, meddled>>

Recheck ==
    /\ orch.step = "recheck"
    /\ IF ShaBound(orch.sha, orch.sha) THEN Continue(orch, "dispatchSummary") ELSE Exit("failed")
    /\ UNCHANGED <<head, runs, nonces, meddled>>

\* Here an error ends the job, whether or not a run was made.
DispatchSummary ==
    /\ orch.step = "dispatchSummary"
    /\ nonces' = nonces + 1
    /\ \/ /\ runs' \in Created(Summary, nonces', orch.manifest)
          /\ Continue([orch EXCEPT !.nonce = nonces'], "registerSummary")
       \/ /\ runs' \in {runs} \cup Created(Summary, nonces', orch.manifest)
          /\ Exit("failed")
    /\ UNCHANGED <<head, meddled>>

RegisterSummary ==
    /\ orch.step = "registerSummary"
    /\ \/ Missed(orch)
       \/ Rejected(Summary, orch.id, orch.nonce, orch.sha) /\ Exit("failed")
       \/ \E r \in DOMAIN runs :
            /\ Found(r, Summary, orch.id, orch.nonce, orch.sha)
            /\ Continue([orch EXCEPT !.run = r], "track")
    /\ UNCHANGED <<head, runs, nonces, meddled>>

\* Wrong variant: a summary that has ended is taken for a good one.
GoodEnd(r) == Completed(r)

Good(r) == runs[r].status = "success"

Track ==
    /\ orch.step = "track"
    /\ \/ Exit("failed")                                    \* the lookup fails
       \/ ~Acceptable(orch.run) /\ Exit("failed")
       \/ Acceptable(orch.run) /\ ~Completed(orch.run) /\ Missed(orch)
       \/ /\ Acceptable(orch.run) /\ Completed(orch.run)
          /\ IF Good(orch.run) THEN Exit("succeeded") ELSE Exit("failed")
    /\ UNCHANGED <<head, runs, nonces, meddled>>

Orchestrate ==
    \/ Bind \/ Dispatch \/ Register \/ WaitForRun
    \/ Recheck \/ DispatchSummary \/ RegisterSummary \/ Track

-----------------------------------------------------------------------------
\* The summary's job, in the run s
Set(r, run) == runs' = [runs EXCEPT ![r] = run] /\ UNCHANGED <<head, orch, nonces, meddled>>
Fresh(run) ==
    [run EXCEPT !.stage = IF run.workflow = Summary THEN "bind" ELSE "none",
                !.batch = 1, !.missing = FALSE, !.collected = <<>>]
Marked(run, status) ==
    [run EXCEPT !.status = status, !.first = IF run.attempt = 1 THEN status ELSE @]

\* What a summary that does not succeed has collected goes with its runner.
Ending(run, status) ==
    IF status = "success" THEN Marked(run, status) ELSE Fresh(Marked(run, status))

\* Its commit is the expected one and still the head of the branch, and its inputs agree.
BindBase(s) ==
    /\ runs[s].stage = "bind" /\ runs[s].status = "running"
    /\ Set(s, IF /\ ShaBound(runs[s].expected, runs[s].sha)
                 /\ InputsAgree(runs[s].manifest, runs[s].id, runs[s].expected)
              THEN [runs[s] EXCEPT !.stage = "check"] ELSE Ending(runs[s], "failure"))

\* On to the next batch, or to the end: nothing is assembled if a batch is missing.
NextBatch(run) ==
    IF run.batch < BatchCount THEN [run EXCEPT !.batch = @ + 1, !.stage = "check"]
    ELSE IF run.missing THEN Ending(run, "failure")
    ELSE [run EXCEPT !.batch = @ + 1, !.stage = "assembled"]
Without(run) == NextBatch([run EXCEPT !.missing = TRUE, !.collected = Append(@, 0)])

\* The run of the manifest is still the only one of its name, complete and acceptable.
StillExact(s) ==
    LET run == runs[s]
        record == run.manifest.batches[run.batch]
    IN Found(record.run, run.batch, run.id, record.nonce, run.expected) /\ Completed(record.run)

CheckRun(s) ==
    /\ runs[s].stage = "check" /\ runs[s].status = "running"
    /\ \/ StillExact(s) /\ Set(s, [runs[s] EXCEPT !.stage = "artifact"])
       \/ Set(s, Without(runs[s]))                          \* or a lookup fails

ResultsOf(s) == runs[runs[s].manifest.batches[runs[s].batch].run].results

\* validate_artifacts: the run lists one artifact of that name.
OneArtifact(s) == Cardinality(ResultsOf(s)) = 1

CheckArtifact(s) ==
    /\ runs[s].stage = "artifact" /\ runs[s].status = "running"
    /\ \/ /\ OneArtifact(s)
          /\ Set(s, [runs[s] EXCEPT !.stage = "download"])
       \/ Set(s, Without(runs[s]))                          \* or the lookup fails, or it expired

\* Wrong variant: whatever artifact the run has is good.
AnyResults(attempt) == attempt \in Attempts

\* The attestation names the first attempt.
Attested(attempt) == attempt = 1

\* The artifact is downloaded by its name, whichever the run has by now.
DownloadRun(s) ==
    /\ runs[s].stage = "download" /\ runs[s].status = "running"
    /\ \/ \E got \in ResultsOf(s) :
            Attested(got) /\ Set(s, NextBatch([runs[s] EXCEPT !.collected = Append(@, got)]))
       \/ Set(s, Without(runs[s]))                          \* or the download fails

\* Promotion, packaging and publication, which may fail
FinishSummary(s) ==
    /\ runs[s].stage = "assembled" /\ runs[s].status = "running"
    /\ \E status \in {"success", "failure"} : Set(s, Ending(runs[s], status))

Summarise(s) ==
    \/ BindBase(s) \/ CheckRun(s) \/ CheckArtifact(s) \/ DownloadRun(s)
    \/ FinishSummary(s)

-----------------------------------------------------------------------------
\* GitHub lists a run, and runs the batches; a batch that fails may leave no results.
List(r) ==
    /\ ~runs[r].listed
    /\ Set(r, [runs[r] EXCEPT !.listed = TRUE])

FinishBatch(r) ==
    /\ runs[r].workflow # Summary /\ runs[r].status = "running"
    /\ LET uploaded == runs[r].results \cup {runs[r].attempt} IN
         \/ Set(r, [Ending(runs[r], "success") EXCEPT !.results = uploaded])
         \/ \E results \in {runs[r].results, uploaded} :
              Set(r, [Ending(runs[r], "failure") EXCEPT !.results = results])

\* People push, cancel a run, run one again, or dispatch a batch again with its inputs.
Push ==
    /\ head < MaxPushes /\ Disturbable
    /\ head' = head + 1
    /\ UNCHANGED <<orch, runs, nonces, meddled>>

Meddle(changed) ==
    /\ meddled < MaxMeddling /\ Disturbable
    /\ meddled' = meddled + 1
    /\ runs' = changed
    /\ UNCHANGED <<head, orch, nonces>>

Cancel(r) ==
    runs[r].status = "running" /\ Meddle([runs EXCEPT ![r] = Ending(@, "cancelled")])

Rerun(r) ==
    /\ runs[r].status # "running"
    /\ \E kept \in {runs[r].results, {}} :        \* earlier artifacts may go out of its list
         Meddle([runs EXCEPT ![r] = [Fresh(runs[r]) EXCEPT !.status = "running",
                                       !.attempt = runs[r].attempt + 1, !.results = kept]])

DispatchAgain(r) ==
    /\ runs[r].workflow # Summary /\ Len(runs) < MaxRuns
    /\ Meddle(Append(runs, [runs[r] EXCEPT !.sha = head, !.status = "running", !.attempt = 1,
                  !.first = "none", !.results = {}, !.listed = FALSE]))

\* What somebody makes of a summary's manifest before giving it to another: nothing, or
\* another order of its records, one of them twice, fewer, or another orchestration's name
\* or commit.
Rewritten(m) ==
    {[m EXCEPT !.batches = batches] : batches \in [Batches -> {m.batches[i] : i \in DOMAIN m.batches}]}
    \cup {[m EXCEPT !.batches = SubSeq(@, 2, Len(@))]}
    \cup {[m EXCEPT !.id = id, !.expected = sha] : id \in {m.id, orch.id}, sha \in {m.expected, head}}

\* The summary is dispatched by hand, with its old inputs or with those of the manifest.
SummariseAgain(r) ==
    /\ runs[r].workflow = Summary /\ Len(runs) < MaxRuns
    /\ \E m \in Rewritten(runs[r].manifest) : \E inputs \in {m, runs[r]} :
         Meddle(Append(runs, [Fresh(runs[r]) EXCEPT
                  !.manifest = m, !.id = inputs.id, !.expected = inputs.expected,
                  !.sha = head, !.status = "running", !.attempt = 1, !.first = "none",
                  !.listed = FALSE]))

Next ==
    \/ Start \/ Orchestrate \/ Push
    \/ \E r \in DOMAIN runs :
         Summarise(r) \/ List(r) \/ FinishBatch(r) \/ Cancel(r) \/ Rerun(r) \/ DispatchAgain(r)
         \/ SummariseAgain(r)

Spec == Init /\ [][Next]_vars

-----------------------------------------------------------------------------
\* What a summary has assembled comes, batch by batch, from distinct runs of its own
\* orchestration at its own commit, from their first attempts, and from none that was
\* cancelled; runs left by a cancelled orchestration or made by hand never get in, nor does
\* a manifest that somebody has rewritten.  All is well typed
\* (test-all-packages-summary.yml:117-251, orchestration_contract.py:317-475).
AssembledExact ==
    /\ TypeOK
    /\ \A s \in DOMAIN runs : runs[s].stage = "assembled" =>
          /\ Len(runs[s].manifest.batches) = BatchCount
          /\ \A b \in Batches :
               LET r == runs[s].manifest.batches[b].run IN
                 /\ runs[r].workflow = b /\ runs[r].id = runs[s].id /\ runs[r].sha = runs[s].sha
                 /\ runs[r].first \in {"success", "failure"}
                 /\ runs[s].collected[b] = 1

\* A summary is dispatched only when every batch of its manifest has succeeded the first
\* time, although a failed batch does not end the wait for the others
\* (test-all-packages-orchestrator.yml:158-230).
SummaryAfterSuccess ==
    \A s \in DOMAIN runs : runs[s].workflow = Summary =>
        \A b \in DOMAIN runs[s].manifest.batches :
            runs[runs[s].manifest.batches[b].run].first = "success"

\* When the orchestrator succeeds, the summary of its own runs has been assembled and has
\* succeeded (test-all-packages-orchestrator.yml:232-314).
SucceededMeansAssembled ==
    [][ orch.step = "track" /\ orch'.step = "succeeded" =>
          \E s \in DOMAIN runs : /\ runs[s].id = orch.id /\ runs[s].workflow = Summary
                                 /\ runs[s].stage = "assembled" /\ runs[s].status = "success"
                                 /\ runs[s].manifest = orch.manifest ]_vars

\* How far the orchestrator has come: the part of its script, the batch, and the polls of
\* the wait it is in.
Part(step) ==
    CASE step = "bind" -> 0
      [] step = "dispatch" -> 1
      [] step = "register" -> 1
      [] step = "wait" -> 2
      [] step = "recheck" -> 3
      [] step = "dispatchSummary" -> 4
      [] step = "registerSummary" -> 5
      [] step = "track" -> 6
Progress(o) ==
    LET half == IF o.step = "register" THEN 1 ELSE 0
    IN ((Part(o.step) * (BatchCount + 1) + o.batch) * 2 + half) * MaxPolls + o.polls

\* Whatever GitHub answers, each step of the orchestrator brings it closer to its end: the
\* waits are bounded, and an answer between two failed lookups does not start one anew
\* (test-all-packages-orchestrator.yml:107-140, 182-223, 263-314).
EveryWaitBounded ==
    [][ orch' # orch /\ orch'.id = orch.id =>
          orch'.step \in Ended \/ Progress(orch') > Progress(orch) ]_vars
=============================================================================
