# Verification of the Arm ecosystem dashboard's machinery

The repository publishes a dashboard of packages that run on Arm. Most of its
files are data: package descriptions, and some 960 generated test workflows.
The programs around the data decide what may be published: they dispatch the
tests in batches, accept exactly one run of each, promote results, carry
generated data from job to job, and offer the outcome as a reviewed pull
request. A search service and the browser code that calls it read what was
published.

This directory models those programs in TLA+, checks the models with TLC on
small instances, and proves theorems about them with TLAPS for all instances.

1. [Inventory](#1-inventory)
2. [Modules](#2-modules)
3. [What each run checks](#3-what-each-run-checks)
4. [Fairness](#4-fairness)
5. [What is proved](#5-what-is-proved)
6. [Disagreements between code and tests](#6-disagreements-between-code-and-tests)
7. [What is not modelled](#7-what-is-not-modelled)
8. [Plan](#8-plan)

## 1. Inventory

How the parts hang together:

```
 test workflows (22 batches)        Hugo site <-- data/*.json, static/*.json
   ^ dispatch      | artifacts         ^
   |               v                   | reviewed draft pull request
 orchestrator --> global summary --> promotion --> data artifacts --> publisher --> GitHub
   \________ orchestration contract ________/

 browser (conversational search) --HTTP--> HTTP guard --> search service --> KB client --> provider
                                                               \--> catalog (site data)
```

Parts that run at the same time share only GitHub (branches, workflow runs, pull
requests, artifacts), the files of a checkout, or the memory of the one search
process.

### Publication

**Generated-data publisher** (`.github/actions/publish-generated-data-pr`).
State: local variables of one run; everything else is GitHub's: the base branch,
one automation branch, its pull requests. Operations: check the candidate,
verify that the branch and the pull request are its own, push with a lease,
create or update or close a draft, poll the list endpoint. *Hard:* no remote
call is atomic with the next; people push, edit, merge and release the draft in
between; the list lags; an answer gets lost; the job dies between push and pull
request. *Correct when:* it never destroys a person's commit, never reports
anything but the candidate it was given on the base it was reviewed against,
closes nothing but the draft it saw, and can be run again after any failure.

**Generated site data artifact** (`generated_site_data_artifact.py`) and
**generated test results artifact** (`generated_test_results_artifact.py`).
State: the files of two checkouts and an archive between them; snapshots of the
files being replaced. Operations: pack, restore, verify-restored. *Hard:* files
are replaced one at a time; any call may fail, the process may be interrupted
or killed; others may write the files. *Correct when:* what is packed and what
is verified existed at one moment, and a restore is all or nothing.

**Promotion of package results** (`promote_package_results.py`). State: a staging
directory, the published details and index. Operations: clear, retain previous
rows, take candidates, replace the directory and then the index. *Hard:* an
emitted result is a claim of the job under test; a retained row is judged anew
in every cycle; a crash may fall between the two replacements. *Correct when:*
a row says how its own package's job ended, one failing package does not block
the others without a cause, and a crash never leaves an index beside other rows.

### Tests in batches

**Batch orchestration** (`test-all-packages-orchestrator.yml` with
`orchestration_contract.py`). State: a records file, a manifest, shell variables;
GitHub's workflow runs. Operations: dispatch with a fresh nonce, find the run by
its exact name, wait, dispatch the summary, track it. *Hard:* a dispatch may fail
and still make a run; listings lag; runs are cancelled and run again by people;
a new orchestration cancels the one that runs. *Correct when:* each batch is
one run of this orchestration at this commit, and no summary starts after a
failed batch.

**Global summary** (`test-all-packages-summary.yml`). State: the manifest of its
dispatch, what it has downloaded, its checkouts. Operations: bind its commit,
check each run again, download its attested artifact, assemble candidates and
previous rows; then promote, copy into the checkout, pack, restore in a second
job, verify, and open the draft. *Hard:* it is a chain of programs, each of
which trusts the files the one before has left; main moves meanwhile. *Correct
when:* only results of first attempts of the runs in the manifest are assembled,
and the draft is whole, truthful and never older than what it replaces.

**Aggregation** (`exact_run_aggregation.py`, `README-exact-run-aggregation.md`). State:
a topology, launch records, a manifest, all of one trusted parent; the commands
run one after the other while GitHub's runs and artifacts change. Operations:
discover what a commit executes, select one run, its jobs and its artifact for
each batch, write the manifest, validate all of it and aggregate. Its page says
that nothing in production calls it yet. *Hard:* three reads of GitHub per batch are
three moments; nonces may repeat; runs are run again; caches and stacks of a
recursive walk. *Correct when:* an aggregate rests on the evidence of its own
orchestration alone and says what those jobs concluded.

**Attestation of batch artifacts** (`batch_artifact_attestation.py`). No state between
its two commands but the artifact: a sentinel with digests of the tree and the
identity of the run. *Correct when:* what verifies was made by that run.

**Observations and result policy** (`package_observation.py`, `package_result_policy.py`,
`summary_slug_policy.py`). No state; functions from a package's tests and texts to a
verdict. Four programs judge the same result, each in code of its own. *Correct
when:* they agree, and a package passes only with its required tests.

### Search

**KB client** (`poc/kb_client.py`). State: a slot counter, a closed flag, a lazily
made HTTP client, a thread pool. Operations: fetch with a deadline, the
done-callback, close. *Hard:* a callback runs in whatever thread ends the future;
two locks are taken in different orders; callers give up while workers go on.
*Correct when:* a slot has one owner, the connection is closed after its last
user and not before, and nobody waits for ever.

**HTTP guard** (`poc/http_guard.py`). State: rate windows in the order they were
opened, a slot counter. Operations: check headers, count against the client,
admit, read the body, reply. *Hard:* requests interleave at each await and
leave by a dozen exits, cancellation among them. *Correct when:* each exit
returns its slot, windows bound what a client may send, and a refusal has a cause.

**Search service and catalog** (`poc/search_service.py`, `poc/catalog.py`). State: an
ordered dict of validated responses. Operations: look up, ask, validate, store,
evict. *Hard:* the lock is not held while the provider is asked, so threads
overlap. *Correct when:* only contract-keeping responses are cached, the least
recently used one is evicted, and no answer is older than promised.

**Search application** (`poc/server.py`, `poc/runtime.py`). Startup and shutdown; the
configuration's ranges are the assumptions of the models above.

**Conversational search on the page** (`conversational-search.js`). State: the
current request, its version, a timer, the shown answer. *Hard:* edits, filter
changes and late answers in any order. *Correct when:* a late answer is never
shown, the page waits for one request at most, and what is shown belongs to the
query and the filters that are set.

### The rest

Dashboard table, identity catalog tools, migration audit, workflow linter, KVM
runner actions, bootstrap helpers, generated test workflows, and the Hugo site:
`PROJECT.json` lists each with its reason for being left out, and section 7 sums
them up.

## 2. Modules

One module per component, `X_proofs` for its theorems, `MCX` for the values that
TLC uses. `AdmissionPool` and `FileTransfer` are abstract specifications; two components
implement each. `ResultsPublication` and `BatchEvidence` compose other modules.

| Module | Models | A step is |
|---|---|---|
| `GeneratedDataPublisher` | `generated_data_pr.py` | one remote call with the local work after it |
| `FileTransfer` | what pack, restore and verify of an artifact promise | all files at once, or none |
| `TestResultsArtifact` | `generated_test_results_artifact.py` | one file system operation on one file |
| `SiteDataArtifact` | `generated_site_data_artifact.py` | one file system operation on one file |
| `Promotion` | `promote_package_results.py` | one decision, or one write to the staging directory |
| `ResultsPublication` | the summary from "assemble" to the draft, around the last two kinds | one workflow step, or a step of its command |
| `BatchOrchestrator` | orchestrator and summary workflows, contract | one lookup, dispatch or check |
| `ResultPolicy` | what four programs ask of one result | none: operators |
| `LocalActions` | the aggregation's walk through local actions | one call, or one return |
| `BatchEvidence` | batch runs, attestation, aggregation (over the last two) | one read of GitHub, one validation, one scan step |
| `AdmissionPool` | what a slot counter promises | one admission, release, opening or closing |
| `KBClient` | `kb_client.py` and CPython's executor | what a thread does between two locks or waits |
| `SearchBoundary` | `http_guard.py` | what a request does from one await to the next |
| `SearchService` | `search_service.py`, `catalog.py` | one critical section, or one provider answer |
| `ConversationalSearch` | `conversational-search.js` | one task of the page's event loop |

In every module an operator that a comment calls a wrong variant is used by nothing;
it is the form that a plausible mistake would give the definition after it, kept to
see that a property notices.

### GeneratedDataPublisher

`run[r].pc` is the place in `publish_generated_data`; each value is the remote call
that comes next. `history` is the base branch, `headRef` the automation branch,
`prs` GitHub's records and `listed` what the list endpoint shows. A commit is its
base, its tree, and whether it carries what `_verify_remote_branch_ownership`
wants; a tree maps paths to contents, `Absent` or `Link`. A pull request's title
and body are one value, their author: two people never write the same bytes, and
two runs do only if they publish the same head. Helpers keep the code's names:
`BaseUnchanged`, `Owned`, `SamePR`, `Reusable`, `ExactPR`.

`Start` to `ConfirmFinal` are the run. `Crash` is a job that dies, or a request that
fails with or without having been carried out. `Index` lets the list endpoint
catch up. `People` are eleven actions on the base branch, the automation branch
and the pull requests. The workflows put publishers of one branch in a
concurrency group, so `MaxActive = 1` is what GitHub does; `MaxActive = 2`
asks for more than that.

### TestResultsArtifact and SiteDataArtifact

Both artifacts are three commands over the files of a checkout, and so are the
modules. `proc` is the command that runs: its step, what is left of its loop, its
snapshots. `same` holds the files whose fingerprint is still the snapshot's, so
that a file written and written back is seen. `Raise` is any exception, with the
rollback when the code does one; `Kill` leaves everything as it is. `moment`, `ours`,
`edited`, `committed` and `torn` (and `gone`, or `interrupted`) are history.

The site data has three files that are always there. The results are an index and
as many rows as there are packages: `restore` removes rows the artifact does not
have and adds others, the path set itself is checked again and again
(`Discoverable`, `Stale`, `Recheck`), and the rollback removes *all* rows before it
writes the originals back (`Clear`, `Rewrite`), so that it can fail half-way.
Other untracked files are `strays`; `_discover_paths` refuses a temporary file it
has left itself.

Assumed: every write changes the fingerprint (device, inode, size, times), and the
check of the site data's pending files before each replacement is one step. An
interrupt inside `mkstemp`, between making the file and returning its name, is
left out.

`FileTransfer` is what both promise to whoever runs them. Its commands look at a checkout
(`Look`), and pack, replace and verify *all* files in one step (`Pack`, `Restore`, `Verify`);
a failure (`Fail`) changes no file. `Visible` maps a checkout to it: as long as a restore is
writing and nobody meddles, it counts as it was found, so that the restore happens
at the step after which it can no longer be undone. Three endings break the promise and are
marked as such in the abstract state (`Break`): a kill, a rollback that itself fails and, for
the site data, an interrupt between the first `os.replace` and its flag. Once somebody else
writes during a command, no more is promised of its files than that the archive is right.

### Promotion

A row is who emitted it (`job`, `run`, `batch`), the outcome it claims, its form,
and whether promote has stamped it as published. "strict", "compat" and "broken" are what the
two policies of `validate_persisted_result` tell apart; `ResultPolicy` says what
that form is made of. `staged` is the input (candidates, previous rows, trusted
registrations of both), `stage` the staging directory with the temporary
directory and index beside the published ones. `Decide` is the whole of the
deciding loop, since it touches no file; every write after it is a step, and
`Crash` may come before each. `Start` begins anew after any end.

### ResultsPublication

Extends `TestResultsArtifact` and `Promotion`, and adds the workflow between them:
`cycle` is one summary run with its phase, named for the step that comes next;
`main` has the generated files and the registrations of packages with batches;
`jobs` are GitHub's package jobs, `lost` the runs that were repeated or
deleted, `draft` the pull request. `StartCycle` lets each job conclude as it likes
and emit what it likes: an honest result, a false claim of success, an
old run's, a broken one, another package's, or none. `Assemble` is the staging
step with its two lookups, `Current` (jobs of this run) and `Historic` (jobs of the
runs that published rows name). `DeleteRows`, `CopyRow` and `CopyIndex` are the
shell lines after promotion; `Revalidate`, `Tool`, `SecondJob`, `Restore`,
`VerifyRestored` and `OpenDraft` carry the files to the draft. A `Merge` puts them
on main, from where the next cycle starts. `Maintain` is a commit by people;
commits by people and edits in a runner exclude each other within one behaviour.
`OpenDraft` is one step here; what happens inside it is `GeneratedDataPublisher`.

### BatchOrchestrator

`orch` is the orchestrator's job with its files, `runs` are GitHub's workflow runs
with the inputs of their dispatch; a summary is a run too and its job is `BindBase`,
`CheckRun`, `CheckArtifact`, `DownloadRun`, `FinishSummary`. `Found`, `NotYet` and
`Rejected` are the three outcomes of `select_exact_registration`, `ManifestValid`
and `InputsAgree` are `validate_manifest` and the summary's check of its inputs.
`List` and `FinishBatch` are GitHub; `Push`, `Cancel`, `Rerun`, `DispatchAgain` and
`SummariseAgain` are people, the last with a manifest they may have rewritten. `first`
is how a run's first attempt ended, `results` the attempts whose artifact it lists.

### ResultPolicy

A claim is a result reduced to what the rules look at: the ordinals in the names of
its tests, their statuses, the counters, the regression decision and metadata, the
run status and the badge. `Publishable` is the policy, `Observations` the producer,
`Aggregates` the aggregation, `PromotesStrict` the promotion; each follows the
conditions of its own program.

### LocalActions and BatchEvidence

`LocalActions` walks a tree of composite actions as `_resolve_local_action` does: a stack
of active actions, a cache per workflow, two limits, and Python's sets in any order.
`Reachable` and `Executed` say what the walk should find, without walking.

`BatchEvidence` extends it and `ResultPolicy`. `parent` is the trusted parent with its
phase and the records it has made; `runs` and `artifacts` are GitHub's. `SelectRun`,
`SelectJobs` and `SelectArtifact` are its three reads of one batch, between which
anything may happen; `Decide` is the command "aggregate" after its scan. `Finish` is a
batch run: its jobs report, its summary collects, attests and uploads; `UploadContract` is what
the aggregation demands of those steps. A batch of the legacy collector attests with a
sentinel of version 1, which the summary verifies (`VerifyVersion1`) and the aggregation
refuses, or leaves none; the strict collector of version 2 does not exist in the repository yet and
is modelled from what the aggregation demands of it. A world fixes what one behaviour
is about: the commits, what packages may report, how often people interfere.

### KBClient and AdmissionPool

`caller[c]`, `worker[w]` and `closer` are the program counters; `lock` is
`_lifecycle_lock` where a thread keeps it from one step to the next, and `poolLock`
the executor's lock while `shutdown` cancels what is queued. `fetch` is `Fetch`,
`Submit`, `Register` under the lock, then `Result` or `Expire`, `Cancel` and
`CancelDone`. `RequestDone` is the callback in each of its four threads.
`Holding` maps the client to the pool's `held`.

A caller whose job `close` cancels gets `CancelledError`, which the server
turns into its generic 503; here it is `aborted`. A worker thread that cannot be
started is not modelled.

### SearchBoundary

`stage[r]` is where a request is, `clients` the ordered dict of windows, `admitted`
the local flag that the `finally` block looks at; `counted` is history, the tick at
which a request was counted. `Finish` is that block, from any stage: the reply is
sent, the client is gone, or the task is cancelled. Requests that are no searches
pass by the guard and are left out, as are metrics and logs.

### SearchService

`cache` is the ordered dict. `Hit` and `Miss` are the lookup under the lock, `Store`
the second critical section; between them the provider answers or fails. A hit is
a package id, an edition, and whether the rest of its fields are in scope.
The dict's order is the cache's; `PutLast` is the assignment with `move_to_end`. A
value keeps its packages at the places of their hits in the provider's ranking.
`given` and `used` (the sequence of keys used) are history, for the properties only. Ranking, category and
tested filters, and notices are functions of one response and left out.

### ConversationalSearch

`page` is the closure's state with the input and what the page shows (`shown`: the
arguments the table was last drawn with); `inflight` are the requests that have not
ended, aborted ones among them, since an abort may lose the race with the answer.
`Search`, `Cancel`, `Restored`, `NamesOnly` and `View` are the functions `search`,
`cancelRequest`, `restoreCatalog`, `showNameFallback` and `rowsToHide`. A user
submits, edits, clears, changes filters, follows a refinement or unpins a row; a timer
fires; a request ends. `dropped` is history.

## 3. What each run checks

A run's bounds are in its `.cfg`. Deadlock checking is off where a system may come
to rest: all runs ended, all calls returned, the last tick reached, all bounds used up. The site
data commands can always begin again, so that run checks for deadlock.

| Run | Question | Bounds |
|---|---|---|
| `publisher_races` | Can two runs and people make each other do harm? | 2 runs at once, 2 pull requests, 3 paths, 3 actions of people |
| `publisher_stale_listing` | Is a reported draft consistent, and does each run end, when listings lag and calls are lost? | 2 runs in turn, 6 worktrees, 2 pull requests, 2 faults, 1 action of a person |
| `publisher_reruns` | Does running again repair a broken publication? | 4 runs in turn, an open draft of an older candidate, 1 fault |
| `publisher_refresh` | Does an undisturbed refresh succeed, as a test says? It does not. | 2 runs, no faults, no people |
| `results_publication` | Is what gets published whole, truthful and never older? | main's rows and 2 cycles, 2 packages, 2 batches, 1 edit or 1 change |
| `site_data` | Are packed, verified and restored files together? | 3 files, 2 contents, 2 writes by others, any sequence of commands |
| `orchestrator` | What gets into a summary, and does each wait end? | 2 orchestrations of 2 batches, 4 runs, 1 push, 2 interventions, 3 disturbances in all |
| `evidence` | What does an aggregate rest on, and who agrees on a result? | 2 batches, 2 packages, 3 actions, 4 runs, 2 plans, seven kinds of worlds |
| `kb` | Are slots and the connection owned properly, and does everybody return? | 3 callers, 2 workers, a close that waits or not |
| `search_boundary` | Slots, rates and causes of refusal | 4 requests, 3 clients, 2 tracked, windows of 2 ticks, last tick 3 |
| `search_service` | What may the cache hold, in which order, how old? | 3 searches, 3 keys, 2 entries, 4 ticks |
| `conversational_search` | What does the page show, and what does it wait for? | 6 user events, 2 queries, 4 filter settings |

Type invariants are conjuncts of one named property of each module.

### The properties

* `ReportedHeadIsCandidate`, `HandPushSurvives`, `ClosesOnlySeenDraft`: the
  publisher's safety. They hold for two runs at once, which the concurrency group
  rules out: ownership check, lease and snapshot comparison suffice.
  Two runs and three human actions let a person act before the check, between
  check and push, and after it, while another run does the same; two numbers let
  a person open a second pull request.
* `DraftDescribesItsHead`: with a lagging list endpoint and two faults, a draft
  that was reported carries the text of a run that published its head. Two runs
  let the second find, in a listing that hides it, the draft the first has reported,
  or one whose creation went unanswered; two faults hit both runs or one run twice. Longer
  series of runs are the theorem's (section 5).
* `RunsEnd`: all polling is bounded. One worktree equals the base, so that a run closes an open
  draft and waits for the listing to show it; the listing lags in that wait, in the
  search for a pull request whose creation went unanswered and in the final confirmation; and a
  person may reopen, edit or close the draft or push in any of them. Each loop has two attempts.
* `RerunsHeal`: one fault and one refresh make two failed runs at most before
  one succeeds; four runs leave room for that.
* `ArtifactExact` (what is packed, and what is verified, was there at one moment)
  and `AllOrNothing` for the results; `ArchiveExact` and `AllOrNothing` for the site
  data, and `TransferRefined`, that each step is one of `FileTransfer`. Three files are the site data's own number; two
  writes by others change a file and change it back, or change two. In
  `results_publication` one edit meets every step of all three commands, and the
  set of rows grows or shrinks from one cycle to the next.
* `IndexListsRows`: promotion crashes between any two writes and is called again.
* `RowsTruthful`, `PublishedWhole`, `BlockedWithCause`, `NeverOlder` need two cycles:
  the first publishes what the second retains, while a package moves, goes, or
  is registered, or an old run is repeated. Two packages are one that fails and
  one that it could block, or one whose result names the other. Two batches let a package move.
* `AssembledExact`, `SummaryAfterSuccess`, `SucceededMeansAssembled`: two
  orchestrations leave runs of the first behind at the same commit and of the same
  workflows. Three disturbances are a rerun between registration and download, a
  summary dispatched again with a rewritten manifest, and one more; four runs are two
  batches, a summary, and one that does not belong.
* `EveryWaitBounded`: each step of the orchestrator raises a rank or ends it; that
  every wait ends follows without any fairness but that the job runs.
* `ScansRight`: all trees of three actions, with cycles, diamonds, malformed
  manifests and mutable references, in every order of the walk. Limits of two
  make both of them bite.
* `AggregateTruthful`, `EvidenceBelongs`, `TopologyReviewed`, `HonestAccepted`: people
  rerun and dispatch again, artifacts expire, the parent is started again at
  another commit and given manifests and archives of an earlier orchestration. Two
  interventions are one that leaves evidence behind and one that offers it.
* `ValidatorsAgree`: two baseline tests instead of five, every pattern of statuses, the fair
  claim for each and all claims that differ from a fair one in one field.
* `SlotsCounted` (both modules), `NoUseAfterClose`, `PoolRefined`, `EverybodyReturns`:
  three callers on two workers: two hold slots, running or queued, and the third is refused
  at capacity or admitted once a slot is free, with close at any point. Two slots are what the circle of
  locks needs: `close` cancels the job of one call under the executor's lock and runs a callback
  that wants the lifecycle lock, while another `fetch` has that lock and wants to submit. An
  admission that forgets `_closed` gets stuck there.
* `RateBounded` is the true bound of fixed windows: fewer than twice the limit in any
  window's length of time. The naive bound, the limit itself, is false of such
  windows; only the name of the option, `requests_per_minute`, suggests it.
  `RefusedWithCause` excludes windows that are stale or were wrongly evicted; three
  clients with two tracked reach both causes.
* `CacheSound`, `AnswersRecent`: with two entries and three keys, each store may
  evict; two searches of one key overlap. Four ticks let an entry with a life of two
  expire and be replaced. An entry's age counts from the store, so that an answer may
  be older than its life by the transport's deadline, never more.
* `WaitsForOne`, `ResultsBelong`, `RowsDrawn`, `ComesToRest`: six events are two searches
  with an edit, a filter change, an unpinned row and a refinement between them; two
  answers can be late in either order.

`AllOrNothing` says what the code does, with its exceptions. In both artifacts the checks after
`_restore_payloads` has returned fail without a rollback and leave all of the archive's
files in place. In the site data, an interrupt after the first `os.replace`
and before `replaced = True` leaves that file replaced without a rollback. In the
results, a rollback that fails leaves what it leaves; the verification in the
next job is what stands between that and the draft.

## 4. Fairness

* *Publisher:* `WF(Step(r))` for each run: a job that has started is scheduled
  until it ends, and each remote call returns or fails. `WF(Index(n))`: the list
  endpoint catches up. Nothing is assumed of people, and a run need not start.
* *KB client:* weak fairness for each thread's steps, since threads run, a deadline
  passes and HTTPX bounds a request's phases. That is enough for the steps that wait for a lock, too: the calls are
  finitely many and take each lock finitely often, so that it stays free in the end unless
  somebody holds it for ever. No caller must call and nobody must close. `PoolRefined` shows that this
  implies the pool's own fairness, that whoever was admitted leaves.
* *Conversational search:* `WF(TimerFires)`, since a browser runs its timers, and
  `WF(EndRequest)`, since every request has a timeout of fifteen seconds. The user
  need do nothing.
* *Orchestrator:* none. `EveryWaitBounded` is a rank that each step raises, so that
  only an infinite number of steps would need fairness, and there is none.
* The other modules claim safety only.

## 5. What is proved

TLAPS checks every proof to its leaves, for every value of the constants that
satisfies the named assumptions (`PublisherConstants`, `KBConstants`,
`ServiceConstants`, `BoundaryConstants`, `PageConstants`, `OrchestratorConstants`, `SiteDataConstants` and so on), all of which TLC evaluates.

**`GeneratedDataPublisher_proofs`**: `TypeCorrect`, `ReportsOnlyTheCandidate`,
`HandPushesSurvive`, `ClosesExactly`, `EveryStepAdvances`, for any number of runs, pull requests, paths
and trees, any number of runs at once, and whatever people do. The inductive
invariant `PublisherInv` adds to the types what a run knows at each place: after
`Prepare` its candidate is allowed on its base; once it has verified the branch,
the remote head it remembers is owned; a remembered head to report is the
candidate; whoever is about to close has seen exactly an owned draft. None of that
mentions GitHub's present state, so that the actions of people preserve it for
free; and the two action properties follow, because the lease and the answer to
the close compare that memory with GitHub at the moment of the call.

`EveryStepAdvances` is the part of `RunsEnd` that the prover reaches, for any listing, any people
and any number of attempts: `RunAdvances` says that each step of a run takes it to a later place
(`Stage`) or uses up one of the `MaxPolls` attempts of the place it is in. Hence a run has
at most `20 * MaxPolls` steps. That it takes them at all is the assumption of section 4.

`DraftDescribed` is a theorem under the hypothesis `MaxActive = 1`, which is the
concurrency group of the workflow (`test-all-packages-summary.yml:4-6`). It does need it:
with `MaxActive = 2` and three runs in `PublisherStale.cfg` TLC finds the property violated. Its own invariant, `DraftInv`, speaks of GitHub's present state
as long as nobody has edited by hand: only one run is at work (`OneActive`); a pull request
that does not exist has no head (`UnusedHeadless`); nobody has a commit of a run that has
not pushed, or a text of one that has written none (`NoCommitYet`, `NoTextYet`); while a
run waits, a listing that shows its text shows a head that the draft still has
(`ListedIsCurrent`), so that what it confirms is so (`Confirmed`); and a run that has
reported a head left a draft that fits, or the branch has moved on (`Described`).
The steps are treated in groups: those that only read, writes of the draft, the push, the
index catching up.

`RerunsHealThem` states `RerunsHeal` under three hypotheses, which are what the property is
about: nobody disturbs the repository and its listings (`Undisturbed`), all runs have one
candidate that the base admits (`OneCandidate`), and there are more runs than faults and,
where an earlier draft may be open, two more (`EnoughRuns`). `PublisherReruns.cfg` satisfies
them. It does not hold without: with a lagging listing, or with one run fewer, all runs may
fail. The argument counts. A run that has failed, or is bound to (`Doomed`), has met a fault or
has refreshed a draft of something else (section 6). The refresh leaves the candidate on the
branch, where every later run finds it, so it happens once. Hence `HealInv`:
`Losses` never outnumber the faults by more than that one (`Allowance`), at most one earlier run has
reported another candidate (`OneEarlier`), and what every run remembers of GitHub is still so
(`OnCourse`), since serialized runs are the only ones to change it.

**`SearchBackend_proofs`** is about `KBClient`, then about `SearchService`.

*The client:* `TypeCorrect`, `SlotsAreCounted`, `ConnectionOutlivesRequests`,
and `ImplementsPool`: each step is a step of `AdmissionPool` or a stutter, for any
number of callers and workers. `SlotsCounted` is not inductive: `IInv` adds, for each
call, what its caller's place says of its future and its callback (`CallOK`): only
the holder of the lock is between admission and registration, a callback that has
run belongs to a future that has ended, and a call that its caller is cancelling is
not the one that close has dropped. `ClosingOK` adds that nobody holds the lock once
the client is closed, and `ClosedWithLast` that the connection goes with the last
slot. Each step lemma says that a step keeps `Holding` or changes it by one call;
cardinalities of finite sets do the rest.

*The service:* `CacheIsSound` and `AnswersAreRecent`, for any number of searches, any keys,
catalog and responses, any limit of the cache, lifetime of an entry and deadline above
zero (zero is allowed for the deadline). `ServiceInv` adds to `LastUsedKept` that each entry
is `Backed`, by a response to its key that is valid for its edition and was given at most
a deadline before the entry's time, and that a search is `InTime`: it asked at most a deadline
ago, and what it is about to store was given since. Each use of the cache, a hit, the first store of
a key or another, is brought to one form, `GoesLast`: the new entry comes last, and the others
are old ones in their old order (`Shifted`, which names the place each had), of which
the first alone may be missing, and only when the cache is full. `OrderKept` needs no more
than that. A second store of one key by a slower thread is such a use too.

**`SearchBoundary_proofs`**: `SlotsAreCounted`, `RatesAreBounded`,
`RefusalsHaveACause` and `ImplementsPool`, for any number of requests and clients, any
limits and any length of a window. The invariant says what the ordered dict means:
its windows are of distinct clients, in the order in which they were opened; each
was opened by a request, has counted exactly its client's requests since then, and
before it, within a window's length, its client had fewer than the limit; a client
without a live window has had none for that long. The rate bound is the sum of the last two
facts, and the cause of a refusal is read off the window that refuses, or off the
distinct clients of a full table, which an injection counts.

**`SiteDataArtifact_proofs`**: `TypeCorrect`, `ArchivedAtOneMoment`,
`RestoredAllOrNothing` and `ImplementsTransfer`, for any number of files and of
writes by others. `IInv` has a conjunct for each idea: `Attributed` (which
command can be at which step, and that it has loaded its archive), `Snapshots` (a
file whose fingerprint is still the snapshot's holds the snapshot, and did at the
moment the reads ended), `Replacing` (which files are the archive's at each place
of the loop and of the rollback, whoever writes), `Unedited` (what the whole
checkout holds when nobody else writes), and `Temporary` (where temporary files
may be). The refinement has a lemma for each kind of step: most are stutters, as
the write they make is not visible; the last verification is `Restore`, by what `Unedited` says
of that step, and the last write of a rollback is `Fail`, as it leaves what was there before.

**`BatchOrchestrator_proofs`**: `AssembliesAreExact`, `SummariesComeAfterSuccess`,
`SuccessMeansAssembled` and `WaitsAreBounded`, for any number of batches, polls, runs,
orchestrations and interventions. None of the first three is inductive. `RunsOK` says what a
run carries through its life: its names, commit and manifest never change, and how its first
attempt ended is kept when it is run again (`Kept`, `Evolves`), so that what a summary has found
out about a batch run stays true after the look (`Exact`, `Collecting`). `OrchOK` says what
the orchestrator knows at each step of its script. `Descends` is what ties the summary it tracks
to its own manifest, although somebody may dispatch another summary with the same nonce before
the orchestrator has found its own: such a manifest has no records but those of the
original, and the checks of the inputs let only the original itself through
(`SameManifest`). `WaitsAreBounded` is the arithmetic of `Progress`: each wait is entered with
a higher rank, and each poll raises the number within it.

**`ConversationalSearch_proofs`**: `OneRequestAwaited`, `ResultsAreCurrent` and
`RowsAreDrawn`, for any texts and any number of edits, filter changes and requests in
flight. What makes late answers harmless is `Ordered` (versions tell the requests apart,
and an aborted one is older than the page) with `Awaited` (while the page waits, no timer
runs, and the request it waits for was made for the query and the filters it still shows):
an answer is taken only when its version is the page's, so it is the one awaited.

**`ResultsPublication_proofs`** (about `TestResultsArtifact` in its first part):
`ArtifactsAreExact`, `RestoresAreAllOrNothing`, `IndexesListTheirRows`,
`RowsAreTruthful`, `PublicationsAreWhole`, `BlocksHaveCauses`, `RowsGetNoOlder` and
`ImplementsTransfer`, for any number of packages, batches, cycles, writes by others and changes to what is
registered. The assumptions are `ArtifactConstants`, `PublicationConstants`,
`PackagesArePaths` (the packages are the paths other than the index) and `JunkIsNoRow`.
The invariant is of three parts, each kept by the steps of its own component:

* `ArtifactInv`: which command can be at which step (`Attributed`); a file whose
  fingerprint is still the snapshot's holds the snapshot, and did at the moment the
  reads ended (`Snapshots`); what a command that only reads finds (`Reading`); which
  files a restore has put there and removed, whoever writes (`Restoring`), and what the
  whole checkout holds when nobody else does (`Untouched`); where temporary files may be
  (`Temporary`). It survives every step of a command, an
  error or a kill at any point, and any write by somebody else.
* `StageInv`: what promote has put where, by its program counter: the temporary files
  are a part of `Chosen`, which no step of promote changes.
* `PublicationInv`: a row on main or in the draft is `Recorded` (GitHub's job of that run
  ended as the row says, in the batch it says), and a file on its way through the
  checkout, the snapshots, the artifact and the second checkout `Fits`: it is no row, or a
  recorded one that is not older than the row the cycle began with. `Fits` is kept by
  every copy of a known file, so that nothing need be said of what a restore that failed,
  or was meddled with, leaves behind; without meddling, `Whole` is carried along the same way.

`RowsTruthful` is far from inductive: it needs that the previous rows, the registrations
looked up for them and the candidates are about the same jobs (`Assembled`), that the
jobs which rows name are remembered from one cycle to the next (`Begun`, and what
`StartCycle` keeps of `jobs`), and that the checkout holds promote's choice, row by row,
while the shell copies it (`Copied`). `NeverOlder` follows from `Fits` at the
merge, which demands that main still has the files the draft began with.

`ImplementsTransfer` is `FileTransfer` again, for a set of files that grows and shrinks: the
artifact's commands as the summary runs them, in two checkouts one after the other. Its steps are
`Promised` by `ArtifactInv` and `FlagsOK` (only a restore commits; a rollback that has failed has
ended the command); what the summary itself does to the checkout between commands is `Prepare`.
TLC finds the same on the instance of `ResultsPublication.cfg`, where no run repeats it.

**`BatchEvidence_proofs`** (about `ResultPolicy` and `LocalActions` too): `JudgesAgree`,
`ProducerAgrees`, `EvidenceInvariant`, and from it `DiscoveriesExact`, `AggregatesTruthful`,
`EvidenceOwn`, `TopologiesReviewed`, `ClaimsJudgedAlike`, `HonestEvidenceAccepted`, for any
commits, batches, packages, claims, limits of the walk, people, runs and plans. The
assumptions are `PolicyConstants`, `LocalActionsConstants` (the actions are finitely many, and
the limit of active actions is at most that of known ones, as 64 and 256 are in the code),
`EvidenceConstants` (no workflow is both a batch and a package), `WorldConstants` and
`CommitsAndReports`. The argument has four parts.

* *The judges of a result* are brought to one normal form: for each decision group what
  counters, status, reason and conclusion a claim must have. Two judges then agree because
  their normal forms do.
* *A scan* keeps `ScanInv`, which follows the recursion: what the cache says of an action is
  exactly what can be reached from it, and the cache is closed under use (`CacheOK`); an
  active action has found all of what it has called but for the call under way, and no
  active action comes back in what another uses (`Frames`); so have the workflows that were
  started (`Level`). `ReachableFrom` is the least closed set that holds its roots, so that
  closedness gives one inclusion and leastness the other. A scan that is refused has met
  a cycle, a malformed action or a limit.
* *The history* only grows: `Evolves` says that a run keeps its names, its commit and how its
  first attempt ended, and an artifact its run, attempt, sentinel and files. `EvidenceInv`
  states what the parent has read, what each manifest and aggregate says, and what was
  verified, in terms of that history alone, so that reruns, second dispatches, pushes and
  expiry between two reads keep it. What a manifest says was true when it was
  read; the validation compares it with the values of the launch.
* *Where nobody interferes*, `SoundInv` says that there is nothing to refuse: `Calm` (one run of
  each batch, in its first attempt, at the commit of the plan), `HonestRun` (its jobs, its
  artifact and its conclusion are those its packages reported), `HonestParent` and
  `HonestManifest` (all that was read is that run's). Each condition under which a step may refuse
  is then shown to fail, the limits of the walk among them.

**Model-checked only.** The liveness properties (`RunsEnd`, `EverybodyReturns`,
`ComesToRest`) and the fairness half of the KB client's `PoolRefined`: TLAPS has no rules here
for fairness and `ENABLED`. Every safety property that a passing run checks is the
statement of a theorem. Two more things stay out of the prover's reach on principle: what a
recursive definition computes for every input, because the induction theorems
take an operator as a parameter, and modules with `RECURSIVE` operators; none is used so far.

## 6. Disagreements between code and tests

**A refresh fails after its push** (`publisher_refresh`). After pushing a changed
candidate, `publish_generated_data` lists the open pull request again and demands
that it equal the snapshot taken before the push (`generated_data_pr.py:506`). The
snapshot holds the head's SHA, and GitHub moves the head of an open pull request
with its branch. The run therefore fails unless the listing still lags, having
pushed; a rerun finds the branch as wanted and reports success. The test
`test_reuses_one_branch_and_one_pr_across_reruns` expects `updated`, and passes as
its fake moves the head only in `update_pull_request`. `publisher_reruns` shows
that rerunning heals it, and `RerunsHealThem` proves it.

The following show in the models too, as the reason for an exception in a property
or for one that is not stated.

**A caller alone may be refused.** `future.result` wakes the caller before the worker
runs the done-callback that gives the slot back (`kb_client.py:78-94`). With one slot,
a call right after one that raised may be told that the client is at capacity. Two
tests (`test_kb_client.py:311-347`) make just such calls and expect success; they
rely on the worker winning the race.

**A filter change may be lost.** While a search is pending, a filter change aborts
it and starts a timer (`conversational-search.js:290-312`). An edit before the timer
fires clears it and leaves the empty rows of the search, since nothing is pending
any more; one of the tests (`ui_search.test.cjs:670-686`) expects an edit during a
search to bring the rows back, and makes no filter change before. Unpinning a row
calls `search` with the query already shown (`:223`), which clears the timer and
returns, so that the change of filters has no effect until the next search. `ResultsBelong` and
`RowsDrawn` name this exception: `dropped`.

**Four programs, not quite one policy.** A sixth test called "Regression ..." without
"Test 6" passes the producer, the aggregation and the promotion's own form, but the
policy refuses it; a name that only mentions test 6 passes the policy alone. The aggregation
tolerates regression evidence on a baseline test, which the policy refuses. Meaningful
texts are asked for by the producer and the aggregation only. `ValidatorsAgree`
leaves out those three, and nothing else.

**A verdict that depends on the order of a set.** The walk through local actions caches
what it has resolved, and its depth limit looks at the actions that are active. When there are
more actions than the limit, whether it is met can depend on the order in which
Python iterates over a set of strings. `ScansRight` therefore allows a refusal, and no
wrong answer, above the limits.

## 7. What is not modelled

* *Formats.* Archives (ZIP), manifests, YAML, JSON shapes, messages and logs are reduced to
  what the properties tell apart: valid or not, equal or not, whose. The texts
  that `exact_run_aggregation.py` compares in a summary's steps, triggers and action manifest are
  a few values each: as reviewed, or not (`UploadContract`, `StrictAction`, `StrictInputs`).
* *Timestamps* are the order of attempts; the classifier of Maven packages, which adds
  an exception to the naming of jobs, is left out.
* *Shell.* The collectors' own normalisation of legacy result trees, the two emitting
  actions, and the summary's site build and deployment. KVM runner actions and
  bootstrap helpers call AWS and package managers whose behaviour the repository does not
  define. The generated test workflows install and try one package each.
* *Pure data code.* Catalog compilers and validators, the migration audit and the
  workflow linter are sequential readers of text without state.
* *Presentation.* The Hugo site and the dashboard's table, ranking and notices of search.
* *Between components.* The search application that holds guard, service and client
  together: a search on the thread pool may outlive the lifespan (`server.py:73`).
* *Inside the models.* Real time is ticks or an unordered choice. A remote service
  answers, fails, or does what was asked and loses the answer; partial writes
  inside one call do not occur. In the boundary a request is a search. A draft that
  leaves review between the snapshot and the PATCH is patched all the same
  (`generated_data_pr.py:523`): the request carries no precondition, and no property asks for one.

## 8. Plan

*Done:* `GeneratedDataPublisher`, `AdmissionPool`, `KBClient`, `SearchBoundary`,
`SearchService`, `BatchOrchestrator`, `SiteDataArtifact`; then `TestResultsArtifact`,
`Promotion` and their composition `ResultsPublication`; `ConversationalSearch`;
`ResultPolicy`, `LocalActions` and `BatchEvidence`; `FileTransfer`, implemented by both artifacts.

Next, in the order of what is most important to the system:

1. `SearchServer`: the composition of boundary, service and client with startup
   and shutdown. Property: no search is admitted by the boundary and left
   without an answer when the client closes.
2. The legacy collector's normalisation of result trees, and the strict collector when
   the repository has one.

Theorems: those of the two new modules, that `SearchServer` answers what it has admitted
first.
