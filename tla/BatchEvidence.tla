------------------------------ MODULE BatchEvidence ------------------------------
(***************************************************************************)
(* The evidence of one orchestration, from the batch runs to the aggregate: *)
(* what a batch uploads (batch_artifact_attestation.py writes its sentinel, *)
(* version 1; the strict collector the aggregation waits for, version 2),   *)
(* what the trusted parent reads of the runs, their jobs and artifacts, and *)
(* what exact_run_aggregation.py accepts, while people rerun, dispatch      *)
(* again, push, and edit the checkout.  The summary's check of a version 1  *)
(* artifact is here too.                                                    *)
(*                                                                         *)
(* Batches and packages are workflows; a batch's packages follow it in the  *)
(* order a tree is read in.                                                 *)
(***************************************************************************)
EXTENDS ResultPolicy, LocalActions

CONSTANTS
    Batches, Packages,      \* workflow files test-all-packages-batch<N>.yml and test-*.yml
    Legacy, Strict,         \* the two collector actions
    Prefetching(_),         \* the packages of a batch that are given a prefetch
    Nonces,                 \* dispatch nonces
    Worlds,                 \* what a behaviour takes place in: commits, packages, people
    CommitAt(_, _),         \* what a commit of a world holds
    Reports(_, _),          \* what a package of a world may report
    MaxRuns, MaxPlans       \* bounds of the model

ASSUME EvidenceConstants ==
    /\ Batches \subseteq Nat \ {0} /\ Batches = 1..Cardinality(Batches)
    /\ Batches \cup Packages = Workflows
    /\ {Legacy, Strict} \subseteq Actions
    /\ Batches \cap Packages = {}
    /\ MaxRuns \in Nat /\ MaxPlans \in Nat \ {0}

VARIABLES
    world,          \* one of Worlds
    people,         \* how often people may still interfere
    tip,            \* the head of the branch
    checkout,       \* the parent's checkout: its commit, and the one its files are those of
    plan,           \* the orchestration the parent is launching or collecting
    runs,           \* every batch run there ever was
    artifacts,      \* every artifact
    parent,         \* the parent's progress
    manifests,      \* every manifest written
    aggregates,     \* every aggregate written
    verified        \* version 1 artifacts the summary accepted

vars == <<world, people, tip, checkout, plan, runs, artifacts, parent, manifests, aggregates, verified, scan>>

Shas == 1..2
None == 0
Conclusions == {"success", "failure"}

\* The summary job of a batch: its collector, attester and uploader, the uploader's condition,
\* whether a failure of one is let pass, and whether all else in them is as reviewed.
Summary == [steps : Seq({"collect", "attest", "upload"}), upload : {"always", "attested", "other"},
            lenient : BOOLEAN, reviewed : BOOLEAN]

\* A commit: its workflows and actions, and the package workflows that exist.  Triggers declare
\* the inputs of a launch, or of a prefetch too; "given" are the package jobs that are given
\* inputs; the strict collector's manifest may be the reviewed one.
Commit == [order : Seq(Workflows), uses : [Workflows \cup Actions -> SUBSET Actions],
           external : [Workflows \cup Actions -> SUBSET References],
           malformed : SUBSET Actions, files : SUBSET Packages,
           summary : [Batches -> Summary], strictAction : BOOLEAN,
           triggers : [Batches -> {"launch", "prefetch", "other"}], given : SUBSET Packages]

\* What a package's job gives: its claim, its conclusion, and whether the collector has the
\* result of this run, one an earlier run left, or none.
Report == [claim : Claim, conclusion : Conclusions, source : {"own", "stale", "absent"}]

\* nonces: what the parent may draw; people: how often people interfere
ASSUME WorldConstants ==
    \A w \in Worlds : w.people \in Nat /\ w.nonces \subseteq [Batches -> Nonces]

\* A tree is read batch by batch, and packages report what a job may give.
ASSUME CommitsAndReports ==
    \A w \in Worlds :
      /\ \A s \in Shas : /\ CommitAt(w, s) \in Commit
                         /\ CommitAt(w, s).order # <<>> => CommitAt(w, s).order[1] \in Batches
      /\ \A p \in Packages : Reports(w, p) \subseteq Report

CommitOf(s) == CommitAt(world, s)

-----------------------------------------------------------------------------
\* The topology of a commit (discover_topology, _parse_batch_workflow)

Last(s) == s[Len(s)]
\* The batch at j is the last one before the package at i.
Owns(order, j, i) == j < i /\ \A k \in (j + 1)..i : order[k] \notin Batches
PackagesOf(commit, b) ==
    {p \in Packages : \E i, j \in DOMAIN commit.order :
        commit.order[i] = p /\ commit.order[j] = b /\ Owns(commit.order, j, i)}
BatchesOf(commit) == {b \in Batches : b \in WorkflowsOf(commit)}

\* Batches are numbered from 1, and every package workflow is registered once.
WellRegistered(commit) ==
    /\ BatchesOf(commit) # {} /\ BatchesOf(commit) = 1..Cardinality(BatchesOf(commit))
    /\ \A b \in BatchesOf(commit) : PackagesOf(commit, b) # {}
    /\ Len(commit.order) = Cardinality(WorkflowsOf(commit))
    /\ WorkflowsOf(commit) \cap Packages = commit.files

Collectors == {Legacy, Strict}

\* One step of a batch's summary is a collector, and no other collector is reached from it
\* or from another step.
OneCollector(commit, b) ==
    /\ Cardinality(commit.uses[b] \cap Collectors) = 1
    /\ \A a \in commit.uses[b] : ReachableFrom(commit, {a}) \cap Collectors \subseteq {a}

Attests(commit, b) == \E i \in DOMAIN commit.summary[b].steps : commit.summary[b].steps[i] = "attest"

\* The summary collects, attests if its collector is the legacy one, and then uploads, unless
\* a step before has failed.
UploadContract(commit, b) ==
    LET summary == commit.summary[b] IN
      /\ ~summary.lenient /\ summary.reviewed
      /\ IF Attests(commit, b)
         THEN /\ summary.steps = <<"collect", "attest", "upload">> /\ summary.upload = "attested"
              /\ Legacy \in commit.uses[b]
         ELSE summary.steps = <<"collect", "upload">> /\ summary.upload = "always"

\* _validate_strict_batch_action_contract
StrictAction(commit) == commit.strictAction

\* A batch of the strict collector is launched with exactly the reviewed inputs, and forwards
\* a prefetch to exactly the reviewed package jobs.
StrictInputs(commit, b) ==
    /\ commit.triggers[b] = IF Prefetching(b) = {} THEN "launch" ELSE "prefetch"
    /\ commit.given \cap PackagesOf(commit, b) = Prefetching(b)

TopologyAccepted(commit) ==
    /\ WellRegistered(commit)
    /\ \A b \in BatchesOf(commit) :
         /\ OneCollector(commit, b) /\ UploadContract(commit, b)
         /\ Strict \in commit.uses[b] => StrictAction(commit) /\ StrictInputs(commit, b)

\* topology_payload, once the scan has ended; its digest is taken for the payload itself.
Topology(commit) == [order |-> commit.order, external |-> scan.external, local |-> scan.local]

-----------------------------------------------------------------------------
Content(artifact) == [sentinel |-> artifact.sentinel, files |-> artifact.files]

\* The parent's phases: "topology" and "aggregate" are scans, "launch" to "built" the work
\* between them.  steady: the checkout was left alone during the scan of the working tree.
Idle == [phase |-> "topology", steady |-> TRUE, topology |-> None, records |-> <<>>,
         stage |-> "run", part |-> None, manifest |-> None, archives |-> <<>>]

Init ==
    /\ world \in Worlds /\ people = world.people
    /\ tip = 1 /\ checkout = [sha |-> 1, files |-> 1]
    /\ plan \in [orch : {1}, sha : {1}, nonces : world.nonces]
    /\ runs = <<>> /\ artifacts = <<>>
    /\ parent = Idle
    /\ manifests = {} /\ aggregates = {} /\ verified = {}
    /\ scan = BeginScan(CommitOf(1))

\* The parent gives the orchestration up.
Refuse == parent' = [parent EXCEPT !.phase = "refused"] /\ scan' = NoScan

Outside == UNCHANGED <<world, people, tip, checkout, plan, runs, artifacts>>
Written == UNCHANGED <<manifests, aggregates, verified>>

-----------------------------------------------------------------------------
\* The command "topology": what the working tree holds

Snapshot == CommitOf(plan.sha)
Scanned == IF parent.phase = "topology" THEN CommitOf(checkout.files) ELSE Snapshot

Discover ==
    /\ parent.phase \in {"topology", "aggregate"}
    /\ ScanStep(Scanned)
    /\ Outside /\ Written /\ UNCHANGED parent

KnowTopology ==
    /\ parent.phase = "topology" /\ scan.verdict \in {"found", "refused"}
    /\ IF scan.verdict = "found" /\ TopologyAccepted(Scanned)
       THEN /\ parent' = [parent EXCEPT !.phase = "launch", !.topology = Topology(Scanned)]
            /\ scan' = NoScan
       ELSE Refuse
    /\ Outside /\ Written

-----------------------------------------------------------------------------
\* Batch runs, which GitHub gives the head of the branch.  "done" lists the attempts that have
\* ended, each with the conclusions of its jobs and its own.
Completed(r) == Len(runs[r].done) = runs[r].attempt

PlanBatches == {b \in Batches : \E i \in DOMAIN parent.topology.order : parent.topology.order[i] = b}

\* expected_run_title
Titled(b) ==
    {r \in DOMAIN runs : <<runs[r].batch, runs[r].orch, runs[r].nonce>> = <<b, plan.orch, plan.nonces[b]>>}

Dispatch(b) ==
    /\ Len(runs) < MaxRuns /\ b \in BatchesOf(CommitOf(tip))
    /\ runs' = Append(runs, [batch |-> b, orch |-> plan.orch, nonce |-> plan.nonces[b], sha |-> tip,
                          expected |-> plan.sha, attempt |-> 1, done |-> <<>>])

Launch(b) ==
    /\ parent.phase = "launch" /\ b \in PlanBatches /\ Titled(b) = {}
    /\ \A other \in PlanBatches : other < b => Titled(other) # {}
    /\ Dispatch(b)
    /\ UNCHANGED <<world, people, tip, checkout, plan, artifacts, parent, scan>> /\ Written

\* _validate_result_payload
ResultOf(result, r, attempt) == result.run = r /\ result.attempt = attempt

Registered(r) == PackagesOf(CommitOf(runs[r].sha), runs[r].batch)
\* _validate_tree: nothing but the registered results
ExactTree(r, files) == DOMAIN files = Registered(r)

Version1Context(r) == runs[r].attempt = 1 /\ runs[r].sha = runs[r].expected
\* create_attestation: what a batch of the legacy collector may attest
Attestable(r, files) ==
    /\ Version1Context(r) /\ ExactTree(r, files)
    /\ \A p \in Registered(r) : ResultOf(files[p], r, runs[r].attempt)

Sentinel(r, version, files) ==
    [version |-> version, batch |-> runs[r].batch, orch |-> runs[r].orch, nonce |-> runs[r].nonce,
     sha |-> runs[r].sha, run |-> r, attempt |-> runs[r].attempt, files |-> files]

ResultFrom(report, r) ==
    [claim |-> report.claim, run |-> IF report.source = "own" THEN r ELSE None,
     attempt |-> IF report.source = "own" THEN runs[r].attempt ELSE 1]

\* The packages have run, and the summary job of the batch collects and uploads; it may also
\* fail after the upload.  A batch that attests uploads what it could attest; one that does not
\* leaves no sentinel (None).  The strict collector is not written yet: it is taken to write
\* what the aggregation asks of it.
Finish(r) ==
    LET commit == CommitOf(runs[r].sha)
        collector == CHOOSE a \in commit.uses[runs[r].batch] : a \in Collectors IN
      /\ ~Completed(r)
      /\ \E reports \in [Registered(r) -> UNION {Reports(world, p) : p \in Registered(r)}],
            broken \in IF people > 0 THEN BOOLEAN ELSE {FALSE} :
           LET files == [p \in {p \in Registered(r) : reports[p].source # "absent"} |->
                           ResultFrom(reports[p], r)]
               attests == Attests(commit, runs[r].batch)
               version == IF collector = Strict THEN 2 ELSE IF attests THEN 1 ELSE None
               uploaded == collector = Strict \/ (attests => Attestable(r, files))
               jobs == [p \in Registered(r) |-> reports[p].conclusion]
               green == uploaded /\ ~broken /\ \A p \in Registered(r) : jobs[p] = "success"
           IN /\ \A p \in Registered(r) : reports[p] \in Reports(world, p)
              /\ artifacts' =
                   IF uploaded
                   THEN Append(artifacts, [run |-> r, attempt |-> runs[r].attempt, state |-> "there",
                          sentinel |-> Sentinel(r, version, files), files |-> files])
                   ELSE artifacts
              /\ runs' = [runs EXCEPT ![r].done =
                            Append(@, [jobs |-> jobs, conclusion |-> IF green THEN "success" ELSE "failure"])]
              /\ people' = IF broken THEN people - 1 ELSE people
      /\ UNCHANGED <<world, tip, checkout, plan, parent, scan>> /\ Written

-----------------------------------------------------------------------------
\* People

Interferes ==
    /\ people > 0 /\ people' = people - 1 /\ UNCHANGED world
    /\ Written

Rerun(r) ==
    /\ Interferes /\ Completed(r) /\ runs[r].attempt = 1
    /\ runs' = [runs EXCEPT ![r].attempt = 2]
    /\ \/ UNCHANGED artifacts       \* an earlier artifact stays, or goes with the new attempt
       \/ artifacts' = [i \in DOMAIN artifacts |->
            IF artifacts[i].run = r THEN [artifacts[i] EXCEPT !.state = "gone"] ELSE artifacts[i]]
    /\ UNCHANGED <<tip, checkout, plan, parent, scan>>

DispatchAgain(b) ==
    /\ Interferes /\ Titled(b) # {}
    /\ Dispatch(b)
    /\ UNCHANGED <<tip, checkout, plan, artifacts, parent, scan>>

Expire(i) ==
    /\ Interferes /\ artifacts[i].state = "there"
    /\ artifacts' = [artifacts EXCEPT ![i].state = "expired"]
    /\ UNCHANGED <<tip, checkout, plan, runs, parent, scan>>

Push ==
    /\ Interferes /\ tip = 1 /\ tip' = 2
    /\ UNCHANGED <<checkout, plan, runs, artifacts, parent, scan>>

\* The parent's checkout is edited, put back, or moved to another commit.
TouchCheckout ==
    /\ Interferes
    /\ \E s \in Shas, t \in Shas : checkout' = [sha |-> s, files |-> t]
    /\ checkout' # checkout
    /\ parent' = [parent EXCEPT !.steady = @ /\ parent.phase # "topology"]
    /\ UNCHANGED <<tip, plan, runs, artifacts, scan>>

\* Another orchestration, from a fresh checkout; manifests and archives of the last one stay.
NewPlan ==
    /\ Interferes /\ plan.orch < MaxPlans /\ parent.phase \in {"built", "done", "refused"}
    /\ plan' \in [orch : {plan.orch + 1}, sha : {tip}, nonces : world.nonces]
    /\ checkout' = [sha |-> tip, files |-> tip]
    /\ parent' = Idle /\ scan' = BeginScan(CommitOf(tip))
    /\ UNCHANGED <<tip, runs, artifacts>>

-----------------------------------------------------------------------------
\* The trusted parent collects: for each batch the run, its jobs, its artifact, in three reads.

Current(b) ==
    /\ parent.phase = "launch" /\ b = Len(parent.records) + 1 /\ b \in PlanBatches
    /\ \A c \in PlanBatches : Titled(c) # {}

OriginalAttempt(attempt) == attempt = 1

\* select_exact_workflow_run, validate_workflow_run_api
SelectRun(b) ==
    /\ Current(b) /\ parent.stage = "run"
    /\ \A r \in Titled(b) : runs[r].done # <<>>
    /\ IF \E r \in Titled(b) :
            /\ Titled(b) = {r} /\ Completed(r)
            /\ runs[r].sha = plan.sha /\ OriginalAttempt(runs[r].attempt)
       THEN LET r == CHOOSE r \in Titled(b) : TRUE IN
              /\ parent' = [parent EXCEPT !.stage = "jobs", !.part =
                   [batch |-> b, nonce |-> plan.nonces[b], run |-> r, sha |-> runs[r].sha,
                    attempt |-> runs[r].attempt, conclusion |-> Last(runs[r].done).conclusion,
                    jobs |-> <<>>, artifact |-> None, content |-> None]]
              /\ UNCHANGED scan
       ELSE Refuse
    /\ Outside /\ Written

\* select_exact_jobs, validate_job_api: of the attempt's own jobs, or of the latest ones
SelectJobs(b) ==
    /\ Current(b) /\ parent.stage = "jobs"
    /\ LET r == parent.part.run IN
         \E attempt \in {1, runs[r].attempt} :
           IF attempt = parent.part.attempt /\ attempt <= Len(runs[r].done)
           THEN /\ parent' = [parent EXCEPT !.stage = "artifact", !.part.jobs = runs[r].done[attempt].jobs]
                /\ UNCHANGED scan
           ELSE Refuse
    /\ Outside /\ Written

\* select_exact_artifact: the only one of that name, made while the run was as it was read
SelectArtifact(b) ==
    /\ Current(b) /\ parent.stage = "artifact"
    /\ LET matching == {i \in DOMAIN artifacts : artifacts[i].run = parent.part.run
                                               /\ artifacts[i].state # "gone"} IN
         IF \E i \in matching : /\ matching = {i} /\ artifacts[i].state = "there"
                                /\ artifacts[i].attempt <= parent.part.attempt
         THEN LET i == CHOOSE i \in matching : TRUE IN
                /\ parent' = [parent EXCEPT !.stage = "run", !.part = None, !.records =
                     Append(@, [parent.part EXCEPT !.artifact = i, !.content = Content(artifacts[i])])]
                /\ UNCHANGED scan
         ELSE Refuse
    /\ Outside /\ Written

BuildManifest ==
    /\ parent.phase = "launch" /\ parent.stage = "run" /\ Len(parent.records) = Cardinality(PlanBatches)
    /\ LET manifest == [orch |-> plan.orch, sha |-> plan.sha, topology |-> parent.topology,
                        records |-> parent.records] IN
         /\ parent' = [parent EXCEPT !.phase = "built"]
         /\ manifests' = manifests \cup {manifest}
    /\ Outside /\ UNCHANGED <<aggregates, verified, scan>>

-----------------------------------------------------------------------------
\* The command "aggregate", given a manifest and archives that are there

\* validate_checkout_binding
Bound == checkout.sha = plan.sha /\ checkout.files = plan.sha

Start(m, archives) ==
    /\ parent.phase = "built"
    /\ parent' = [parent EXCEPT !.phase = IF Bound THEN "aggregate" ELSE "refused",
                                !.manifest = m, !.archives = archives]
    /\ scan' = IF Bound THEN BeginScan(Snapshot) ELSE NoScan
    /\ UNCHANGED <<tip, checkout, plan, runs, artifacts>> /\ Written

Aggregate ==
    \E m \in manifests :
      /\ m.orch = plan.orch /\ m.records = parent.records
      /\ Start(m, [b \in DOMAIN m.records |-> m.records[b].artifact])
      /\ UNCHANGED <<world, people>>

\* It is given a manifest of an earlier orchestration, or other archives.
AggregateOther ==
    /\ Interferes
    /\ \E m \in manifests : \E archives \in [DOMAIN m.records -> DOMAIN artifacts] : Start(m, archives)

\* Wrong variant: what the manifest says of its orchestration is believed.
OfThisCommit(m) == m.sha = plan.sha

\* Wrong variant: the digest in the manifest is taken as it is.
PinnedNow(m) == "mutable" \notin scan.external

TopologyMatches(m) == m.topology = Topology(Snapshot) /\ "mutable" \notin scan.external

\* The launch values the manifest is held against, none of them its own
OfThisPlan(m) ==
    /\ m.orch = plan.orch /\ m.sha = plan.sha
    /\ Len(m.records) = Cardinality(BatchesOf(Snapshot))
    /\ \A b, c \in BatchesOf(Snapshot) : b # c => plan.nonces[b] # plan.nonces[c]

\* _validate_manifest_jobs: a job of each package, with an accepted conclusion
JobsValid(record, b) ==
    /\ DOMAIN record.jobs = PackagesOf(Snapshot, b)
    /\ \A p \in DOMAIN record.jobs : record.jobs[p] \in Conclusions

\* _validate_manifest_batch
RecordValid(m, b) ==
    LET record == m.records[b] IN
      /\ record.batch = b /\ record.nonce = plan.nonces[b]
      /\ OriginalAttempt(record.attempt) /\ record.sha = m.sha
      /\ record.conclusion \in Conclusions
      /\ JobsValid(record, b)

\* validate_manifest
ManifestValid(m) ==
    /\ TopologyMatches(m) /\ OfThisPlan(m)
    /\ \A b \in DOMAIN m.records : RecordValid(m, b)
    /\ \A b, c \in DOMAIN m.records : b # c =>
         m.records[b].run # m.records[c].run /\ m.records[b].artifact # m.records[c].artifact

SentinelValid(sentinel, record, m) ==
    /\ sentinel.version = 2
    /\ sentinel.batch = record.batch /\ sentinel.orch = m.orch /\ sentinel.nonce = record.nonce
    /\ sentinel.sha = m.sha /\ sentinel.run = record.run /\ sentinel.attempt = record.attempt

OwnResult(result, record) == result.run = record.run /\ result.attempt = record.attempt

RunStatus(m, archives, b, p) == artifacts[archives[b]].files[p].claim.run

\* Wrong variant: a batch that failed is no evidence.
OnlyGreen(m, archives, b) ==
    DOMAIN artifacts[archives[b]].files = PackagesOf(Snapshot, b) /\ m.records[b].conclusion = "success"

\* The end of _validate_extracted_batch: nothing missing or extra, and the run's conclusion
\* is that of its packages.
ConclusionMatches(m, archives, b) ==
    /\ DOMAIN artifacts[archives[b]].files = PackagesOf(Snapshot, b)
    /\ m.records[b].conclusion =
         IF \E p \in PackagesOf(Snapshot, b) : RunStatus(m, archives, b, p) = "failure"
         THEN "failure" ELSE "success"

\* validate_batch_artifact, _validate_extracted_batch, validate_package_result
BatchValid(m, archives, b) ==
    LET archive == artifacts[archives[b]]
        record == m.records[b] IN
      /\ Content(archive) = record.content
      /\ SentinelValid(archive.sentinel, record, m) /\ archive.sentinel.files = archive.files
      /\ PackagesOf(Snapshot, b) \subseteq DOMAIN archive.files
      /\ \A p \in PackagesOf(Snapshot, b) :
           OwnResult(archive.files[p], record) /\ Aggregates(archive.files[p].claim, record.jobs[p])
      /\ ConclusionMatches(m, archives, b)

\* build_aggregate_attestation
AggregateOf(m, archives) ==
    LET status == [b \in DOMAIN m.records |-> [p \in PackagesOf(Snapshot, b) |->
                     RunStatus(m, archives, b, p)]] IN
      [orch |-> plan.orch, sha |-> m.sha, topology |-> m.topology, status |-> status,
       archives |-> archives, run |-> [b \in DOMAIN m.records |-> m.records[b].run],
       overall |-> IF \E b \in DOMAIN status : \E p \in DOMAIN status[b] : status[b][p] = "failure"
                   THEN "failure" ELSE "success"]

Decide ==
    /\ parent.phase = "aggregate" /\ scan.verdict \in {"found", "refused"}
    /\ LET m == parent.manifest IN
         IF /\ scan.verdict = "found" /\ TopologyAccepted(Snapshot) /\ ManifestValid(m)
            /\ \A b \in DOMAIN m.records : BatchValid(m, parent.archives, b)
         THEN /\ aggregates' = aggregates \cup {AggregateOf(m, parent.archives)}
              /\ parent' = [parent EXCEPT !.phase = "done"] /\ scan' = NoScan
         ELSE Refuse /\ UNCHANGED aggregates
    /\ Outside /\ UNCHANGED <<manifests, verified>>

-----------------------------------------------------------------------------
\* The summary verifies a version 1 artifact of a run the orchestrator registered, against
\* what the orchestrator says of it (verify_attestation).
Verifiable(r, artifact) ==
    /\ Version1Context(r)
    /\ [artifact.sentinel EXCEPT !.files = artifact.files] = Sentinel(r, 1, artifact.files)
    /\ artifact.sentinel.files = artifact.files
    /\ ExactTree(r, artifact.files)
    /\ \A p \in Registered(r) : ResultOf(artifact.files[p], r, 1)

VerifyVersion1(i) ==
    LET r == artifacts[i].run IN
      /\ runs[r].orch = plan.orch /\ runs[r].expected = plan.sha /\ Completed(r)
      /\ artifacts[i].sentinel.version = 1 /\ artifacts[i].state = "there"
      /\ Verifiable(r, artifacts[i])
      /\ verified' = verified \cup {i}
      /\ Outside /\ UNCHANGED <<parent, manifests, aggregates, scan>>

Next ==
    \/ Discover \/ KnowTopology
    \/ \E b \in Batches : Launch(b) \/ DispatchAgain(b)
    \/ \E r \in DOMAIN runs : Finish(r) \/ Rerun(r)
    \/ \E i \in DOMAIN artifacts : Expire(i) \/ VerifyVersion1(i)
    \/ Push \/ TouchCheckout \/ NewPlan
    \/ \E b \in Batches : SelectRun(b) \/ SelectJobs(b) \/ SelectArtifact(b)
    \/ BuildManifest \/ Aggregate \/ AggregateOther \/ Decide

Spec == Init /\ [][Next]_vars

-----------------------------------------------------------------------------
\* Types.
TypeOK ==
    /\ people \in Nat /\ tip \in Shas /\ checkout.sha \in Shas
    /\ plan.nonces \in [Batches -> Nonces] /\ plan.orch \in 1..MaxPlans /\ plan.sha \in Shas
    /\ Len(runs) <= MaxRuns
    /\ \A r \in DOMAIN runs : runs[r].batch \in Batches /\ runs[r].attempt \in 1..2
         /\ Len(runs[r].done) \in {runs[r].attempt - 1, runs[r].attempt}
    /\ \A i \in DOMAIN artifacts : artifacts[i].run \in DOMAIN runs
         /\ artifacts[i].state \in {"there", "expired", "gone"}
    /\ parent.phase \in {"topology", "launch", "built", "aggregate", "done", "refused"}
    /\ verified \subseteq DOMAIN artifacts
    /\ ScanTypeOK

\* Both commands' scans find exactly what they should, if nobody edits the checkout under the
\* first (exact_run_aggregation.py:2276-2298, 2389-2447).
ScansExact == parent.phase = "aggregate" \/ parent.steady => ScanExact(Scanned)
RefusalsJustified == parent.phase = "aggregate" \/ parent.steady => RefusalJustified(Scanned)

\* All is well typed, and a scan finds what it should and refuses with a cause, whatever its
\* cache held and in whichever order it took the set of the actions.
ScansRight == TypeOK /\ ScansExact /\ RefusalsJustified

\* An aggregate gives every package of its commit the conclusion that the package's own job
\* had in the original attempt of the batch's run, and fails if and only if the original attempt
\* of one of the runs did (exact_run_aggregation.py:1129-1287, 1519-1637).
AggregateTruthful ==
    \A g \in aggregates :
      /\ UNION {DOMAIN g.status[b] : b \in DOMAIN g.status} = CommitOf(g.sha).files
      /\ \A b \in DOMAIN g.status : \A p \in DOMAIN g.status[b] :
           g.status[b][p] = runs[g.run[b]].done[1].jobs[p]
      /\ g.overall = "failure" <=>
           \E b \in DOMAIN g.status : runs[g.run[b]].done[1].conclusion = "failure"

\* What an aggregate rests on was made for its own orchestration: by one run of each batch, at
\* its commit and in the original attempt, each result by that very run; nothing an earlier
\* run, dispatch or orchestration left (README-exact-run-aggregation.md, Trust boundary).
EvidenceOfThisPlan ==
    \A g \in aggregates : \A b \in DOMAIN g.run :
      LET r == g.run[b]
          archive == artifacts[g.archives[b]] IN
        /\ runs[r].batch = b /\ runs[r].orch = g.orch /\ runs[r].sha = g.sha
        /\ archive.run = r /\ archive.attempt = 1
        /\ \A p \in DOMAIN g.status[b] : archive.files[p].run = r /\ archive.files[p].attempt = 1

\* The topology an aggregate was accepted under is that of its commit, whatever the checkout
\* held meanwhile, nothing in it may change under its name, and each batch reaches exactly one
\* collector (exact_run_aggregation.py:387-526, 937-975).
TopologyReviewed ==
    \A g \in aggregates :
      LET commit == CommitOf(g.sha) IN
        /\ g.topology = [order |-> commit.order, external |-> Executed(commit), local |-> Reachable(commit)]
        /\ "mutable" \notin Executed(commit)
        /\ \A b \in BatchesOf(commit) :
             Cardinality(ReachableFrom(commit, commit.uses[b]) \cap Collectors) = 1

\* Where nobody interferes, an orchestration of sound commits and packages whose results the
\* policy publishes is not refused, whether or not its packages pass: an honest failure is
\* evidence (README-exact-run-aggregation.md, Package truth model).
SoundCommit(commit) ==
    /\ TopologyAccepted(commit) /\ ~Cyclic(commit) /\ Reachable(commit) \cap commit.malformed = {}
    /\ "mutable" \notin Executed(commit) /\ Legacy \notin Reachable(commit)
    /\ Cardinality(Reachable(commit)) <= MaxActive
Honest(report) ==
    /\ report.source = "own" /\ report.conclusion = report.claim.run
    /\ Publishable(report.claim) /\ report.claim.told /\ report.claim.sixthName # "mention"
HonestAccepted ==
    world.people = 0 /\ parent.phase = "refused" =>
        \/ ~SoundCommit(CommitOf(1))
        \/ \E b, c \in Batches : b # c /\ plan.nonces[b] = plan.nonces[c]
        \/ \E p \in Packages : \E report \in Reports(world, p) : ~Honest(report)

\* The programs that judge a result agree on every claim a package makes: what the aggregation
\* accepts is what the promotion accepts, and what the producer makes of an observation passes
\* both, but for the sixth test's other names, its texts and stray evidence, where the
\* documentation has them differ.
ValidatorsAgree ==
    artifacts # <<>> =>
      \A p \in DOMAIN Last(artifacts).files :
        LET c == Last(artifacts).files[p].claim IN
          /\ c.told /\ ~c.stray /\ c.sixthName \in {"test6", "applicability"} =>
               \A k \in Conclusions : Aggregates(c, k) <=> PromotesStrict(c, k)
          /\ c.sixthName # "regression" =>
               \A o \in Observations(c) : Aggregates(Bind(o), o.run) /\ PromotesStrict(Bind(o), o.run)

\* A version 1 artifact the summary accepts holds a result of every package the batch
\* registers, each made by that run in its original attempt, at the commit the orchestrator
\* named (batch_artifact_attestation.py:182-303).
VerifiedBelongs ==
    \A i \in verified :
      LET r == artifacts[i].run IN
        /\ runs[r].sha = runs[r].expected /\ artifacts[i].attempt = 1
        /\ \A p \in Registered(r) : artifacts[i].files[p].run = r /\ artifacts[i].files[p].attempt = 1

\* Both: neither an aggregate nor the summary ever rests on another run, attempt, commit or
\* orchestration than its own.
EvidenceBelongs == EvidenceOfThisPlan /\ VerifiedBelongs
=============================================================================
