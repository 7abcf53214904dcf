------------------------ MODULE BatchOrchestrator_proofs ------------------------
(***************************************************************************)
(* Proofs about BatchOrchestrator, for every number of batches, of polls, of *)
(* runs, of orchestrations and of disturbances.                              *)
(*                                                                         *)
(* RunsInv says what each workflow run carries from its dispatch to its end, *)
(* OrchInv what the orchestrator knows at each step of its script, and       *)
(* Descends that a summary of the orchestrator's last nonce has no records   *)
(* but those of its manifest.                                                *)
(***************************************************************************)
EXTENDS BatchOrchestrator, TLAPS

-----------------------------------------------------------------------------
\* How the first attempt ended is kept; only a summary has a stage, and one that has
\* succeeded has assembled what it names.
Kept(run) ==
    /\ run.attempt = 1 => run.first = IF run.status = "running" THEN "none" ELSE run.status
    /\ run.workflow # Summary => run.stage = "none"
    /\ run.workflow = Summary /\ run.status = "success" => run.stage = "assembled"
    /\ run.workflow = Summary => run.manifest.id # 0
    /\ run.stage = "bind" => run.batch = 1 /\ run.collected = <<>>

Bounded(run, nonce, meddling) == run.attempt <= meddling + 1 /\ run.nonce <= nonce

\* The record's run exists, and its first attempt succeeded.
Succeeded(rs, record) == record.run \in DOMAIN rs /\ rs[record.run].first = "success"

\* The run of the b-th record is of that batch and of the summary's orchestration and commit,
\* and its first attempt came to its end.
Exact(rs, run, b) ==
    LET r == run.manifest.batches[b].run IN
      /\ r \in DOMAIN rs
      /\ rs[r].workflow = b /\ rs[r].id = run.id /\ rs[r].sha = run.sha
      /\ rs[r].first \in {"success", "failure"}

\* A summary past its binding has consistent inputs, and what it has collected is exact.
Bound == {"check", "artifact", "download", "assembled"}
Collecting(rs, run) ==
    run.stage \in Bound =>
      /\ run.sha = run.expected
      /\ InputsAgree(run.manifest, run.id, run.expected)
      /\ Len(run.collected) = run.batch - 1
      /\ ~run.missing => \A b \in 1..run.batch - 1 : Exact(rs, run, b) /\ run.collected[b] = 1
      /\ run.stage # "assembled" => run.batch \in Batches
      /\ run.stage \in {"artifact", "download"} => Exact(rs, run, run.batch)
      /\ run.stage = "assembled" => run.batch = BatchCount + 1 /\ ~run.missing

AllSucceeded(rs, m) == \A i \in DOMAIN m.batches : Succeeded(rs, m.batches[i])
FromSuccess(rs, run) == run.workflow = Summary => AllSucceeded(rs, run.manifest)

RunOK(rs, nonce, meddling, run) ==
    Kept(run) /\ Bounded(run, nonce, meddling) /\ Collecting(rs, run) /\ FromSuccess(rs, run)

RunsOK(rs, nonce, meddling) ==
    /\ rs \in Seq(Run) /\ Len(rs) <= MaxRuns
    /\ \A r \in DOMAIN rs : RunOK(rs, nonce, meddling, rs[r])

WithManifest == {"wait", "recheck", "dispatchSummary", "registerSummary", "track"}

\* What the orchestrator o knows at each step
OrchOK(rs, nonce, o) ==
    /\ o \in Orchestrator
    /\ o.nonce <= nonce
    /\ o.id = 0 => o.step = "idle" /\ rs = <<>>
    /\ o.step = "bind" => o.batch = 1 /\ o.records = <<>>
    /\ o.step = "dispatch" => Len(o.records) = o.batch - 1
    /\ o.step = "register" => Len(o.records) = o.batch
    /\ o.step \in {"dispatch", "register"} =>
         \A i \in DOMAIN o.records : o.records[i].run # 0 => o.records[i].run \in DOMAIN rs
    /\ o.step \in WithManifest =>
         /\ InputsAgree(o.manifest, o.id, o.sha)
         /\ \A b \in Batches : o.manifest.batches[b].run \in DOMAIN rs
    /\ o.step = "wait" /\ ~o.failed =>
         \A b \in 1..o.batch - 1 : Succeeded(rs, o.manifest.batches[b])
    /\ o.step \in WithManifest \ {"wait"} => AllSucceeded(rs, o.manifest)
    /\ o.step = "track" =>
         /\ o.run \in DOMAIN rs
         /\ rs[o.run].workflow = Summary /\ rs[o.run].id = o.id
         /\ rs[o.run].nonce = o.nonce /\ rs[o.run].sha = o.sha

\* A summary of the orchestrator's last nonce has the records of its manifest, or some.
Descended(o, run) ==
    o.step \in {"registerSummary", "track"} /\ run.workflow = Summary /\ run.nonce = o.nonce =>
      \A i \in DOMAIN run.manifest.batches :
        \E b \in Batches : run.manifest.batches[i] = o.manifest.batches[b]
Descends(rs, o) == \A s \in DOMAIN rs : Descended(o, rs[s])

IInv ==
    /\ head \in 0..MaxPushes /\ nonces \in Nat /\ meddled \in 0..MaxMeddling
    /\ RunsOK(runs, nonces, meddled) /\ OrchOK(runs, nonces, orch) /\ Descends(runs, orch)

-----------------------------------------------------------------------------
\* The constants
LEMMA Consts == /\ BatchCount \in Nat /\ BatchCount > 0 /\ MaxPolls \in Nat /\ MaxPolls > 0
                /\ MaxFailures \in Nat /\ MaxFailures > 0 /\ MaxRuns \in Nat
                /\ MaxOrchestrations \in Nat /\ MaxPushes \in Nat /\ MaxMeddling \in Nat
BY OrchestratorConstants

\* What never changes of a run, whatever is done with it
Evolves(old, new) ==
    /\ new.workflow = old.workflow /\ new.id = old.id /\ new.nonce = old.nonce
    /\ new.expected = old.expected /\ new.manifest = old.manifest /\ new.sha = old.sha
    /\ old.first \in Finished => new.first = old.first

Grown(rs, ts) ==
    /\ DOMAIN rs \subseteq DOMAIN ts
    /\ \A r \in DOMAIN rs : Evolves(rs[r], ts[r])

\* What is known of a run stays known when the others evolve.
LEMMA GrownKeeps ==
  ASSUME NEW rs, NEW ts, Grown(rs, ts)
  PROVE  /\ \A record : Succeeded(rs, record) => Succeeded(ts, record)
         /\ \A run, b : Exact(rs, run, b) => Exact(ts, run, b)
         /\ \A run : Collecting(rs, run) => Collecting(ts, run)
         /\ \A m : AllSucceeded(rs, m) => AllSucceeded(ts, m)
         /\ \A run : FromSuccess(rs, run) => FromSuccess(ts, run)
<1>1. \A record : Succeeded(rs, record) => Succeeded(ts, record)
  BY DEF Grown, Evolves, Succeeded, Finished
<1>2. \A run, b : Exact(rs, run, b) => Exact(ts, run, b)
  BY DEF Grown, Evolves, Exact, Finished
<1>3. \A run : Collecting(rs, run) => Collecting(ts, run)
  BY <1>2 DEF Collecting
<1>4. \A m : AllSucceeded(rs, m) => AllSucceeded(ts, m)
  BY <1>1 DEF AllSucceeded
<1> QED
  BY <1>1, <1>2, <1>3, <1>4 DEF FromSuccess

\* A later nonce and more meddling bound what the earlier ones do.
LEMMA RunOKGrows ==
  ASSUME NEW rs, NEW ts, Grown(rs, ts),
         NEW n \in Nat, NEW k \in Nat, NEW n2 \in Nat, NEW k2 \in Nat, n <= n2, k <= k2,
         NEW run \in Run, RunOK(rs, n, k, run)
  PROVE  RunOK(ts, n2, k2, run)
<1>1. Bounded(run, n2, k2)
  BY Consts DEF RunOK, Bounded, Run, Attempts
<1> QED
  BY <1>1, GrownKeeps DEF RunOK

\* One run changes.
LEMMA SetRunsOK ==
  ASSUME NEW rs, NEW n \in Nat, NEW k \in Nat, NEW n2 \in Nat, NEW k2 \in Nat, n <= n2, k <= k2,
         RunsOK(rs, n, k),
         NEW s \in DOMAIN rs, NEW run \in Run, Evolves(rs[s], run), RunOK(rs, n2, k2, run)
  PROVE  /\ RunsOK([rs EXCEPT ![s] = run], n2, k2)
         /\ Grown(rs, [rs EXCEPT ![s] = run])
         /\ DOMAIN [rs EXCEPT ![s] = run] = DOMAIN rs
<1> DEFINE ts == [rs EXCEPT ![s] = run]
<1>1. rs \in Seq(Run) /\ Len(rs) <= MaxRuns
  BY DEF RunsOK
<1>2. ts \in Seq(Run) /\ Len(ts) = Len(rs) /\ DOMAIN ts = DOMAIN rs
  BY <1>1
<1>3. \A r \in DOMAIN rs : ts[r] = IF r = s THEN run ELSE rs[r]
  BY <1>1
<1> HIDE DEF ts
<1>4. Grown(rs, ts)
  <2>1. \A r \in DOMAIN rs : Evolves(rs[r], rs[r])
    BY DEF Evolves
  <2> QED
    BY <1>2, <1>3, <2>1 DEF Grown
<1>5. ASSUME NEW r \in DOMAIN ts PROVE RunOK(ts, n2, k2, ts[r])
  <2>1. CASE r = s
    <3>1. n2 <= n2 /\ k2 <= k2
      OBVIOUS
    <3>2. RunOK(ts, n2, k2, run)
      BY <1>4, <3>1, RunOKGrows
    <3> QED
      BY <3>2, <2>1, <1>2, <1>3
  <2>2. CASE r # s
    <3>1. rs[r] \in Run /\ RunOK(rs, n, k, rs[r]) /\ ts[r] = rs[r]
      BY <1>1, <1>2, <1>3, <2>2 DEF RunsOK
    <3>2. RunOK(ts, n2, k2, rs[r])
      BY <1>4, <3>1, RunOKGrows
    <3> QED
      BY <3>1, <3>2
  <2> QED
    BY <2>1, <2>2
<1> QED
  BY <1>1, <1>2, <1>4, <1>5 DEF RunsOK, ts

\* One run more
LEMMA AppendRunsOK ==
  ASSUME NEW rs, NEW n \in Nat, NEW k \in Nat, NEW n2 \in Nat, NEW k2 \in Nat, n <= n2, k <= k2,
         RunsOK(rs, n, k), Len(rs) < MaxRuns, NEW run \in Run, RunOK(rs, n2, k2, run)
  PROVE  /\ RunsOK(Append(rs, run), n2, k2)
         /\ Grown(rs, Append(rs, run))
         /\ DOMAIN Append(rs, run) = DOMAIN rs \cup {Len(rs) + 1}
         /\ Append(rs, run)[Len(rs) + 1] = run
         /\ \A r \in DOMAIN rs : Append(rs, run)[r] = rs[r]
<1> DEFINE ts == Append(rs, run)
<1>1. rs \in Seq(Run) /\ Len(rs) <= MaxRuns /\ Len(rs) \in Nat
  BY DEF RunsOK
<1>2. ts \in Seq(Run) /\ Len(ts) = Len(rs) + 1 /\ DOMAIN ts = DOMAIN rs \cup {Len(rs) + 1}
  BY <1>1
<1>3. ts[Len(rs) + 1] = run /\ \A r \in DOMAIN rs : ts[r] = rs[r]
  BY <1>1
<1> HIDE DEF ts
<1>4. Grown(rs, ts)
  <2>1. \A r \in DOMAIN rs : Evolves(rs[r], rs[r])
    BY DEF Evolves
  <2> QED
    BY <1>2, <1>3, <2>1 DEF Grown
<1>5. ASSUME NEW r \in DOMAIN ts PROVE RunOK(ts, n2, k2, ts[r])
  <2>1. CASE r = Len(rs) + 1
    <3>1. n2 <= n2 /\ k2 <= k2
      OBVIOUS
    <3>2. RunOK(ts, n2, k2, run)
      BY <1>4, <3>1, RunOKGrows
    <3> QED
      BY <3>2, <2>1, <1>3
  <2>2. CASE r # Len(rs) + 1
    <3>1. r \in DOMAIN rs
      BY <1>2, <2>2
    <3>2. rs[r] \in Run /\ RunOK(rs, n, k, rs[r]) /\ ts[r] = rs[r]
      BY <1>1, <1>3, <3>1 DEF RunsOK
    <3>3. RunOK(ts, n2, k2, rs[r])
      BY <1>4, <3>2, RunOKGrows
    <3> QED
      BY <3>2, <3>3
  <2> QED
    BY <2>1, <2>2
<1>6. Len(ts) <= MaxRuns
  BY <1>1, <1>2, Consts
<1> QED
  BY <1>2, <1>3, <1>4, <1>5, <1>6 DEF RunsOK, ts

\* What the orchestrator knows stays known when the runs evolve.
LEMMA OrchOKGrows ==
  ASSUME NEW rs, NEW ts, Grown(rs, ts),
         NEW n \in Nat, NEW n2 \in Nat, n <= n2,
         NEW o, OrchOK(rs, n, o), rs # <<>> \/ ts = rs \/ o.id # 0
  PROVE  OrchOK(ts, n2, o)
<1>1. o \in Orchestrator /\ o.nonce \in Nat /\ o.nonce <= n2
  BY DEF OrchOK, Orchestrator
<1>2. DOMAIN rs \subseteq DOMAIN ts
  BY DEF Grown
<1>3. o.id = 0 => o.step = "idle" /\ ts = <<>>
  BY DEF OrchOK
<1>4. o.step = "wait" /\ ~o.failed => \A b \in 1..o.batch - 1 : Succeeded(ts, o.manifest.batches[b])
  BY GrownKeeps DEF OrchOK
<1>5. o.step \in WithManifest \ {"wait"} => AllSucceeded(ts, o.manifest)
  BY GrownKeeps DEF OrchOK
<1>6. o.step = "track" =>
         /\ o.run \in DOMAIN ts
         /\ ts[o.run].workflow = Summary /\ ts[o.run].id = o.id
         /\ ts[o.run].nonce = o.nonce /\ ts[o.run].sha = o.sha
  BY DEF OrchOK, Grown, Evolves
<1> QED
  BY <1>1, <1>2, <1>3, <1>4, <1>5, <1>6 DEF OrchOK

-----------------------------------------------------------------------------
\* The records of a manifest, and what the inputs of a summary agree on
LEMMA AgreedInputs ==
  ASSUME NEW m \in Manifest, NEW id, NEW sha, InputsAgree(m, id, sha)
  PROVE  /\ m.id = id /\ m.expected = sha
         /\ Len(m.batches) = BatchCount /\ DOMAIN m.batches = Batches
         /\ \A b \in Batches : /\ m.batches[b] \in Record /\ m.batches[b].batch = b
                               /\ m.batches[b].run # 0
BY Consts DEF InputsAgree, ManifestValid, RecordOf, Manifest, Batches

LEMMA FreshOK ==
  ASSUME NEW run \in Run
  PROVE  /\ Fresh(run) \in Run
         /\ Fresh(run).workflow = run.workflow /\ Fresh(run).id = run.id
         /\ Fresh(run).nonce = run.nonce /\ Fresh(run).expected = run.expected
         /\ Fresh(run).manifest = run.manifest /\ Fresh(run).sha = run.sha
         /\ Fresh(run).status = run.status /\ Fresh(run).attempt = run.attempt
         /\ Fresh(run).first = run.first /\ Fresh(run).results = run.results
         /\ Fresh(run).listed = run.listed
         /\ Fresh(run).stage = IF run.workflow = Summary THEN "bind" ELSE "none"
         /\ Fresh(run).batch = 1 /\ Fresh(run).collected = <<>>
<1>1. (IF run.workflow = Summary THEN "bind" ELSE "none") \in Stages
  BY DEF Stages
<1>2. 1 \in 1..BatchCount + 1 /\ <<>> \in Seq(Nat)
  BY Consts
<1> QED
  BY <1>1, <1>2 DEF Fresh, Run

LEMMA MarkedOK ==
  ASSUME NEW run \in Run, NEW status \in Finished
  PROVE  /\ Marked(run, status) \in Run
         /\ Marked(run, status).workflow = run.workflow /\ Marked(run, status).id = run.id
         /\ Marked(run, status).nonce = run.nonce /\ Marked(run, status).expected = run.expected
         /\ Marked(run, status).manifest = run.manifest /\ Marked(run, status).sha = run.sha
         /\ Marked(run, status).status = status /\ Marked(run, status).attempt = run.attempt
         /\ Marked(run, status).first = IF run.attempt = 1 THEN status ELSE run.first
         /\ Marked(run, status).results = run.results /\ Marked(run, status).listed = run.listed
         /\ Marked(run, status).stage = run.stage /\ Marked(run, status).batch = run.batch
         /\ Marked(run, status).missing = run.missing
         /\ Marked(run, status).collected = run.collected
BY DEF Marked, Run

\* A running run comes to its end: only with success is what it has collected kept.
LEMMA EndingOK ==
  ASSUME NEW rs, NEW n \in Nat, NEW k \in Nat, NEW run \in Run, NEW status \in Finished,
         Kept(run), Bounded(run, n, k), FromSuccess(rs, run), run.status = "running",
         status = "success" =>
           Collecting(rs, run) /\ (run.workflow = Summary => run.stage = "assembled")
  PROVE  /\ Ending(run, status) \in Run /\ Evolves(run, Ending(run, status))
         /\ RunOK(rs, n, k, Ending(run, status))
<1> DEFINE m == Marked(run, status)
<1> DEFINE e == Ending(run, status)
<1>1. m \in Run /\ Fresh(m) \in Run
  BY MarkedOK, FreshOK
<1>2. run.first \in Finished => run.attempt # 1
  BY DEF Kept, Finished
<1>3. CASE status = "success"
  <2>1. e = m
    BY <1>3 DEF Ending
  <2>2. Evolves(run, m)
    BY <1>2, MarkedOK DEF Evolves
  <2>3. Kept(m)
    BY <1>3, MarkedOK DEF Kept, Finished
  <2>4. Bounded(m, n, k)
    BY MarkedOK DEF Bounded
  <2>5. Collecting(rs, m)
    <3>1. Collecting(rs, run) /\ \A b : Exact(rs, run, b) => Exact(rs, m, b)
      BY <1>3, MarkedOK DEF Exact
    <3>2. /\ m.stage = run.stage /\ m.sha = run.sha /\ m.expected = run.expected
          /\ m.manifest = run.manifest /\ m.id = run.id /\ m.collected = run.collected
          /\ m.batch = run.batch /\ m.missing = run.missing
      BY MarkedOK
    <3> QED
      BY <3>1, <3>2 DEF Collecting
  <2>6. FromSuccess(rs, m)
    BY MarkedOK DEF FromSuccess
  <2> QED
    BY <1>1, <2>1, <2>2, <2>3, <2>4, <2>5, <2>6 DEF RunOK
<1>4. CASE status # "success"
  <2>1. e = Fresh(m)
    BY <1>4 DEF Ending
  <2>2. Evolves(run, e)
    BY <1>1, <1>2, <2>1, MarkedOK, FreshOK DEF Evolves
  <2>3. Kept(e)
    BY <1>1, <1>4, <2>1, MarkedOK, FreshOK DEF Kept, Finished
  <2>4. Bounded(e, n, k)
    BY <1>1, <2>1, MarkedOK, FreshOK DEF Bounded
  <2>5. Collecting(rs, e)
    BY <1>1, <2>1, FreshOK DEF Collecting, Bound
  <2>6. FromSuccess(rs, e)
    BY <1>1, <2>1, MarkedOK, FreshOK DEF FromSuccess
  <2> QED
    BY <1>1, <2>1, <2>2, <2>3, <2>4, <2>5, <2>6 DEF RunOK
<1> QED
  BY <1>3, <1>4

\* A run whose stage, progress, listing or results alone have changed
SameButProgress(old, new) ==
    /\ new.workflow = old.workflow /\ new.id = old.id /\ new.nonce = old.nonce
    /\ new.expected = old.expected /\ new.manifest = old.manifest /\ new.sha = old.sha
    /\ new.status = old.status /\ new.attempt = old.attempt /\ new.first = old.first

LEMMA ProgressOK ==
  ASSUME NEW rs, NEW n \in Nat, NEW k \in Nat, NEW old \in Run, RunOK(rs, n, k, old),
         NEW new \in Run, SameButProgress(old, new), Collecting(rs, new),
         \/ /\ new.stage = old.stage /\ new.batch = old.batch
            /\ new.collected = old.collected
         \/ old.workflow = Summary /\ old.status # "success" /\ new.stage # "bind"
  PROVE  Evolves(old, new) /\ RunOK(rs, n, k, new)
<1>1. Evolves(old, new)
  BY DEF Evolves, SameButProgress
<1>2. Kept(new)
  BY DEF RunOK, Kept, SameButProgress
<1>3. Bounded(new, n, k)
  BY DEF RunOK, Bounded, SameButProgress
<1>4. FromSuccess(rs, new)
  BY DEF RunOK, FromSuccess, SameButProgress
<1> QED
  BY <1>1, <1>2, <1>3, <1>4 DEF RunOK

\* On to the next batch: what is collected stays exact unless a batch is missing.
LEMMA NextBatchOK ==
  ASSUME NEW rs, NEW n \in Nat, NEW k \in Nat, NEW old \in Run, RunOK(rs, n, k, old),
         old.status = "running", old.stage \in {"check", "artifact", "download"},
         NEW got \in Nat, NEW run \in Run, SameButProgress(old, run),
         run.stage = old.stage, run.batch = old.batch,
         run.collected = Append(old.collected, got),
         ~run.missing => ~old.missing /\ got = 1 /\ Exact(rs, old, old.batch)
  PROVE  /\ NextBatch(run) \in Run /\ Evolves(old, NextBatch(run))
         /\ RunOK(rs, n, k, NextBatch(run))
<1>1. /\ old.workflow = Summary /\ old.batch \in Batches /\ old.batch \in Nat
      /\ old.collected \in Seq(Nat) /\ Collecting(rs, old) /\ old.stage \in Bound
  <2>1. old.stage \in Bound /\ old.stage # "assembled" /\ old.stage # "none"
    BY DEF Bound
  <2>2. Collecting(rs, old) /\ Kept(old)
    BY DEF RunOK
  <2>3. old.batch \in Batches
    BY <2>1, <2>2 DEF Collecting
  <2>4. old.collected \in Seq(Nat) /\ old.batch \in Nat
    <3>1. old.collected \in Seq(Nat)
      BY DEF Run
    <3> QED
      BY <2>3, <3>1, Consts DEF Batches
  <2> QED
    BY <2>1, <2>2, <2>3, <2>4 DEF Kept
<1>2. /\ old.sha = old.expected /\ InputsAgree(old.manifest, old.id, old.expected)
      /\ Len(old.collected) = old.batch - 1
      /\ ~old.missing => \A b \in 1..old.batch - 1 : Exact(rs, old, b) /\ old.collected[b] = 1
  BY <1>1 DEF Collecting
<1>3. Len(run.collected) = old.batch
  BY <1>1, <1>2
<1>4. ~run.missing => \A b \in 1..old.batch : Exact(rs, run, b) /\ run.collected[b] = 1
  <2> SUFFICES ASSUME ~run.missing, NEW b \in 1..old.batch
               PROVE  Exact(rs, run, b) /\ run.collected[b] = 1
    OBVIOUS
  <2>1. Exact(rs, old, b)
    BY <1>1, <1>2
  <2>2. run.collected[b] = 1
    BY <1>1, <1>2
  <2> QED
    BY <2>1, <2>2 DEF Exact, SameButProgress
<1>5. Kept(run) /\ Bounded(run, n, k) /\ FromSuccess(rs, run) /\ run.status = "running"
  BY DEF RunOK, Kept, Bounded, FromSuccess, SameButProgress
<1>6. CASE run.batch < BatchCount
  <2> DEFINE new == [run EXCEPT !.batch = @ + 1, !.stage = "check"]
  <2>1. new \in Run
    <3>1. run.batch + 1 \in 1..BatchCount + 1 /\ "check" \in Stages
      BY <1>1, <1>6, Consts DEF Stages, Batches
    <3> QED
      BY <3>1 DEF Run
  <2>2. SameButProgress(old, new)
    BY DEF SameButProgress, Run
  <2>3. /\ new.stage = "check" /\ new.batch = old.batch + 1 /\ new.missing = run.missing
        /\ new.collected = run.collected
    BY DEF Run
  <2>4. Exact(rs, new, 0) \in BOOLEAN /\ \A b : Exact(rs, run, b) => Exact(rs, new, b)
    BY <2>2 DEF Exact, SameButProgress
  <2> HIDE DEF new
  <2>5. Collecting(rs, new)
    <3>1. new.sha = new.expected /\ InputsAgree(new.manifest, new.id, new.expected)
      BY <1>2, <2>2 DEF SameButProgress
    <3>2. Len(new.collected) = new.batch - 1 /\ new.batch \in Batches
      BY <1>1, <1>3, <1>6, <2>3, Consts DEF Batches
    <3>3. ~new.missing => \A b \in 1..new.batch - 1 : Exact(rs, new, b) /\ new.collected[b] = 1
      <4>1. 1..new.batch - 1 = 1..old.batch
        BY <1>1, <2>3
      <4> QED
        BY <1>4, <2>3, <2>4, <4>1
    <3> QED
      BY <2>3, <3>1, <3>2, <3>3 DEF Collecting
  <2>6. NextBatch(run) = new
    BY <1>6 DEF NextBatch, new
  <2> QED
    <3>1. old.workflow = Summary /\ old.status # "success" /\ new.stage # "bind"
      BY <1>1, <2>3
    <3>2. Evolves(old, new) /\ RunOK(rs, n, k, new)
      BY <2>1, <2>2, <2>5, <3>1, ProgressOK
    <3> QED
      BY <2>1, <2>6, <3>2
<1>7. CASE ~(run.batch < BatchCount) /\ run.missing
  <2>1. NextBatch(run) = Ending(run, "failure")
    BY <1>7 DEF NextBatch
  <2>2. Evolves(run, Ending(run, "failure")) /\ RunOK(rs, n, k, Ending(run, "failure"))
        /\ Ending(run, "failure") \in Run
    BY <1>5, EndingOK DEF Finished
  <2>3. Evolves(old, Ending(run, "failure"))
    BY <2>2 DEF Evolves, SameButProgress
  <2> QED
    BY <2>1, <2>2, <2>3
<1>8. CASE ~(run.batch < BatchCount) /\ ~run.missing
  <2> DEFINE new == [run EXCEPT !.batch = @ + 1, !.stage = "assembled"]
  <2>0. run.batch = BatchCount
    BY <1>1, <1>8, Consts DEF Batches
  <2>1. new \in Run
    <3>1. run.batch + 1 \in 1..BatchCount + 1 /\ "assembled" \in Stages
      BY <1>1, <2>0, Consts DEF Stages, Batches
    <3> QED
      BY <3>1 DEF Run
  <2>2. SameButProgress(old, new)
    BY DEF SameButProgress, Run
  <2>3. /\ new.stage = "assembled" /\ new.batch = old.batch + 1 /\ new.missing = run.missing
        /\ new.collected = run.collected
    BY DEF Run
  <2>4. \A b : Exact(rs, run, b) => Exact(rs, new, b)
    BY <2>2 DEF Exact, SameButProgress
  <2> HIDE DEF new
  <2>5. Collecting(rs, new)
    <3>1. new.sha = new.expected /\ InputsAgree(new.manifest, new.id, new.expected)
      BY <1>2, <2>2 DEF SameButProgress
    <3>2. Len(new.collected) = new.batch - 1 /\ new.batch = BatchCount + 1
      <4>1. new.batch = old.batch + 1 /\ new.batch - 1 = old.batch
        BY <1>1, <2>3
      <4> QED
        BY <1>3, <2>0, <2>3, <4>1
    <3>3. \A b \in 1..new.batch - 1 : Exact(rs, new, b) /\ new.collected[b] = 1
      <4>1. 1..new.batch - 1 = 1..old.batch
        BY <1>1, <2>3
      <4> QED
        BY <1>4, <1>8, <2>3, <2>4, <4>1
    <3>4. ~new.missing
      BY <1>8, <2>3
    <3> QED
      BY <2>3, <3>1, <3>2, <3>3, <3>4 DEF Collecting
  <2>6. NextBatch(run) = new
    BY <1>8 DEF NextBatch, new
  <2> QED
    <3>1. old.workflow = Summary /\ old.status # "success" /\ new.stage # "bind"
      BY <1>1, <2>3
    <3>2. Evolves(old, new) /\ RunOK(rs, n, k, new)
      BY <2>1, <2>2, <2>5, <3>1, ProgressOK
    <3> QED
      BY <2>1, <2>6, <3>2
<1> QED
  BY <1>6, <1>7, <1>8

-----------------------------------------------------------------------------
\* What the invariant says of one run
LEMMA RunFacts ==
  ASSUME IInv, NEW s \in DOMAIN runs
  PROVE  /\ runs[s] \in Run /\ RunOK(runs, nonces, meddled, runs[s]) /\ s \in Nat /\ s # 0
         /\ s <= MaxRuns /\ nonces \in Nat /\ meddled \in Nat
BY Consts DEF IInv, RunsOK

\* One run changes, and nothing else but the meddling.
LEMMA SetStep ==
  ASSUME IInv, NEW s \in DOMAIN runs, NEW run \in Run, Evolves(runs[s], run),
         RunOK(runs, nonces, meddled', run),
         runs' = [runs EXCEPT ![s] = run], UNCHANGED <<head, orch, nonces>>,
         meddled' \in 0..MaxMeddling, meddled <= meddled'
  PROVE  IInv'
<1>1. nonces \in Nat /\ meddled \in Nat /\ meddled' \in Nat /\ nonces <= nonces
      /\ RunsOK(runs, nonces, meddled)
  BY Consts DEF IInv
<1>2. /\ RunsOK(runs', nonces, meddled') /\ Grown(runs, runs') /\ DOMAIN runs' = DOMAIN runs
  BY <1>1, SetRunsOK
<1>3. OrchOK(runs', nonces, orch)
  <2>1. runs # <<>>
    OBVIOUS
  <2> QED
    BY <1>1, <1>2, <2>1, OrchOKGrows DEF IInv
<1>4. Descends(runs', orch)
  BY <1>2 DEF IInv, Descends, Descended, Grown, Evolves
<1> QED
  BY <1>2, <1>3, <1>4 DEF IInv

\* One run more
LEMMA AppendStep ==
  ASSUME IInv, NEW run \in Run, RunOK(runs, nonces, meddled', run), Descended(orch, run),
         runs # <<>>, Len(runs) < MaxRuns,
         runs' = Append(runs, run), UNCHANGED <<head, orch, nonces>>,
         meddled' \in 0..MaxMeddling, meddled <= meddled'
  PROVE  IInv'
<1>1. nonces \in Nat /\ meddled \in Nat /\ meddled' \in Nat /\ nonces <= nonces
      /\ RunsOK(runs, nonces, meddled)
  BY Consts DEF IInv
<1>2. /\ RunsOK(runs', nonces, meddled') /\ Grown(runs, runs')
      /\ DOMAIN runs' = DOMAIN runs \cup {Len(runs) + 1}
      /\ runs'[Len(runs) + 1] = run /\ \A r \in DOMAIN runs : runs'[r] = runs[r]
  BY <1>1, AppendRunsOK
<1>3. OrchOK(runs', nonces, orch)
  BY <1>1, <1>2, OrchOKGrows DEF IInv
<1>4. Descends(runs', orch)
  BY <1>2 DEF IInv, Descends
<1> QED
  BY <1>2, <1>3, <1>4 DEF IInv

\* The same for a step of a summary's job, of GitHub, or of a batch
LEMMA SetKeepsIInv ==
  ASSUME IInv, NEW s \in DOMAIN runs, NEW run \in Run, Evolves(runs[s], run),
         RunOK(runs, nonces, meddled, run), Set(s, run)
  PROVE  IInv'
<1>1. meddled' = meddled /\ meddled \in 0..MaxMeddling /\ meddled <= meddled
  BY Consts DEF IInv, Set
<1> QED
  BY <1>1, SetStep DEF Set

-----------------------------------------------------------------------------
\* The steps of a summary's job
LEMMA BindBaseStep ==
  ASSUME IInv, NEW s \in DOMAIN runs, BindBase(s)
  PROVE  IInv'
<1> DEFINE run == runs[s]
<1>1. run \in Run /\ RunOK(runs, nonces, meddled, run) /\ nonces \in Nat /\ meddled \in Nat
  BY RunFacts
<1>2. run.stage = "bind" /\ run.status = "running" /\ run.workflow = Summary
  BY <1>1 DEF BindBase, RunOK, Kept
<1>3. CASE ShaBound(run.expected, run.sha) /\ InputsAgree(run.manifest, run.id, run.expected)
  <2> DEFINE new == [run EXCEPT !.stage = "check"]
  <2>1. Set(s, new)
    BY <1>3 DEF BindBase
  <2>2. new \in Run
    BY <1>1 DEF Run, Stages
  <2>3. SameButProgress(run, new)
    BY <1>1 DEF SameButProgress, Run
  <2>4. /\ new.sha = run.sha /\ new.expected = run.expected /\ new.manifest = run.manifest
        /\ new.id = run.id /\ new.stage = "check" /\ new.batch = 1 /\ new.collected = <<>>
    BY <1>1, <1>2 DEF Run, RunOK, Kept
  <2>5. Collecting(runs, new)
    <3>1. \A b \in 1..new.batch - 1 : Exact(runs, new, b) /\ new.collected[b] = 1
      BY <2>4
    <3>2. Len(new.collected) = new.batch - 1 /\ new.batch \in Batches
      BY <2>4, Consts DEF Batches
    <3> QED
      BY <1>3, <2>4, <3>1, <3>2 DEF Collecting, ShaBound
  <2>6. Evolves(run, new) /\ RunOK(runs, nonces, meddled, new)
    <3>1. run.workflow = Summary /\ run.status # "success" /\ new.stage # "bind"
      BY <1>2, <2>4
    <3> QED
      BY <1>1, <2>2, <2>3, <2>5, <3>1, ProgressOK
  <2> QED
    BY <2>1, <2>2, <2>6, SetKeepsIInv
<1>4. CASE ~(ShaBound(run.expected, run.sha) /\ InputsAgree(run.manifest, run.id, run.expected))
  <2>1. Set(s, Ending(run, "failure"))
    BY <1>4 DEF BindBase
  <2>2. /\ Ending(run, "failure") \in Run /\ Evolves(run, Ending(run, "failure"))
        /\ RunOK(runs, nonces, meddled, Ending(run, "failure"))
    BY <1>1, <1>2, EndingOK DEF RunOK, Finished
  <2> QED
    BY <2>1, <2>2, SetKeepsIInv
<1> QED
  BY <1>3, <1>4

\* A batch that is missing
LEMMA WithoutStep ==
  ASSUME IInv, NEW s \in DOMAIN runs, runs[s].status = "running",
         runs[s].stage \in {"check", "artifact", "download"}, Set(s, Without(runs[s]))
  PROVE  IInv'
<1> DEFINE run == runs[s]
<1> DEFINE new == [run EXCEPT !.missing = TRUE, !.collected = Append(@, 0)]
<1>1. run \in Run /\ RunOK(runs, nonces, meddled, run) /\ nonces \in Nat /\ meddled \in Nat
  BY RunFacts
<1>2. new \in Run
  <2>1. run.collected \in Seq(Nat)
    BY <1>1 DEF Run
  <2>2. Append(run.collected, 0) \in Seq(Nat)
    BY <2>1
  <2> QED
    BY <1>1, <2>2 DEF Run
<1>3. /\ SameButProgress(run, new) /\ new.stage = run.stage /\ new.batch = run.batch
      /\ new.collected = Append(run.collected, 0) /\ new.missing
  BY <1>1 DEF SameButProgress, Run
<1>4. /\ NextBatch(new) \in Run /\ Evolves(run, NextBatch(new))
      /\ RunOK(runs, nonces, meddled, NextBatch(new))
  <2>1. 0 \in Nat
    OBVIOUS
  <2> QED
    BY <1>1, <1>2, <1>3, <2>1, NextBatchOK
<1>5. Without(run) = NextBatch(new)
  BY DEF Without
<1> QED
  BY <1>4, <1>5, SetKeepsIInv

\* A run that is found complete is exact.
LEMMA FoundExact ==
  ASSUME IInv, NEW s \in DOMAIN runs, runs[s].stage \in Bound, StillExact(s)
  PROVE  Exact(runs, runs[s], runs[s].batch)
<1> DEFINE run == runs[s]
<1> DEFINE b == run.batch
<1> DEFINE r == run.manifest.batches[b].run
<1>1. run.sha = run.expected
  BY RunFacts DEF RunOK, Collecting
<1>2. r \in Candidates(b, run.id, run.manifest.batches[b].nonce, run.expected)
      /\ Acceptable(r) /\ Completed(r)
  BY DEF StillExact, Found
<1>3. r \in DOMAIN runs /\ runs[r].workflow = b /\ runs[r].id = run.id
      /\ runs[r].sha = run.expected
  BY <1>2 DEF Candidates, ListedFor, Titled
<1>4. runs[r].attempt = 1 /\ runs[r].status \in {"success", "failure"}
  BY <1>2 DEF Acceptable, Completed
<1>5. runs[r].first = runs[r].status
  BY <1>3, <1>4, RunFacts DEF RunOK, Kept
<1> QED
  BY <1>1, <1>3, <1>4, <1>5 DEF Exact

\* On to the next stage for the same batch
LEMMA AdvanceStep ==
  ASSUME IInv, NEW s \in DOMAIN runs, runs[s].status = "running",
         runs[s].stage \in {"check", "artifact"}, Exact(runs, runs[s], runs[s].batch),
         NEW stage \in {"artifact", "download"},
         Set(s, [runs[s] EXCEPT !.stage = stage])
  PROVE  IInv'
<1> DEFINE run == runs[s]
<1> DEFINE new == [run EXCEPT !.stage = stage]
<1>1. run \in Run /\ RunOK(runs, nonces, meddled, run) /\ nonces \in Nat /\ meddled \in Nat
  BY RunFacts
<1>2. new \in Run
  BY <1>1 DEF Run, Stages
<1>3. /\ SameButProgress(run, new) /\ new.stage = stage /\ new.batch = run.batch
      /\ new.collected = run.collected /\ new.missing = run.missing
  BY <1>1 DEF SameButProgress, Run
<1>4. \A b : Exact(runs, run, b) => Exact(runs, new, b)
  BY <1>3 DEF Exact, SameButProgress
<1>5. Collecting(runs, run) /\ Kept(run)
  BY <1>1 DEF RunOK
<1> HIDE DEF new
<1>6. Collecting(runs, new)
  BY <1>3, <1>4, <1>5 DEF Collecting, SameButProgress, Bound
<1>7. run.workflow = Summary /\ run.status # "success" /\ new.stage # "bind"
  BY <1>3, <1>5 DEF Kept
<1>8. Evolves(run, new) /\ RunOK(runs, nonces, meddled, new)
  BY <1>1, <1>2, <1>3, <1>6, <1>7, ProgressOK
<1> QED
  BY <1>2, <1>8, SetKeepsIInv DEF new

LEMMA CheckRunStep ==
  ASSUME IInv, NEW s \in DOMAIN runs, CheckRun(s)
  PROVE  IInv'
<1>1. runs[s].stage = "check" /\ runs[s].status = "running"
  BY DEF CheckRun
<1>2. CASE StillExact(s) /\ Set(s, [runs[s] EXCEPT !.stage = "artifact"])
  <2>1. Exact(runs, runs[s], runs[s].batch)
    BY <1>1, <1>2, FoundExact DEF Bound
  <2> QED
    BY <1>1, <1>2, <2>1, AdvanceStep
<1>3. CASE Set(s, Without(runs[s]))
  BY <1>1, <1>3, WithoutStep
<1> QED
  BY <1>2, <1>3 DEF CheckRun

LEMMA CheckArtifactStep ==
  ASSUME IInv, NEW s \in DOMAIN runs, CheckArtifact(s)
  PROVE  IInv'
<1>1. runs[s].stage = "artifact" /\ runs[s].status = "running"
  BY DEF CheckArtifact
<1>2. CASE Set(s, [runs[s] EXCEPT !.stage = "download"])
  <2>1. Exact(runs, runs[s], runs[s].batch)
    BY <1>1, RunFacts DEF RunOK, Collecting, Bound
  <2> QED
    BY <1>1, <1>2, <2>1, AdvanceStep
<1>3. CASE Set(s, Without(runs[s]))
  BY <1>1, <1>3, WithoutStep
<1> QED
  BY <1>2, <1>3 DEF CheckArtifact

LEMMA DownloadRunStep ==
  ASSUME IInv, NEW s \in DOMAIN runs, DownloadRun(s)
  PROVE  IInv'
<1> DEFINE run == runs[s]
<1>1. run.stage = "download" /\ run.status = "running"
  BY DEF DownloadRun
<1>2. run \in Run /\ RunOK(runs, nonces, meddled, run) /\ nonces \in Nat /\ meddled \in Nat
  BY RunFacts
<1>3. ASSUME NEW got \in ResultsOf(s), Attested(got),
             Set(s, NextBatch([runs[s] EXCEPT !.collected = Append(@, got)]))
      PROVE  IInv'
  <2> DEFINE new == [run EXCEPT !.collected = Append(@, got)]
  <2>1. got = 1 /\ got \in Nat
    BY <1>3 DEF Attested
  <2>2. new \in Run
    <3>1. run.collected \in Seq(Nat)
      BY <1>2 DEF Run
    <3>2. Append(run.collected, got) \in Seq(Nat)
      BY <2>1, <3>1
    <3> QED
      BY <1>2, <3>2 DEF Run
  <2>3. /\ SameButProgress(run, new) /\ new.stage = run.stage /\ new.batch = run.batch
        /\ new.collected = Append(run.collected, got) /\ new.missing = run.missing
    BY <1>2 DEF SameButProgress, Run
  <2>4. Exact(runs, run, run.batch)
    BY <1>1, <1>2 DEF RunOK, Collecting, Bound
  <2>5. /\ NextBatch(new) \in Run /\ Evolves(run, NextBatch(new))
        /\ RunOK(runs, nonces, meddled, NextBatch(new))
    BY <1>1, <1>2, <2>1, <2>2, <2>3, <2>4, NextBatchOK
  <2> QED
    BY <1>3, <2>5, SetKeepsIInv
<1>4. CASE Set(s, Without(runs[s]))
  BY <1>1, <1>4, WithoutStep
<1> QED
  BY <1>3, <1>4 DEF DownloadRun

LEMMA FinishSummaryStep ==
  ASSUME IInv, NEW s \in DOMAIN runs, FinishSummary(s)
  PROVE  IInv'
<1> DEFINE run == runs[s]
<1>1. run.stage = "assembled" /\ run.status = "running"
  BY DEF FinishSummary
<1>2. run \in Run /\ RunOK(runs, nonces, meddled, run) /\ nonces \in Nat /\ meddled \in Nat
  BY RunFacts
<1>3. PICK status \in {"success", "failure"} : Set(s, Ending(run, status))
  BY DEF FinishSummary
<1>4. status \in Finished
  BY DEF Finished
<1>5. /\ Ending(run, status) \in Run /\ Evolves(run, Ending(run, status))
      /\ RunOK(runs, nonces, meddled, Ending(run, status))
  BY <1>1, <1>2, <1>4, EndingOK DEF RunOK
<1> QED
  BY <1>3, <1>5, SetKeepsIInv

LEMMA SummariseStep ==
  ASSUME IInv, NEW s \in DOMAIN runs, Summarise(s)
  PROVE  IInv'
BY BindBaseStep, CheckRunStep, CheckArtifactStep, DownloadRunStep, FinishSummaryStep
   DEF Summarise

-----------------------------------------------------------------------------
\* What GitHub and people do with a run
LEMMA ListStep ==
  ASSUME IInv, NEW r \in DOMAIN runs, List(r)
  PROVE  IInv'
<1> DEFINE run == runs[r]
<1> DEFINE new == [run EXCEPT !.listed = TRUE]
<1>1. run \in Run /\ RunOK(runs, nonces, meddled, run) /\ nonces \in Nat /\ meddled \in Nat
  BY RunFacts
<1>2. new \in Run
  BY <1>1 DEF Run
<1>3. /\ SameButProgress(run, new) /\ new.stage = run.stage /\ new.batch = run.batch
      /\ new.collected = run.collected /\ new.missing = run.missing
  BY <1>1 DEF SameButProgress, Run
<1>4. \A b : Exact(runs, run, b) => Exact(runs, new, b)
  BY <1>3 DEF Exact, SameButProgress
<1>5. Set(r, new)
  BY DEF List
<1> HIDE DEF new
<1>6. Collecting(runs, new)
  BY <1>1, <1>3, <1>4 DEF RunOK, Collecting, SameButProgress
<1>7. Evolves(run, new) /\ RunOK(runs, nonces, meddled, new)
  BY <1>1, <1>2, <1>3, <1>6, ProgressOK
<1> QED
  BY <1>2, <1>5, <1>7, SetKeepsIInv

\* The results a batch leaves are nothing the invariant is about.
LEMMA ResultsOK ==
  ASSUME NEW rs, NEW n \in Nat, NEW k \in Nat, NEW run \in Run, RunOK(rs, n, k, run),
         run.workflow # Summary, NEW results \in SUBSET Attempts
  PROVE  /\ [run EXCEPT !.results = results] \in Run
         /\ Evolves(run, [run EXCEPT !.results = results])
         /\ RunOK(rs, n, k, [run EXCEPT !.results = results])
<1> DEFINE new == [run EXCEPT !.results = results]
<1>1. new \in Run
  BY DEF Run
<1>2. /\ SameButProgress(run, new) /\ new.stage = run.stage /\ new.batch = run.batch
      /\ new.collected = run.collected
  BY DEF SameButProgress, Run
<1>3. Collecting(rs, new)
  BY <1>2 DEF RunOK, Kept, Collecting, Bound
<1> QED
  BY <1>1, <1>2, <1>3, ProgressOK

LEMMA FinishBatchStep ==
  ASSUME IInv, NEW r \in DOMAIN runs, FinishBatch(r)
  PROVE  IInv'
<1> DEFINE run == runs[r]
<1> DEFINE uploaded == run.results \cup {run.attempt}
<1>1. run \in Run /\ RunOK(runs, nonces, meddled, run) /\ nonces \in Nat /\ meddled \in Nat
  BY RunFacts
<1>2. run.workflow # Summary /\ run.status = "running" /\ run.stage = "none"
  BY <1>1 DEF FinishBatch, RunOK, Kept
<1>3. PICK status \in {"success", "failure"}, results \in {run.results, uploaded} :
        Set(r, [Ending(run, status) EXCEPT !.results = results])
  BY DEF FinishBatch
<1> DEFINE e == Ending(run, status)
<1>4. status \in Finished /\ results \in SUBSET Attempts
  BY <1>1 DEF Finished, Run
<1>5. e \in Run /\ Evolves(run, e) /\ RunOK(runs, nonces, meddled, e)
  BY <1>1, <1>2, <1>4, EndingOK DEF RunOK
<1>6. e.workflow # Summary
  BY <1>2, <1>5 DEF Evolves
<1> HIDE DEF e
<1> DEFINE new == [e EXCEPT !.results = results]
<1>7. new \in Run /\ Evolves(e, new) /\ RunOK(runs, nonces, meddled, new)
  BY <1>1, <1>4, <1>5, <1>6, ResultsOK
<1>8. Evolves(run, new)
  BY <1>5, <1>7 DEF Evolves
<1>9. Set(r, new)
  BY <1>3 DEF e
<1> HIDE DEF new
<1> QED
  BY <1>7, <1>8, <1>9, SetKeepsIInv

\* Meddling counts, and leaves the rest alone.
LEMMA MeddleFacts ==
  ASSUME IInv, NEW changed, Meddle(changed)
  PROVE  /\ runs' = changed /\ UNCHANGED <<head, orch, nonces>>
         /\ meddled' = meddled + 1 /\ meddled' \in 0..MaxMeddling /\ meddled <= meddled'
         /\ meddled \in Nat /\ meddled' \in Nat /\ nonces \in Nat
BY Consts DEF IInv, Meddle

LEMMA CancelStep ==
  ASSUME IInv, NEW r \in DOMAIN runs, Cancel(r)
  PROVE  IInv'
<1> DEFINE run == runs[r]
<1> DEFINE e == Ending(run, "cancelled")
<1>1. run \in Run /\ RunOK(runs, nonces, meddled, run) /\ nonces \in Nat /\ meddled \in Nat
  BY RunFacts
<1>2. run.status = "running" /\ Meddle([runs EXCEPT ![r] = e])
  BY DEF Cancel
<1>3. e \in Run /\ Evolves(run, e) /\ RunOK(runs, nonces, meddled, e)
  BY <1>1, <1>2, EndingOK DEF RunOK, Finished
<1> HIDE DEF e
<1>4. /\ runs' = [runs EXCEPT ![r] = e] /\ UNCHANGED <<head, orch, nonces>>
      /\ meddled' \in 0..MaxMeddling /\ meddled <= meddled' /\ meddled' \in Nat
  BY <1>2, MeddleFacts
<1>5. RunOK(runs, nonces, meddled', e)
  <2>1. Grown(runs, runs)
    BY DEF Grown, Evolves
  <2>2. nonces <= nonces
    BY <1>1
  <2> QED
    BY <1>1, <1>3, <1>4, <2>1, <2>2, RunOKGrows
<1> QED
  BY <1>3, <1>4, <1>5, SetStep

LEMMA RerunStep ==
  ASSUME IInv, NEW r \in DOMAIN runs, Rerun(r)
  PROVE  IInv'
<1> DEFINE run == runs[r]
<1>1. run \in Run /\ RunOK(runs, nonces, meddled, run) /\ nonces \in Nat /\ meddled \in Nat
  BY RunFacts
<1>2. PICK kept \in {run.results, {}} :
        Meddle([runs EXCEPT ![r] = [Fresh(run) EXCEPT !.status = "running",
                                      !.attempt = run.attempt + 1, !.results = kept]])
  BY DEF Rerun
<1> DEFINE f == Fresh(run)
<1> DEFINE new == [f EXCEPT !.status = "running", !.attempt = run.attempt + 1, !.results = kept]
<1>3. /\ runs' = [runs EXCEPT ![r] = new] /\ UNCHANGED <<head, orch, nonces>>
      /\ meddled' = meddled + 1 /\ meddled' \in 0..MaxMeddling /\ meddled <= meddled'
      /\ meddled' \in Nat
  <2>1. Meddle([runs EXCEPT ![r] = new])
    BY <1>2
  <2> QED
    BY <2>1, MeddleFacts
<1>4. /\ f \in Run /\ f.workflow = run.workflow /\ f.id = run.id /\ f.nonce = run.nonce
      /\ f.expected = run.expected /\ f.manifest = run.manifest /\ f.sha = run.sha
      /\ f.attempt = run.attempt /\ f.first = run.first /\ f.results = run.results
      /\ f.stage = IF run.workflow = Summary THEN "bind" ELSE "none"
      /\ f.batch = 1 /\ f.collected = <<>>
  BY <1>1, FreshOK
<1>5. run.attempt \in Nat /\ run.attempt >= 1 /\ run.attempt <= meddled + 1
      /\ run.nonce <= nonces /\ kept \in SUBSET Attempts
  <2>1. run.attempt \in Attempts /\ run.results \in SUBSET Attempts
    BY <1>1 DEF Run
  <2>2. run.attempt <= meddled + 1 /\ run.nonce <= nonces
    BY <1>1 DEF RunOK, Bounded
  <2> QED
    BY <1>2, <2>1, <2>2, Consts DEF Attempts
<1>6. run.attempt + 1 \in Attempts
  BY <1>1, <1>3, <1>5, Consts DEF Attempts
<1> HIDE DEF f
<1>7. new \in Run
  BY <1>4, <1>5, <1>6 DEF Run
<1>8. /\ new.workflow = f.workflow /\ new.id = f.id /\ new.nonce = f.nonce
      /\ new.expected = f.expected /\ new.manifest = f.manifest /\ new.sha = f.sha
      /\ new.attempt = run.attempt + 1 /\ new.first = f.first /\ new.status = "running"
      /\ new.stage = f.stage /\ new.batch = 1 /\ new.collected = <<>>
  BY <1>4 DEF Run
<1> HIDE DEF new
<1>9. Evolves(run, new)
  BY <1>4, <1>8 DEF Evolves
<1>10. RunOK(runs, nonces, meddled', new)
  <2>1. new.attempt # 1
    BY <1>4, <1>5, <1>8
  <2>2. Kept(new)
    BY <1>1, <1>4, <1>8, <2>1 DEF RunOK, Kept
  <2>3. Bounded(new, nonces, meddled')
    BY <1>1, <1>3, <1>4, <1>5, <1>8 DEF Bounded
  <2>4. Collecting(runs, new)
    BY <1>4, <1>8 DEF Collecting, Bound
  <2>5. FromSuccess(runs, new)
    BY <1>1, <1>4, <1>8 DEF RunOK, FromSuccess
  <2> QED
    BY <2>2, <2>3, <2>4, <2>5 DEF RunOK
<1> QED
  BY <1>3, <1>7, <1>9, <1>10, SetStep

\* A run made anew by hand, like an earlier one but for its commit and, if it is a summary,
\* for its manifest and inputs
LEMMA NewRunOK ==
  ASSUME IInv, NEW new \in Run, new.attempt = 1, new.first = "none", new.status = "running",
         new.stage = "none" \/ (new.workflow = Summary /\ new.stage = "bind"
                                 /\ new.batch = 1 /\ new.collected = <<>>),
         new.nonce <= nonces, new.workflow = Summary => new.manifest.id # 0,
         NEW k \in Nat, FromSuccess(runs, new)
  PROVE  RunOK(runs, nonces, k, new)
<1>1. Kept(new)
  BY DEF Kept
<1>2. Bounded(new, nonces, k)
  BY DEF Bounded
<1>3. Collecting(runs, new)
  BY DEF Collecting, Bound
<1> QED
  BY <1>1, <1>2, <1>3 DEF RunOK

LEMMA DispatchAgainStep ==
  ASSUME IInv, NEW r \in DOMAIN runs, DispatchAgain(r)
  PROVE  IInv'
<1> DEFINE run == runs[r]
<1> DEFINE new == [run EXCEPT !.sha = head, !.status = "running", !.attempt = 1,
                     !.first = "none", !.results = {}, !.listed = FALSE]
<1>1. run \in Run /\ RunOK(runs, nonces, meddled, run) /\ nonces \in Nat /\ meddled \in Nat
  BY RunFacts
<1>2. run.workflow # Summary /\ Len(runs) < MaxRuns /\ Meddle(Append(runs, new))
  BY DEF DispatchAgain
<1>3. /\ runs' = Append(runs, new) /\ UNCHANGED <<head, orch, nonces>>
      /\ meddled' \in 0..MaxMeddling /\ meddled <= meddled' /\ meddled' \in Nat
  BY <1>2, MeddleFacts
<1>4. new \in Run
  <2>1. head \in 0..MaxPushes /\ 1 \in Attempts
    BY Consts DEF IInv, Attempts
  <2> QED
    BY <1>1, <2>1 DEF Run
<1>5. /\ new.workflow = run.workflow /\ new.nonce = run.nonce /\ new.attempt = 1
      /\ new.first = "none" /\ new.status = "running" /\ new.stage = run.stage
  BY <1>1 DEF Run
<1> HIDE DEF new
<1>6. run.stage = "none" /\ run.nonce <= nonces
  BY <1>1, <1>2 DEF RunOK, Kept, Bounded
<1>7. FromSuccess(runs, new) /\ Descended(orch, new)
  BY <1>2, <1>5 DEF FromSuccess, Descended
<1>8. RunOK(runs, nonces, meddled', new)
  BY <1>2, <1>3, <1>4, <1>5, <1>6, <1>7, NewRunOK
<1>9. runs # <<>>
  OBVIOUS
<1> QED
  BY <1>2, <1>3, <1>4, <1>7, <1>8, <1>9, AppendStep

\* Whatever is made of a manifest, it has no records but its own, and a name and commit.
LEMMA RewrittenOK ==
  ASSUME IInv, runs # <<>>, NEW m \in Manifest, m.id # 0, NEW w \in Rewritten(m)
  PROVE  /\ w \in Manifest /\ w.id # 0
         /\ \A i \in DOMAIN w.batches : \E j \in DOMAIN m.batches : w.batches[i] = m.batches[j]
<1>0. /\ orch.id \in 0..MaxOrchestrations /\ orch.id # 0 /\ head \in 0..MaxPushes
      /\ m.batches \in Seq(Record)
  BY DEF IInv, OrchOK, Orchestrator, Manifest
<1>1. CASE w \in {[m EXCEPT !.batches = batches] :
                    batches \in [Batches -> {m.batches[i] : i \in DOMAIN m.batches}]}
  <2>1. PICK batches \in [Batches -> {m.batches[i] : i \in DOMAIN m.batches}] :
          w = [m EXCEPT !.batches = batches]
    BY <1>1
  <2>2. {m.batches[i] : i \in DOMAIN m.batches} \subseteq Record
    BY <1>0
  <2>3. batches \in [1..BatchCount -> Record]
    BY <2>1, <2>2 DEF Batches
  <2>4. batches \in Seq(Record) /\ DOMAIN batches = Batches
    BY <2>1, <2>3, Consts DEF Batches
  <2>5. w \in Manifest /\ w.id = m.id /\ w.batches = batches
    BY <2>1, <2>4 DEF Manifest
  <2> QED
    BY <2>1, <2>4, <2>5
<1>2. CASE w \in {[m EXCEPT !.batches = SubSeq(@, 2, Len(@))]}
  <2>1. w = [m EXCEPT !.batches = SubSeq(m.batches, 2, Len(m.batches))]
    BY <1>2
  <2> DEFINE q == SubSeq(m.batches, 2, Len(m.batches))
  <2>2. /\ q \in Seq(Record)
        /\ \A i \in DOMAIN q : i + 1 \in DOMAIN m.batches /\ q[i] = m.batches[i + 1]
    BY <1>0
  <2> HIDE DEF q
  <2>3. w \in Manifest /\ w.id = m.id /\ w.batches = q
    BY <2>1, <2>2 DEF Manifest, q
  <2> QED
    BY <2>2, <2>3
<1>3. CASE w \in {[m EXCEPT !.id = id, !.expected = sha] :
                     id \in {m.id, orch.id}, sha \in {m.expected, head}}
  <2>1. PICK id \in {m.id, orch.id}, sha \in {m.expected, head} :
          w = [m EXCEPT !.id = id, !.expected = sha]
    BY <1>3
  <2>2. w \in Manifest /\ w.id = id /\ w.batches = m.batches
    BY <1>0, <2>1 DEF Manifest
  <2> QED
    BY <1>0, <2>1, <2>2
<1> QED
  BY <1>1, <1>2, <1>3 DEF Rewritten

LEMMA SummariseAgainStep ==
  ASSUME IInv, NEW r \in DOMAIN runs, SummariseAgain(r)
  PROVE  IInv'
<1> DEFINE run == runs[r]
<1>1. run \in Run /\ RunOK(runs, nonces, meddled, run) /\ nonces \in Nat /\ meddled \in Nat
  BY RunFacts
<1>2. run.workflow = Summary /\ Len(runs) < MaxRuns /\ runs # <<>>
  BY DEF SummariseAgain
<1>3. run.manifest \in Manifest /\ run.manifest.id # 0 /\ run.id # 0
  BY <1>1, <1>2 DEF RunOK, Kept, Run
<1>3a. PICK m \in Rewritten(run.manifest) : \E inputs \in {m, run} :
        Meddle(Append(runs, [Fresh(run) EXCEPT
                  !.manifest = m, !.id = inputs.id, !.expected = inputs.expected,
                  !.sha = head, !.status = "running", !.attempt = 1, !.first = "none",
                  !.listed = FALSE]))
  BY DEF SummariseAgain
<1>4. PICK inputs \in {m, run} :
        Meddle(Append(runs, [Fresh(run) EXCEPT
                  !.manifest = m, !.id = inputs.id, !.expected = inputs.expected,
                  !.sha = head, !.status = "running", !.attempt = 1, !.first = "none",
                  !.listed = FALSE]))
  BY <1>3a
<1>5. /\ m \in Manifest /\ m.id # 0
      /\ \A i \in DOMAIN m.batches :
           \E j \in DOMAIN run.manifest.batches : m.batches[i] = run.manifest.batches[j]
  BY <1>2, <1>3, RewrittenOK
<1>6. inputs.id \in 1..MaxOrchestrations /\ inputs.expected \in 0..MaxPushes
      /\ head \in 0..MaxPushes /\ 1 \in Attempts
  <2>1. m.id \in 1..MaxOrchestrations /\ m.expected \in 0..MaxPushes
    BY <1>5, Consts DEF Manifest
  <2>2. run.id \in 1..MaxOrchestrations /\ run.expected \in 0..MaxPushes
    BY <1>1 DEF Run
  <2>3. head \in 0..MaxPushes /\ 1 \in Attempts
    BY Consts DEF IInv, Attempts
  <2> QED
    BY <1>4, <2>1, <2>2, <2>3
<1> DEFINE f == Fresh(run)
<1> DEFINE new == [f EXCEPT
                  !.manifest = m, !.id = inputs.id, !.expected = inputs.expected,
                  !.sha = head, !.status = "running", !.attempt = 1, !.first = "none",
                  !.listed = FALSE]
<1>7. /\ runs' = Append(runs, new) /\ UNCHANGED <<head, orch, nonces>>
      /\ meddled' \in 0..MaxMeddling /\ meddled <= meddled' /\ meddled' \in Nat
  BY <1>4, MeddleFacts
<1>8. f \in Run /\ f.workflow = Summary /\ f.nonce = run.nonce /\ f.stage = "bind"
      /\ f.batch = 1 /\ f.collected = <<>>
  BY <1>1, <1>2, FreshOK
<1> HIDE DEF f
<1>9. new \in Run
  BY <1>5, <1>6, <1>8 DEF Run
<1>10. /\ new.workflow = Summary /\ new.nonce = run.nonce /\ new.attempt = 1
       /\ new.first = "none" /\ new.status = "running" /\ new.stage = "bind"
       /\ new.batch = 1 /\ new.collected = <<>> /\ new.manifest = m
  BY <1>8 DEF Run
<1> HIDE DEF new
<1>11. FromSuccess(runs, new)
  <2>1. AllSucceeded(runs, run.manifest)
    BY <1>1, <1>2 DEF RunOK, FromSuccess
  <2> QED
    BY <1>5, <1>10, <2>1 DEF FromSuccess, AllSucceeded
<1>12. Descended(orch, new)
  <2>1. Descended(orch, run)
    BY DEF IInv, Descends
  <2> QED
    BY <1>2, <1>5, <1>10, <2>1 DEF Descended
<1>13. RunOK(runs, nonces, meddled', new)
  <2>1. new.nonce <= nonces /\ new.manifest.id # 0
    BY <1>1, <1>5, <1>10 DEF RunOK, Bounded
  <2> QED
    BY <1>7, <1>9, <1>10, <1>11, <2>1, NewRunOK
<1> QED
  BY <1>2, <1>7, <1>9, <1>11, <1>12, <1>13, AppendStep

LEMMA PushStep ==
  ASSUME IInv, Push
  PROVE  IInv'
<1>1. head' \in 0..MaxPushes /\ UNCHANGED <<orch, runs, nonces, meddled>>
  BY Consts DEF IInv, Push
<1> QED
  BY <1>1 DEF IInv

-----------------------------------------------------------------------------
\* The orchestrator's record
LEMMA IdleOK == Idle \in Orchestrator /\ NoManifest \in Manifest
<1>1. NoManifest \in Manifest
  BY Consts DEF NoManifest, Manifest
<1>2. /\ 1 \in Batches /\ <<>> \in Seq(Record) /\ 0 \in 0..MaxOrchestrations
      /\ 0 \in 0..MaxPushes /\ 0 \in 0..MaxRuns /\ 0 \in 0..MaxPolls - 1
      /\ 0 \in 0..MaxFailures - 1 /\ "idle" \in Steps
  BY Consts DEF Batches, Steps, Ended
<1> QED
  BY <1>1, <1>2 DEF Idle, Orchestrator

\* At work, it has a number, and knows what its step needs.
LEMMA OrchFacts ==
  ASSUME IInv
  PROVE  /\ orch \in Orchestrator /\ orch.id \in Nat /\ orch.nonce \in Nat /\ orch.batch \in Nat
         /\ orch.batch \in Batches /\ orch.records \in Seq(Record)
         /\ orch.manifest \in Manifest /\ orch.polls \in Nat /\ orch.failures \in Nat
         /\ nonces \in Nat /\ meddled \in Nat /\ OrchOK(runs, nonces, orch)
         /\ orch.step # "idle" => orch.id # 0
<1>1. orch \in Orchestrator /\ OrchOK(runs, nonces, orch) /\ nonces \in Nat /\ meddled \in Nat
  BY Consts DEF IInv, OrchOK
<1>2. /\ orch.id \in 0..MaxOrchestrations /\ orch.nonce \in Nat /\ orch.batch \in Batches
      /\ orch.records \in Seq(Record) /\ orch.manifest \in Manifest
      /\ orch.polls \in 0..MaxPolls - 1 /\ orch.failures \in 0..MaxFailures - 1
  BY <1>1 DEF Orchestrator
<1>3. orch.id \in Nat /\ orch.batch \in Nat /\ orch.polls \in Nat /\ orch.failures \in Nat
  BY <1>2, Consts DEF Batches
<1>4. orch.step # "idle" => orch.id # 0
  BY <1>1 DEF OrchOK
<1> QED
  BY <1>1, <1>2, <1>3, <1>4

\* The end of its job
LEMMA ExitOK ==
  ASSUME NEW rs, NEW n \in Nat, orch \in Orchestrator, orch.id # 0,
         NEW step \in {"succeeded", "failed"}, Exit(step)
  PROVE  OrchOK(rs, n, orch') /\ Descends(rs, orch')
<1>1. /\ orch' \in Orchestrator /\ orch'.step = step /\ orch'.id = orch.id /\ orch'.nonce = 0
  <2>1. step \in Steps
    BY DEF Steps, Ended
  <2>2. orch.id \in 0..MaxOrchestrations
    BY DEF Orchestrator
  <2> QED
    BY <2>1, <2>2, IdleOK DEF Exit, Orchestrator, Idle
<1> QED
  BY <1>1 DEF OrchOK, Descends, Descended, WithManifest

LEMMA ExitStep ==
  ASSUME IInv, orch.step # "idle", NEW step \in {"succeeded", "failed"}, Exit(step),
         UNCHANGED <<head, runs, nonces, meddled>>
  PROVE  IInv'
<1>1. OrchOK(runs, nonces, orch') /\ Descends(runs, orch')
  BY OrchFacts, ExitOK
<1> QED
  BY <1>1 DEF IInv

\* Only the counters of a wait change.
SameButWait(o, q) ==
    /\ q.step = o.step /\ q.id = o.id /\ q.sha = o.sha /\ q.batch = o.batch
    /\ q.nonce = o.nonce /\ q.records = o.records /\ q.manifest = o.manifest
    /\ q.run = o.run /\ q.failed = o.failed

LEMMA SameButWaitOK ==
  ASSUME NEW rs, NEW n \in Nat, NEW o, OrchOK(rs, n, o), NEW q \in Orchestrator,
         SameButWait(o, q)
  PROVE  OrchOK(rs, n, q) /\ (Descends(rs, o) => Descends(rs, q))
<1>1. OrchOK(rs, n, q)
  BY DEF OrchOK, SameButWait
<1>2. ASSUME Descends(rs, o) PROVE Descends(rs, q)
  BY <1>2 DEF Descends, Descended, SameButWait
<1> QED
  BY <1>1, <1>2

LEMMA MissedStep ==
  ASSUME IInv, orch.step # "idle", NEW o \in Orchestrator, SameButWait(orch, o), Missed(o),
         UNCHANGED <<head, runs, nonces, meddled>>
  PROVE  IInv'
<1>1. CASE o.polls + 1 = MaxPolls
  <2>1. Exit("failed")
    BY <1>1 DEF Missed
  <2> QED
    BY <2>1, ExitStep
<1>2. CASE o.polls + 1 # MaxPolls
  <2>1. orch' = [o EXCEPT !.polls = o.polls + 1]
    BY <1>2 DEF Missed
  <2>2. o.polls \in 0..MaxPolls - 1
    BY DEF Orchestrator
  <2>3. o.polls + 1 \in 0..MaxPolls - 1
    BY <1>2, <2>2, Consts
  <2>4. orch' \in Orchestrator /\ SameButWait(orch, orch')
    BY <2>1, <2>3 DEF Orchestrator, SameButWait
  <2>5. OrchOK(runs, nonces, orch') /\ Descends(runs, orch')
    BY <2>4, OrchFacts, SameButWaitOK DEF IInv
  <2> QED
    BY <2>5 DEF IInv
<1> QED
  BY <1>1, <1>2

LEMMA LookupFailsStep ==
  ASSUME IInv, orch.step # "idle", LookupFails, UNCHANGED <<head, runs, nonces, meddled>>
  PROVE  IInv'
<1>1. CASE orch.failures + 1 = MaxFailures
  <2>1. Exit("failed")
    BY <1>1 DEF LookupFails
  <2> QED
    BY <2>1, ExitStep
<1>2. CASE orch.failures + 1 # MaxFailures
  <2> DEFINE o == [orch EXCEPT !.failures = orch.failures + 1]
  <2>1. Missed(o)
    BY <1>2 DEF LookupFails
  <2>2. orch \in Orchestrator /\ orch.failures \in 0..MaxFailures - 1
    BY OrchFacts DEF Orchestrator
  <2>3. orch.failures + 1 \in 0..MaxFailures - 1
    BY <1>2, <2>2, Consts
  <2>4. o \in Orchestrator /\ SameButWait(orch, o)
    BY <2>2, <2>3 DEF Orchestrator, SameButWait
  <2> HIDE DEF o
  <2> QED
    BY <2>1, <2>4, MissedStep
<1> QED
  BY <1>1, <1>2

LEMMA AnsweredOK ==
  ASSUME IInv
  PROVE  Answered \in Orchestrator /\ SameButWait(orch, Answered) /\ Answered.polls = orch.polls
<1>1. 0 \in 0..MaxFailures - 1
  BY Consts
<1> QED
  BY <1>1, OrchFacts DEF Answered, Orchestrator, SameButWait

\* Continue starts the counters of the next wait.
LEMMA ContinueOK ==
  ASSUME NEW o \in Orchestrator, NEW step \in Steps, Continue(o, step)
  PROVE  /\ orch' \in Orchestrator /\ orch'.step = step /\ orch'.id = o.id /\ orch'.sha = o.sha
         /\ orch'.batch = o.batch /\ orch'.nonce = o.nonce /\ orch'.records = o.records
         /\ orch'.manifest = o.manifest /\ orch'.run = o.run /\ orch'.failed = o.failed
         /\ orch'.polls = 0
<1>1. 0 \in 0..MaxPolls - 1 /\ 0 \in 0..MaxFailures - 1
  BY Consts
<1> QED
  BY <1>1 DEF Continue, Orchestrator

-----------------------------------------------------------------------------
\* The steps of the orchestrator
LEMMA StartStep ==
  ASSUME IInv, Start
  PROVE  IInv'
<1>1. /\ orch' = [Idle EXCEPT !.step = "bind", !.id = orch.id + 1, !.sha = head]
      /\ orch.id < MaxOrchestrations /\ UNCHANGED <<head, runs, nonces, meddled>>
  BY DEF Start
<1>2. orch.id + 1 \in 0..MaxOrchestrations /\ orch.id + 1 # 0 /\ head \in 0..MaxPushes
      /\ "bind" \in Steps /\ nonces \in Nat
  <2>1. orch.id + 1 \in 0..MaxOrchestrations /\ orch.id + 1 # 0
    <3>1. orch.id \in Nat
      BY OrchFacts
    <3>2. MaxOrchestrations \in Nat
      BY Consts
    <3> QED
      BY <1>1, <3>1, <3>2
  <2> QED
    BY <2>1, OrchFacts DEF IInv, Steps
<1>3. /\ orch' \in Orchestrator /\ orch'.step = "bind" /\ orch'.id # 0 /\ orch'.nonce = 0
      /\ orch'.batch = 1 /\ orch'.records = <<>>
  BY <1>1, <1>2, IdleOK DEF Orchestrator, Idle
<1>4. OrchOK(runs, nonces, orch') /\ Descends(runs, orch')
  BY <1>2, <1>3 DEF OrchOK, Descends, Descended, WithManifest
<1> QED
  BY <1>1, <1>4 DEF IInv

LEMMA BindStep ==
  ASSUME IInv, Bind
  PROVE  IInv'
<1>1. orch.step = "bind" /\ UNCHANGED <<head, runs, nonces, meddled>>
  BY DEF Bind
<1>2. CASE Exit("failed")
  BY <1>1, <1>2, ExitStep
<1>3. CASE Continue(orch, "dispatch")
  <2>1. "dispatch" \in Steps
    BY DEF Steps
  <2>2. /\ orch' \in Orchestrator /\ orch'.step = "dispatch" /\ orch'.id = orch.id
        /\ orch'.batch = orch.batch /\ orch'.nonce = orch.nonce /\ orch'.records = orch.records
    BY <1>3, <2>1, OrchFacts, ContinueOK
  <2>3. orch.batch = 1 /\ orch.records = <<>> /\ orch.id # 0 /\ orch.nonce <= nonces
    BY <1>1, OrchFacts DEF OrchOK
  <2>4. OrchOK(runs, nonces, orch') /\ Descends(runs, orch')
    BY <2>2, <2>3 DEF OrchOK, Descends, Descended, WithManifest
  <2> QED
    BY <1>1, <2>4 DEF IInv
<1> QED
  BY <1>2, <1>3 DEF Bind

\* A dispatch that GitHub accepts makes one run with the nonce just drawn.
LEMMA CreatedOK ==
  ASSUME IInv, orch.id # 0, NEW w \in 0..BatchCount, NEW m \in Manifest,
         w = Summary => m.id # 0 /\ AllSucceeded(runs, m),
         NEW rs \in {runs} \cup Created(w, nonces + 1, m)
  PROVE  /\ RunsOK(rs, nonces + 1, meddled) /\ Grown(runs, rs)
         /\ \A r \in DOMAIN rs : \/ r \in DOMAIN runs /\ rs[r] = runs[r]
                                 \/ rs[r].manifest = m
<1>0. /\ nonces \in Nat /\ nonces + 1 \in Nat /\ nonces <= nonces + 1 /\ meddled \in Nat
      /\ meddled <= meddled /\ RunsOK(runs, nonces, meddled) /\ Grown(runs, runs)
  BY OrchFacts DEF IInv, Grown, Evolves
<1>1. CASE rs = runs
  <2>1. \A r \in DOMAIN runs : RunOK(runs, nonces + 1, meddled, runs[r])
    BY <1>0, RunOKGrows DEF RunsOK
  <2> QED
    BY <1>0, <1>1, <2>1 DEF RunsOK
<1>2. CASE rs # runs
  <2> DEFINE run == [workflow |-> w, id |-> orch.id, nonce |-> nonces + 1, expected |-> orch.sha,
             manifest |-> m, sha |-> head, status |-> "running", attempt |-> 1,
             first |-> "none", results |-> {}, listed |-> FALSE,
             stage |-> IF w = Summary THEN "bind" ELSE "none",
             batch |-> 1, missing |-> FALSE, collected |-> <<>>]
  <2>1. rs = Append(runs, run) /\ Len(runs) # MaxRuns
    BY <1>2 DEF Created
  <2>2. run \in Run
    <3>1. /\ orch.id \in 1..MaxOrchestrations /\ orch.sha \in 0..MaxPushes
          /\ head \in 0..MaxPushes
      <4>1. orch.id \in 0..MaxOrchestrations /\ orch.sha \in 0..MaxPushes
        BY OrchFacts DEF Orchestrator
      <4> QED
        BY <4>1, Consts DEF IInv
    <3>2. (IF w = Summary THEN "bind" ELSE "none") \in Stages /\ 1 \in Attempts
          /\ 1 \in 1..BatchCount + 1 /\ <<>> \in Seq(Nat)
      BY Consts DEF Stages, Attempts
    <3> QED
      BY <1>0, <3>1, <3>2 DEF Run
  <2>3. /\ run.workflow = w /\ run.attempt = 1 /\ run.first = "none" /\ run.status = "running"
        /\ run.stage = (IF w = Summary THEN "bind" ELSE "none") /\ run.batch = 1
        /\ run.collected = <<>> /\ run.nonce = nonces + 1 /\ run.manifest = m
    OBVIOUS
  <2> HIDE DEF run
  <2>4. RunOK(runs, nonces + 1, meddled, run)
    <3>1. Kept(run)
      BY <2>3 DEF Kept
    <3>2. Bounded(run, nonces + 1, meddled)
      BY <1>0, <2>3 DEF Bounded
    <3>3. Collecting(runs, run) /\ FromSuccess(runs, run)
      BY <2>3 DEF Collecting, Bound, FromSuccess
    <3> QED
      BY <3>1, <3>2, <3>3 DEF RunOK
  <2>5. Len(runs) < MaxRuns /\ Len(runs) \in Nat
    BY <1>0, <2>1, Consts DEF RunsOK
  <2>6. /\ RunsOK(rs, nonces + 1, meddled) /\ Grown(runs, rs)
        /\ DOMAIN rs = DOMAIN runs \cup {Len(runs) + 1} /\ rs[Len(runs) + 1] = run
        /\ \A r \in DOMAIN runs : rs[r] = runs[r]
    BY <1>0, <2>1, <2>2, <2>4, <2>5, AppendRunsOK
  <2> QED
    BY <2>3, <2>6
<1> QED
  BY <1>1, <1>2

LEMMA DispatchStep ==
  ASSUME IInv, Dispatch
  PROVE  IInv'
<1>1. /\ orch.step = "dispatch" /\ nonces' = nonces + 1 /\ UNCHANGED <<head, meddled>>
  BY DEF Dispatch
<1>2. orch.id # 0 /\ nonces \in Nat /\ nonces + 1 \in Nat
  BY <1>1, OrchFacts
<1>3. /\ runs' \in {runs} \cup Created(orch.batch, nonces + 1, NoManifest)
  BY <1>1 DEF Dispatch
<1>4. RunsOK(runs', nonces + 1, meddled) /\ Grown(runs, runs')
  <2>1. orch.batch \in 0..BatchCount /\ orch.batch # Summary
    BY OrchFacts, Consts DEF Batches, Summary
  <2> QED
    BY <1>2, <1>3, <2>1, IdleOK, CreatedOK
<1>5. CASE Exit("failed")
  <2>1. OrchOK(runs', nonces + 1, orch') /\ Descends(runs', orch')
    BY <1>2, <1>5, OrchFacts, ExitOK
  <2> QED
    BY <1>1, <1>2, <1>4, <2>1 DEF IInv
<1>6. ASSUME NEW records \in Prepared(nonces'),
             Continue([orch EXCEPT !.nonce = nonces', !.records = records], "register")
      PROVE  IInv'
  <2> DEFINE new == [batch |-> orch.batch, nonce |-> nonces + 1, run |-> 0]
  <2> DEFINE o == [orch EXCEPT !.nonce = nonces + 1, !.records = records]
  <2>1. records = Append(orch.records, new)
    BY <1>1, <1>6 DEF Prepared
  <2>2. new \in Record /\ new.run = 0
    BY <1>2, OrchFacts, Consts DEF Record
  <2> HIDE DEF new
  <2>3. /\ orch.records \in Seq(Record) /\ Len(orch.records) = orch.batch - 1
        /\ \A i \in DOMAIN orch.records :
             orch.records[i].run # 0 => orch.records[i].run \in DOMAIN runs
    BY <1>1, OrchFacts DEF OrchOK
  <2>4. records \in Seq(Record) /\ Len(records) = orch.batch
    <3>1. orch.batch \in Nat
      BY OrchFacts
    <3>2. records \in Seq(Record) /\ Len(records) = Len(orch.records) + 1
      BY <2>1, <2>2, <2>3
    <3> QED
      BY <2>3, <3>1, <3>2
  <2>5. \A i \in DOMAIN records : records[i].run # 0 => records[i].run \in DOMAIN runs
    <3> TAKE i \in DOMAIN records
    <3>1. \/ i \in DOMAIN orch.records /\ records[i] = orch.records[i]
          \/ records[i] = new
      BY <2>1, <2>2, <2>3
    <3> QED
      BY <2>2, <2>3, <3>1
  <2>6. /\ o \in Orchestrator /\ o.id = orch.id /\ o.batch = orch.batch /\ o.nonce = nonces + 1
        /\ o.records = records
    BY <1>2, <2>4, OrchFacts DEF Orchestrator
  <2>7. Continue(o, "register") /\ "register" \in Steps
    BY <1>1, <1>6 DEF Steps
  <2> HIDE DEF o
  <2>8. /\ orch' \in Orchestrator /\ orch'.step = "register" /\ orch'.id = orch.id
        /\ orch'.batch = orch.batch /\ orch'.nonce = nonces + 1 /\ orch'.records = records
    BY <2>6, <2>7, ContinueOK
  <2>9. OrchOK(runs', nonces + 1, orch') /\ Descends(runs', orch')
    BY <1>2, <1>4, <2>4, <2>5, <2>8 DEF OrchOK, Descends, Descended, WithManifest, Grown
  <2> QED
    BY <1>1, <1>2, <1>4, <2>9 DEF IInv
<1> QED
  BY <1>5, <1>6 DEF Dispatch

\* The pending record of the last dispatch gets its run.
LEMMA BindRecordStep ==
  ASSUME IInv, orch.step = "register", NEW r \in DOMAIN runs, BindRecord(r),
         UNCHANGED <<head, runs, nonces, meddled>>
  PROVE  IInv'
<1> DEFINE records == [orch.records EXCEPT ![orch.batch].run = r]
<1>1. /\ orch \in Orchestrator /\ orch.records \in Seq(Record) /\ Len(orch.records) = orch.batch
      /\ orch.batch \in Nat /\ orch.batch \in Batches /\ orch.id # 0 /\ orch.nonce <= nonces
      /\ nonces \in Nat
      /\ \A i \in DOMAIN orch.records :
           orch.records[i].run # 0 => orch.records[i].run \in DOMAIN runs
  BY OrchFacts DEF OrchOK
<1>2. r \in 0..MaxRuns /\ r # 0
  BY RunFacts, Consts
<1>3. /\ records \in Seq(Record) /\ Len(records) = orch.batch
      /\ \A i \in DOMAIN records : records[i].run # 0 => records[i].run \in DOMAIN runs
  <2>1. orch.batch \in DOMAIN orch.records
    BY <1>1, Consts DEF Batches
  <2>2. [orch.records[orch.batch] EXCEPT !.run = r] \in Record
        /\ [orch.records[orch.batch] EXCEPT !.run = r].run = r
    <3>1. orch.records[orch.batch] \in Record
      BY <1>1, <2>1
    <3> QED
      BY <1>2, <3>1 DEF Record
  <2>3. records = [orch.records EXCEPT ![orch.batch] = [orch.records[orch.batch] EXCEPT !.run = r]]
    OBVIOUS
  <2> QED
    BY <1>1, <2>1, <2>2, <2>3
<1> HIDE DEF records
<1>4. CASE Exit("failed")
  BY <1>4, ExitStep
<1>5. CASE Continue([orch EXCEPT !.records = records, !.batch = @ + 1, !.nonce = 0], "dispatch")
           /\ orch.batch < BatchCount
  <2> DEFINE o == [orch EXCEPT !.records = records, !.batch = orch.batch + 1, !.nonce = 0]
  <2>1. orch.batch + 1 \in Batches /\ "dispatch" \in Steps
    BY <1>1, <1>5, Consts DEF Batches, Steps
  <2>2. /\ o \in Orchestrator /\ o.id = orch.id /\ o.batch = orch.batch + 1 /\ o.nonce = 0
        /\ o.records = records
    BY <1>1, <1>3, <2>1 DEF Orchestrator
  <2>3. Continue(o, "dispatch")
    BY <1>5
  <2> HIDE DEF o
  <2>4. /\ orch' \in Orchestrator /\ orch'.step = "dispatch" /\ orch'.id = orch.id
        /\ orch'.batch = orch.batch + 1 /\ orch'.nonce = 0 /\ orch'.records = records
    BY <2>1, <2>2, <2>3, ContinueOK
  <2>5. OrchOK(runs, nonces, orch') /\ Descends(runs, orch')
    BY <1>1, <1>3, <2>4 DEF OrchOK, Descends, Descended, WithManifest
  <2> QED
    BY <2>5 DEF IInv
<1>6. CASE /\ Continue([orch EXCEPT !.records = <<>>, !.manifest = Built(records),
                                      !.batch = 1, !.nonce = 0], "wait")
           /\ ManifestValid(Built(records))
  <2> DEFINE m == Built(records)
  <2> DEFINE o == [orch EXCEPT !.records = <<>>, !.manifest = m, !.batch = 1, !.nonce = 0]
  <2>1. /\ m \in Manifest /\ m.id = orch.id /\ m.expected = orch.sha /\ m.batches = records
    BY <1>1, <1>3 DEF Built, Manifest, Orchestrator
  <2>2. InputsAgree(m, orch.id, orch.sha)
    BY <1>6, <2>1 DEF InputsAgree
  <2>3. \A b \in Batches : m.batches[b].run \in DOMAIN runs
    BY <1>3, <2>1, <2>2, AgreedInputs
  <2> HIDE DEF m
  <2>4. 1 \in Batches /\ "wait" \in Steps /\ <<>> \in Seq(Record)
    BY Consts DEF Batches, Steps
  <2>5. /\ o \in Orchestrator /\ o.id = orch.id /\ o.batch = 1 /\ o.nonce = 0
        /\ o.manifest = m /\ o.sha = orch.sha
    BY <1>1, <2>1, <2>4 DEF Orchestrator
  <2>6. Continue(o, "wait")
    BY <1>6 DEF m
  <2> HIDE DEF o
  <2>7. /\ orch' \in Orchestrator /\ orch'.step = "wait" /\ orch'.id = orch.id
        /\ orch'.batch = 1 /\ orch'.nonce = 0 /\ orch'.manifest = m /\ orch'.sha = orch.sha
    BY <2>4, <2>5, <2>6, ContinueOK
  <2>8. \A b \in 1..orch'.batch - 1 : Succeeded(runs, orch'.manifest.batches[b])
    BY <2>7
  <2>9. OrchOK(runs, nonces, orch') /\ Descends(runs, orch')
    BY <1>1, <2>2, <2>3, <2>7, <2>8 DEF OrchOK, Descends, Descended, WithManifest
  <2> QED
    BY <2>9 DEF IInv
<1> QED
  BY <1>4, <1>5, <1>6 DEF BindRecord, records

LEMMA RegisterStep ==
  ASSUME IInv, Register
  PROVE  IInv'
<1>1. orch.step = "register" /\ orch.step # "idle" /\ UNCHANGED <<head, runs, nonces, meddled>>
  BY DEF Register
<1>2. CASE LookupFails
  BY <1>1, <1>2, LookupFailsStep
<1>3. CASE Exit("failed")
  BY <1>1, <1>3, ExitStep
<1>4. CASE Missed(Answered)
  BY <1>1, <1>4, AnsweredOK, MissedStep
<1>5. CASE \E r \in DOMAIN runs : BindRecord(r)
  BY <1>1, <1>5, BindRecordStep
<1> QED
  BY <1>2, <1>3, <1>4, <1>5 DEF Register

LEMMA WaitForRunStep ==
  ASSUME IInv, WaitForRun
  PROVE  IInv'
<1> DEFINE r == orch.manifest.batches[orch.batch].run
<1> DEFINE o == [orch EXCEPT !.failed = orch.failed \/ runs[r].status = "failure"]
<1>1. orch.step = "wait" /\ orch.step # "idle" /\ UNCHANGED <<head, runs, nonces, meddled>>
  BY DEF WaitForRun
<1>2. /\ orch \in Orchestrator /\ orch.batch \in Batches /\ orch.batch \in Nat /\ orch.id # 0
      /\ orch.nonce <= nonces /\ orch.manifest \in Manifest
      /\ InputsAgree(orch.manifest, orch.id, orch.sha)
      /\ \A b \in Batches : orch.manifest.batches[b].run \in DOMAIN runs
      /\ ~orch.failed => \A b \in 1..orch.batch - 1 : Succeeded(runs, orch.manifest.batches[b])
  BY <1>1, OrchFacts DEF OrchOK, WithManifest
<1>3. CASE LookupFails
  BY <1>1, <1>3, LookupFailsStep
<1>4. CASE Exit("failed")
  BY <1>1, <1>4, ExitStep
<1>5. CASE Missed(Answered)
  BY <1>1, <1>5, AnsweredOK, MissedStep
<1>6. CASE /\ Acceptable(r) /\ Completed(r)
           /\ IF orch.batch = BatchCount THEN AllWaited(o)
              ELSE Continue([o EXCEPT !.batch = @ + 1], "wait")
  <2>1. r \in DOMAIN runs
    BY <1>2
  <2>2. /\ o \in Orchestrator /\ o.id = orch.id /\ o.sha = orch.sha /\ o.batch = orch.batch
        /\ o.nonce = orch.nonce /\ o.manifest = orch.manifest
        /\ (~o.failed => ~orch.failed /\ runs[r].status # "failure")
    <3>1. (orch.failed \/ runs[r].status = "failure") \in BOOLEAN
      OBVIOUS
    <3> QED
      BY <1>2, <3>1 DEF Orchestrator
  <2>3. ~o.failed => Succeeded(runs, orch.manifest.batches[orch.batch])
    <3>1. runs[r].attempt = 1 /\ runs[r].status \in {"success", "failure"}
      BY <1>6 DEF Acceptable, Completed
    <3>2. runs[r].first = runs[r].status
      BY <2>1, <3>1, RunFacts DEF RunOK, Kept
    <3> QED
      BY <2>1, <2>2, <3>1, <3>2 DEF Succeeded
  <2>4. ~o.failed => \A b \in 1..orch.batch : Succeeded(runs, orch.manifest.batches[b])
    BY <1>2, <2>2, <2>3
  <2> HIDE DEF o
  <2>5. CASE orch.batch = BatchCount /\ Exit("failed")
    BY <1>1, <2>5, ExitStep
  <2>6. CASE orch.batch = BatchCount /\ ~o.failed /\ Continue(o, "recheck")
    <3>1. "recheck" \in Steps
      BY DEF Steps
    <3>2. /\ orch' \in Orchestrator /\ orch'.step = "recheck" /\ orch'.id = orch.id
          /\ orch'.sha = orch.sha /\ orch'.nonce = orch.nonce /\ orch'.manifest = orch.manifest
      BY <2>2, <2>6, <3>1, ContinueOK
    <3>3. AllSucceeded(runs, orch.manifest)
      BY <1>2, <2>4, <2>6, AgreedInputs DEF AllSucceeded, Batches
    <3>4. OrchOK(runs, nonces, orch') /\ Descends(runs, orch')
      BY <1>2, <3>2, <3>3 DEF OrchOK, Descends, Descended, WithManifest
    <3> QED
      BY <1>1, <3>4 DEF IInv
  <2>7. CASE orch.batch # BatchCount /\ Continue([o EXCEPT !.batch = o.batch + 1], "wait")
    <3> DEFINE q == [o EXCEPT !.batch = o.batch + 1]
    <3>1. "wait" \in Steps /\ o.batch + 1 \in Batches
      BY <1>2, <2>2, <2>7, Consts DEF Steps, Batches
    <3>2. /\ q \in Orchestrator /\ q.id = orch.id /\ q.sha = orch.sha /\ q.batch = orch.batch + 1
          /\ q.nonce = orch.nonce /\ q.manifest = orch.manifest /\ q.failed = o.failed
      BY <2>2, <3>1 DEF Orchestrator
    <3> HIDE DEF q
    <3>3. Continue(q, "wait")
      BY <2>7 DEF q
    <3>4. /\ orch' \in Orchestrator /\ orch'.step = "wait" /\ orch'.id = orch.id
          /\ orch'.sha = orch.sha /\ orch'.nonce = orch.nonce /\ orch'.manifest = orch.manifest
          /\ orch'.batch = orch.batch + 1 /\ orch'.failed = o.failed
      BY <3>1, <3>2, <3>3, ContinueOK
    <3>5. 1..orch'.batch - 1 = 1..orch.batch
      BY <1>2, <3>4
    <3>6. ~orch'.failed => \A b \in 1..orch'.batch - 1 : Succeeded(runs, orch'.manifest.batches[b])
      BY <2>4, <3>4, <3>5
    <3>7. OrchOK(runs, nonces, orch') /\ Descends(runs, orch')
      BY <1>2, <3>4, <3>6 DEF OrchOK, Descends, Descended, WithManifest
    <3> QED
      BY <1>1, <3>7 DEF IInv
  <2> QED
    BY <1>6, <2>5, <2>6, <2>7 DEF AllWaited
<1> QED
  BY <1>3, <1>4, <1>5, <1>6 DEF WaitForRun

LEMMA RecheckStep ==
  ASSUME IInv, Recheck
  PROVE  IInv'
<1>1. orch.step = "recheck" /\ orch.step # "idle" /\ UNCHANGED <<head, runs, nonces, meddled>>
  BY DEF Recheck
<1>2. CASE Exit("failed")
  BY <1>1, <1>2, ExitStep
<1>3. CASE Continue(orch, "dispatchSummary")
  <2>1. "dispatchSummary" \in Steps
    BY DEF Steps
  <2>2. /\ orch' \in Orchestrator /\ orch'.step = "dispatchSummary" /\ orch'.id = orch.id
        /\ orch'.sha = orch.sha /\ orch'.nonce = orch.nonce /\ orch'.manifest = orch.manifest
    BY <1>3, <2>1, OrchFacts, ContinueOK
  <2>3. OrchOK(runs, nonces, orch') /\ Descends(runs, orch')
    BY <1>1, <2>2, OrchFacts DEF OrchOK, Descends, Descended, WithManifest
  <2> QED
    BY <1>1, <2>3 DEF IInv
<1> QED
  BY <1>2, <1>3 DEF Recheck

\* The nonce just drawn is no earlier run's: the only summary with it is the one dispatched.
LEMMA DispatchSummaryStep ==
  ASSUME IInv, DispatchSummary
  PROVE  IInv'
<1>1. orch.step = "dispatchSummary" /\ nonces' = nonces + 1 /\ UNCHANGED <<head, meddled>>
  BY DEF DispatchSummary
<1>2. /\ orch.id # 0 /\ nonces \in Nat /\ nonces + 1 \in Nat /\ orch \in Orchestrator
      /\ orch.manifest \in Manifest /\ InputsAgree(orch.manifest, orch.id, orch.sha)
      /\ \A b \in Batches : orch.manifest.batches[b].run \in DOMAIN runs
      /\ AllSucceeded(runs, orch.manifest)
  BY <1>1, OrchFacts DEF OrchOK, WithManifest
<1>3. runs' \in {runs} \cup Created(Summary, nonces + 1, orch.manifest)
  BY <1>1 DEF DispatchSummary
<1>4. /\ RunsOK(runs', nonces + 1, meddled) /\ Grown(runs, runs')
      /\ \A r \in DOMAIN runs' : \/ r \in DOMAIN runs /\ runs'[r] = runs[r]
                                 \/ runs'[r].manifest = orch.manifest
  <2>1. Summary \in 0..BatchCount /\ orch.manifest.id # 0
    BY <1>2, Consts, AgreedInputs DEF Summary
  <2> QED
    BY <1>2, <1>3, <2>1, CreatedOK
<1>5. CASE Exit("failed")
  <2>1. OrchOK(runs', nonces + 1, orch') /\ Descends(runs', orch')
    BY <1>2, <1>5, ExitOK
  <2> QED
    BY <1>1, <1>2, <1>4, <2>1 DEF IInv
<1>6. CASE Continue([orch EXCEPT !.nonce = nonces'], "registerSummary")
  <2> DEFINE o == [orch EXCEPT !.nonce = nonces + 1]
  <2>1. /\ o \in Orchestrator /\ o.id = orch.id /\ o.sha = orch.sha /\ o.nonce = nonces + 1
        /\ o.manifest = orch.manifest
    BY <1>2 DEF Orchestrator
  <2>2. Continue(o, "registerSummary") /\ "registerSummary" \in Steps
    BY <1>1, <1>6 DEF Steps
  <2> HIDE DEF o
  <2>3. /\ orch' \in Orchestrator /\ orch'.step = "registerSummary" /\ orch'.id = orch.id
        /\ orch'.sha = orch.sha /\ orch'.nonce = nonces + 1 /\ orch'.manifest = orch.manifest
    BY <2>1, <2>2, ContinueOK
  <2>4. OrchOK(runs', nonces + 1, orch')
    <3>1. AllSucceeded(runs', orch.manifest)
      BY <1>2, <1>4, GrownKeeps
    <3>2. DOMAIN runs \subseteq DOMAIN runs'
      BY <1>4 DEF Grown
    <3> QED
      BY <1>2, <2>3, <3>1, <3>2 DEF OrchOK, WithManifest
  <2>5. ASSUME NEW r \in DOMAIN runs' PROVE Descended(orch', runs'[r])
    <3>1. CASE r \in DOMAIN runs /\ runs'[r] = runs[r]
      <4>1. runs[r].nonce <= nonces /\ runs[r].nonce \in Nat
        BY <3>1, RunFacts DEF RunOK, Bounded, Run
      <4>2. runs'[r].nonce # orch'.nonce
        BY <1>2, <2>3, <3>1, <4>1
      <4> QED
        BY <4>2 DEF Descended
    <3>2. CASE runs'[r].manifest = orch.manifest
      <4>1. DOMAIN orch.manifest.batches = Batches
        BY <1>2, AgreedInputs
      <4> QED
        BY <2>3, <3>2, <4>1 DEF Descended
    <3> QED
      BY <1>4, <3>1, <3>2
  <2> QED
    BY <1>1, <1>2, <1>4, <2>4, <2>5 DEF IInv, Descends
<1> QED
  BY <1>5, <1>6 DEF DispatchSummary

LEMMA RegisterSummaryStep ==
  ASSUME IInv, RegisterSummary
  PROVE  IInv'
<1>1. orch.step = "registerSummary" /\ orch.step # "idle"
      /\ UNCHANGED <<head, runs, nonces, meddled>>
  BY DEF RegisterSummary
<1>2. CASE Missed(orch)
  BY <1>1, <1>2, OrchFacts, MissedStep DEF SameButWait
<1>3. CASE Exit("failed")
  BY <1>1, <1>3, ExitStep
<1>4. ASSUME NEW r \in DOMAIN runs, Found(r, Summary, orch.id, orch.nonce, orch.sha),
             Continue([orch EXCEPT !.run = r], "track")
      PROVE  IInv'
  <2> DEFINE o == [orch EXCEPT !.run = r]
  <2>1. orch \in Orchestrator /\ r \in 0..MaxRuns /\ "track" \in Steps
    BY RunFacts, OrchFacts, Consts DEF Steps
  <2>2. /\ o \in Orchestrator /\ o.id = orch.id /\ o.sha = orch.sha /\ o.nonce = orch.nonce
        /\ o.manifest = orch.manifest /\ o.run = r
    BY <2>1 DEF Orchestrator
  <2> HIDE DEF o
  <2>3. /\ orch' \in Orchestrator /\ orch'.step = "track" /\ orch'.id = orch.id
        /\ orch'.sha = orch.sha /\ orch'.nonce = orch.nonce /\ orch'.manifest = orch.manifest
        /\ orch'.run = r
    BY <1>4, <2>1, <2>2, ContinueOK DEF o
  <2>4. r \in Candidates(Summary, orch.id, orch.nonce, orch.sha)
    BY <1>4 DEF Found
  <2>5. /\ runs[r].workflow = Summary /\ runs[r].id = orch.id /\ runs[r].nonce = orch.nonce
        /\ runs[r].sha = orch.sha
    BY <2>4 DEF Candidates, Titled, ListedFor
  <2>6. OrchOK(runs, nonces, orch')
    BY <1>1, <2>3, <2>5, OrchFacts DEF OrchOK, WithManifest
  <2>7. Descends(runs, orch')
    BY <1>1, <2>3 DEF IInv, Descends, Descended
  <2> QED
    BY <1>1, <2>6, <2>7 DEF IInv
<1> QED
  BY <1>2, <1>3, <1>4 DEF RegisterSummary

LEMMA TrackStep ==
  ASSUME IInv, Track
  PROVE  IInv'
<1>1. orch.step = "track" /\ orch.step # "idle" /\ UNCHANGED <<head, runs, nonces, meddled>>
  BY DEF Track
<1>2. CASE Missed(orch)
  BY <1>1, <1>2, OrchFacts, MissedStep DEF SameButWait
<1>3. CASE Exit("failed") \/ Exit("succeeded")
  BY <1>1, <1>3, ExitStep
<1> QED
  BY <1>2, <1>3 DEF Track

LEMMA InitIInv == Init => IInv
<1> SUFFICES ASSUME Init PROVE IInv
  OBVIOUS
<1>1. head \in 0..MaxPushes /\ nonces \in Nat /\ meddled \in 0..MaxMeddling
  BY Consts DEF Init
<1>2. RunsOK(runs, nonces, meddled)
  BY Consts DEF Init, RunsOK
<1>3. orch = Idle /\ orch.step = "idle" /\ orch.nonce = 0 /\ runs = <<>>
  BY DEF Init, Idle
<1>4. OrchOK(runs, nonces, orch) /\ Descends(runs, orch)
  BY <1>1, <1>3, IdleOK DEF OrchOK, Descends, Descended, WithManifest
<1> QED
  BY <1>1, <1>2, <1>4 DEF IInv

LEMMA NextIInv == IInv /\ [Next]_vars => IInv'
<1> SUFFICES ASSUME IInv, [Next]_vars PROVE IInv'
  OBVIOUS
<1>1. CASE Start \/ Push
  BY <1>1, StartStep, PushStep
<1>2. CASE Orchestrate
  BY <1>2, BindStep, DispatchStep, RegisterStep, WaitForRunStep, RecheckStep,
     DispatchSummaryStep, RegisterSummaryStep, TrackStep DEF Orchestrate
<1>3. CASE \E r \in DOMAIN runs :
             \/ Summarise(r) \/ List(r) \/ FinishBatch(r) \/ Cancel(r) \/ Rerun(r)
             \/ DispatchAgain(r) \/ SummariseAgain(r)
  BY <1>3, SummariseStep, ListStep, FinishBatchStep, CancelStep, RerunStep, DispatchAgainStep,
     SummariseAgainStep
<1>4. CASE UNCHANGED vars
  BY <1>4 DEF vars, IInv
<1> QED
  BY <1>1, <1>2, <1>3, <1>4 DEF Next

-----------------------------------------------------------------------------
\* The invariant holds in every reachable state.
THEOREM Invariance == Spec => []IInv
<1>1. Init => IInv
  BY InitIInv
<1>2. IInv /\ [Next]_vars => IInv'
  BY NextIInv
<1> QED
  BY <1>1, <1>2, PTL DEF Spec

LEMMA AssembledHolds == IInv => AssembledExact
<1> SUFFICES ASSUME IInv PROVE AssembledExact
  OBVIOUS
<1>1. TypeOK
  BY DEF IInv, TypeOK, RunsOK, OrchOK
<1>2. ASSUME NEW s \in DOMAIN runs, runs[s].stage = "assembled", NEW b \in Batches
      PROVE  /\ Len(runs[s].manifest.batches) = BatchCount
             /\ Exact(runs, runs[s], b) /\ runs[s].collected[b] = 1
  <2>1. runs[s].stage \in Bound /\ Collecting(runs, runs[s]) /\ runs[s].manifest \in Manifest
    BY <1>2, RunFacts DEF Bound, RunOK, Run
  <2>2. /\ InputsAgree(runs[s].manifest, runs[s].id, runs[s].expected)
        /\ runs[s].batch = BatchCount + 1 /\ ~runs[s].missing
        /\ \A c \in 1..runs[s].batch - 1 : Exact(runs, runs[s], c) /\ runs[s].collected[c] = 1
    BY <1>2, <2>1 DEF Collecting
  <2>3. 1..runs[s].batch - 1 = Batches
    BY <2>2, Consts DEF Batches
  <2> QED
    BY <2>1, <2>2, <2>3, AgreedInputs
<1>3. 1 \in Batches
  BY Consts DEF Batches
<1> QED
  BY <1>1, <1>2, <1>3 DEF AssembledExact, Exact

\* What a summary has assembled is exact, batch by batch, whoever cancels, runs again,
\* dispatches by hand or rewrites a manifest, and all is well typed
\* (test-all-packages-summary.yml:117-251, orchestration_contract.py:317-475).
THEOREM AssembliesAreExact == Spec => []AssembledExact
BY Invariance, AssembledHolds, PTL

\* A summary is dispatched only when every batch of its manifest has succeeded the first time
\* (test-all-packages-orchestrator.yml:158-230).
THEOREM SummariesComeAfterSuccess == Spec => []SummaryAfterSuccess
<1>1. IInv => SummaryAfterSuccess
  BY RunFacts DEF SummaryAfterSuccess, RunOK, FromSuccess, AllSucceeded, Succeeded
<1> QED
  BY <1>1, Invariance, PTL

-----------------------------------------------------------------------------
\* A summary with consistent inputs and no records but the manifest's has that manifest.
LEMMA SameManifest ==
  ASSUME NEW m \in Manifest, NEW w \in Manifest, NEW id, NEW sha,
         InputsAgree(m, id, sha), InputsAgree(w, id, sha),
         \A i \in DOMAIN w.batches : \E b \in Batches : w.batches[i] = m.batches[b]
  PROVE  w = m
<1>1. /\ w.id = id /\ w.expected = sha /\ Len(w.batches) = BatchCount
      /\ DOMAIN w.batches = Batches /\ \A b \in Batches : w.batches[b].batch = b
  BY AgreedInputs
<1>2. /\ m.id = id /\ m.expected = sha /\ Len(m.batches) = BatchCount
      /\ DOMAIN m.batches = Batches /\ \A b \in Batches : m.batches[b].batch = b
  BY AgreedInputs
<1>3. \A b \in Batches : w.batches[b] = m.batches[b]
  BY <1>1, <1>2
<1>4. w.batches \in Seq(Record) /\ m.batches \in Seq(Record)
  BY DEF Manifest
<1>5. w.batches = m.batches
  BY <1>1, <1>2, <1>3, <1>4
<1> QED
  BY <1>1, <1>2, <1>5 DEF Manifest

\* The run that is tracked is the summary of the orchestrator's own manifest.
LEMMA TrackedAssembled ==
  ASSUME IInv, orch.step = "track", Acceptable(orch.run), Good(orch.run)
  PROVE  /\ orch.run \in DOMAIN runs
         /\ runs[orch.run].id = orch.id /\ runs[orch.run].workflow = Summary
         /\ runs[orch.run].stage = "assembled" /\ runs[orch.run].status = "success"
         /\ runs[orch.run].manifest = orch.manifest
<1> DEFINE run == runs[orch.run]
<1>1. /\ orch.run \in DOMAIN runs /\ run.workflow = Summary /\ run.id = orch.id
      /\ run.nonce = orch.nonce /\ run.sha = orch.sha
      /\ InputsAgree(orch.manifest, orch.id, orch.sha)
  BY OrchFacts DEF OrchOK, WithManifest
<1>2. run \in Run /\ RunOK(runs, nonces, meddled, run) /\ run.status = "success"
  BY <1>1, RunFacts DEF Good
<1>3. run.stage = "assembled"
  BY <1>1, <1>2 DEF RunOK, Kept
<1>4. InputsAgree(run.manifest, orch.id, orch.sha)
  BY <1>1, <1>2, <1>3 DEF RunOK, Collecting, Bound
<1>5. \A i \in DOMAIN run.manifest.batches :
        \E b \in Batches : run.manifest.batches[i] = orch.manifest.batches[b]
  BY <1>1 DEF IInv, Descends, Descended
<1>6. run.manifest \in Manifest /\ orch.manifest \in Manifest
  BY <1>2, OrchFacts DEF Run
<1>7. run.manifest = orch.manifest
  BY <1>1, <1>4, <1>5, <1>6, SameManifest
<1> QED
  BY <1>1, <1>2, <1>3, <1>7

\* The orchestrator ends well only by finding its summary good.
LEMMA SuccessIsTracked ==
  ASSUME IInv, [Next]_vars, orch.step = "track", orch'.step = "succeeded"
  PROVE  Acceptable(orch.run) /\ Good(orch.run)
<1>1. orch'.step # "track" /\ orch'.step # "failed" /\ orch'.step # "bind"
  OBVIOUS
<1>2. orch' # orch
  OBVIOUS
<1>3. ~Start
  <2>1. Start => orch'.step = "bind"
    BY DEF Start, Idle
  <2> QED
    BY <1>1, <2>1
<1>4. ~(\E r \in DOMAIN runs :
             \/ Summarise(r) \/ List(r) \/ FinishBatch(r) \/ Cancel(r) \/ Rerun(r)
             \/ DispatchAgain(r) \/ SummariseAgain(r))
  BY <1>2 DEF Summarise, BindBase, CheckRun, CheckArtifact, DownloadRun, FinishSummary, List,
     FinishBatch, Cancel, Rerun, DispatchAgain, SummariseAgain, Set, Meddle
<1>5. Track
  BY <1>2, <1>3, <1>4 DEF Next, vars, Push, Orchestrate, Bind, Dispatch, Register, WaitForRun,
     Recheck, DispatchSummary, RegisterSummary
<1>6. ~Exit("failed")
  BY <1>1 DEF Exit, Idle
<1>7. ~Missed(orch)
  <2>1. ~(orch' = [orch EXCEPT !.polls = @ + 1])
    BY <1>1, OrchFacts DEF Orchestrator
  <2> QED
    BY <1>6, <2>1 DEF Missed
<1> QED
  BY <1>5, <1>6, <1>7 DEF Track

\* When the orchestrator succeeds, the summary of its own runs has been assembled and has
\* succeeded (test-all-packages-orchestrator.yml:232-314).
THEOREM SuccessMeansAssembled == Spec => SucceededMeansAssembled
<1>1. IInv /\ [Next]_vars /\ orch.step = "track" /\ orch'.step = "succeeded" =>
          \E s \in DOMAIN runs : /\ runs[s].id = orch.id /\ runs[s].workflow = Summary
                                 /\ runs[s].stage = "assembled" /\ runs[s].status = "success"
                                 /\ runs[s].manifest = orch.manifest
  BY SuccessIsTracked, TrackedAssembled
<1> QED
  BY <1>1, Invariance, PTL DEF Spec, SucceededMeansAssembled

-----------------------------------------------------------------------------
\* The part of the orchestrator's progress that its polls do not change
Rank(o) ==
    LET half == IF o.step = "register" THEN 1 ELSE 0
    IN (Part(o.step) * (BatchCount + 1) + o.batch) * 2 + half

Working == {"bind", "dispatch", "register"} \cup WithManifest

LEMMA RankUp ==
  ASSUME NEW a \in Nat, NEW b \in Nat, NEW n \in Nat, NEW p \in Nat, NEW q \in Nat,
         a < b, p < n
  PROVE  b * n + q > a * n + p
<1>1. PICK d \in Nat : b = a + 1 + d
  <2>1. b - a - 1 \in Nat /\ b = a + 1 + (b - a - 1)
    OBVIOUS
  <2> QED
    BY <2>1
<1>2. b * n = a * n + n + d * n /\ d * n \in Nat /\ a * n \in Nat
  BY <1>1
<1> QED
  BY <1>2

LEMMA PartValues ==
  /\ Part("bind") = 0 /\ Part("dispatch") = 1 /\ Part("register") = 1 /\ Part("wait") = 2
  /\ Part("recheck") = 3 /\ Part("dispatchSummary") = 4 /\ Part("registerSummary") = 5
  /\ Part("track") = 6
BY DEF Part

LEMMA RankNat ==
  ASSUME NEW o \in Orchestrator, o.step \in Working
  PROVE  Rank(o) \in Nat
<1>1. Part(o.step) \in Nat
  BY PartValues DEF Working, WithManifest
<1>2. o.batch \in Nat
  BY Consts DEF Orchestrator, Batches
<1>3. Part(o.step) * (BatchCount + 1) \in Nat
  BY <1>1, Consts
<1> QED
  BY <1>2, <1>3 DEF Rank

\* The orchestrator comes closer to its end.
Nearer == orch'.step \in Ended \/ Progress(orch') > Progress(orch)

LEMMA ProgressRank ==
  ASSUME NEW o \in Orchestrator
  PROVE  Progress(o) = Rank(o) * MaxPolls + o.polls
BY DEF Progress, Rank

\* A new wait, further on
LEMMA RankNearer ==
  ASSUME IInv, orch.step \in Working, orch' \in Orchestrator, orch'.step \in Working,
         Rank(orch) < Rank(orch')
  PROVE  Nearer
<1>1. Rank(orch) \in Nat /\ Rank(orch') \in Nat
  BY OrchFacts, RankNat
<1>2. orch.polls \in Nat /\ orch.polls < MaxPolls /\ orch'.polls \in Nat
  <2>1. orch \in Orchestrator /\ orch.polls \in 0..MaxPolls - 1 /\ orch'.polls \in 0..MaxPolls - 1
    BY OrchFacts DEF Orchestrator
  <2> QED
    BY <2>1, Consts
<1>3. Rank(orch') * MaxPolls + orch'.polls > Rank(orch) * MaxPolls + orch.polls
  BY <1>1, <1>2, Consts, RankUp
<1> QED
  BY <1>3, OrchFacts, ProgressRank DEF Nearer

LEMMA ExitNearer ==
  ASSUME NEW step \in {"succeeded", "failed"}, Exit(step)
  PROVE  Nearer
BY DEF Exit, Idle, Nearer, Ended

LEMMA MissedNearer ==
  ASSUME IInv, orch.step \in Working, NEW o \in Orchestrator, SameButWait(orch, o),
         o.polls = orch.polls, Missed(o)
  PROVE  Nearer
<1>1. CASE o.polls + 1 = MaxPolls
  BY <1>1, ExitNearer DEF Missed
<1>2. CASE o.polls + 1 # MaxPolls
  <2>1. orch' = [o EXCEPT !.polls = o.polls + 1]
    BY <1>2 DEF Missed
  <2>2. /\ orch'.step = orch.step /\ orch'.batch = orch.batch /\ orch'.polls = orch.polls + 1
    BY <2>1 DEF SameButWait, Orchestrator
  <2>3. Rank(orch') = Rank(orch)
    BY <2>2 DEF Rank
  <2>4. Progress(orch') = Rank(orch) * MaxPolls + (orch.polls + 1)
    BY <2>2, <2>3 DEF Progress, Rank
  <2>5. Progress(orch) = Rank(orch) * MaxPolls + orch.polls
    BY OrchFacts, ProgressRank
  <2>6. Rank(orch) * MaxPolls \in Nat /\ orch.polls \in Nat
    <3>1. Rank(orch) \in Nat
      BY OrchFacts, RankNat
    <3> QED
      BY <3>1, OrchFacts, Consts
  <2> QED
    BY <2>4, <2>5, <2>6 DEF Nearer
<1> QED
  BY <1>1, <1>2

LEMMA LookupFailsNearer ==
  ASSUME IInv, orch.step \in Working, LookupFails
  PROVE  Nearer
<1>1. CASE orch.failures + 1 = MaxFailures
  BY <1>1, ExitNearer DEF LookupFails
<1>2. CASE orch.failures + 1 # MaxFailures
  <2> DEFINE o == [orch EXCEPT !.failures = orch.failures + 1]
  <2>1. Missed(o)
    BY <1>2 DEF LookupFails
  <2>2. orch \in Orchestrator /\ orch.failures \in 0..MaxFailures - 1
    BY OrchFacts DEF Orchestrator
  <2>3. orch.failures + 1 \in 0..MaxFailures - 1
    BY <1>2, <2>2, Consts
  <2>4. o \in Orchestrator /\ SameButWait(orch, o) /\ o.polls = orch.polls
    BY <2>2, <2>3 DEF Orchestrator, SameButWait
  <2> HIDE DEF o
  <2> QED
    BY <2>1, <2>4, MissedNearer
<1> QED
  BY <1>1, <1>2

\* On to a later part of the script, to the next batch, or from a dispatch to its lookup
LEMMA StepNearer ==
  ASSUME IInv, orch.step \in Working, orch' \in Orchestrator, orch'.step \in Working,
         \/ Part(orch.step) < Part(orch'.step)
         \/ /\ Part(orch.step) = Part(orch'.step)
            /\ \/ orch.batch < orch'.batch
               \/ orch.batch = orch'.batch /\ orch.step = "dispatch" /\ orch'.step = "register"
  PROVE  Nearer
<1>1. /\ Part(orch.step) \in Nat /\ Part(orch'.step) \in Nat
      /\ orch.batch \in 1..BatchCount /\ orch'.batch \in 1..BatchCount
  <2>1. Part(orch.step) \in Nat /\ Part(orch'.step) \in Nat
    BY PartValues DEF Working, WithManifest
  <2> QED
    BY <2>1, OrchFacts DEF Orchestrator, Batches
<1> DEFINE here == Part(orch.step) * (BatchCount + 1) + orch.batch
<1> DEFINE there == Part(orch'.step) * (BatchCount + 1) + orch'.batch
<1>2. here \in Nat /\ there \in Nat
  <2>1. Part(orch.step) * (BatchCount + 1) \in Nat /\ Part(orch'.step) * (BatchCount + 1) \in Nat
    BY <1>1, Consts
  <2> QED
    BY <1>1, <2>1, Consts
<1>3. here < there \/ (here = there /\ orch.step = "dispatch" /\ orch'.step = "register")
  <2>1. CASE Part(orch.step) < Part(orch'.step)
    <3>1. BatchCount + 1 \in Nat /\ orch.batch < BatchCount + 1 /\ orch.batch \in Nat
          /\ orch'.batch \in Nat
      BY <1>1, Consts
    <3> QED
      BY <1>1, <2>1, <3>1, RankUp
  <2>2. CASE Part(orch.step) = Part(orch'.step)
    <3>1. Part(orch'.step) * (BatchCount + 1) \in Nat
      BY <1>1, Consts
    <3> HIDE DEF here, there
    <3> QED
      BY <1>1, <2>2, <3>1, Consts DEF here, there
  <2> QED
    BY <2>1, <2>2
<1>4. Rank(orch) = here * 2 + (IF orch.step = "register" THEN 1 ELSE 0)
      /\ Rank(orch') = there * 2 + (IF orch'.step = "register" THEN 1 ELSE 0)
  BY DEF Rank
<1> HIDE DEF here, there
<1>5. Rank(orch) < Rank(orch')
  BY <1>2, <1>3, <1>4
<1> QED
  BY <1>5, RankNearer

LEMMA OrchestrateNearer ==
  ASSUME IInv, [Next]_vars, Orchestrate
  PROVE  Nearer
<1>1. /\ orch \in Orchestrator /\ orch' \in Orchestrator /\ orch.batch \in Nat
      /\ orch.batch \in Batches
  <2>1. IInv'
    BY NextIInv
  <2> QED
    BY <2>1, OrchFacts DEF IInv, OrchOK
<1>2. CASE Bind
  <2>1. orch.step = "bind" /\ orch.step \in Working /\ "dispatch" \in Working
    BY <1>2 DEF Bind, Working
  <2>2. CASE Continue(orch, "dispatch")
    <3>1. orch'.step = "dispatch"
      BY <1>1, <2>2 DEF Continue, Orchestrator
    <3> QED
      BY <1>1, <2>1, <3>1, PartValues, StepNearer
  <2> QED
    BY <1>2, <2>2, ExitNearer DEF Bind
<1>3. CASE Dispatch
  <2>1. orch.step = "dispatch" /\ orch.step \in Working /\ "register" \in Working
    BY <1>3 DEF Dispatch, Working
  <2>2. ASSUME NEW records \in Prepared(nonces'),
               Continue([orch EXCEPT !.nonce = nonces', !.records = records], "register")
        PROVE  Nearer
    <3>1. orch'.step = "register" /\ orch'.batch = orch.batch
      BY <1>1, <2>2 DEF Continue, Orchestrator
    <3> QED
      BY <1>1, <2>1, <3>1, PartValues, StepNearer
  <2> QED
    BY <1>3, <2>2, ExitNearer DEF Dispatch
<1>4. CASE Register
  <2>1. orch.step = "register" /\ orch.step \in Working
        /\ "dispatch" \in Working /\ "wait" \in Working
    BY <1>4 DEF Register, Working, WithManifest
  <2>2. CASE LookupFails
    BY <2>1, <2>2, LookupFailsNearer
  <2>3. CASE Missed(Answered)
    BY <2>1, <2>3, AnsweredOK, MissedNearer
  <2>4. ASSUME NEW r \in DOMAIN runs, BindRecord(r) PROVE Nearer
    <3> DEFINE records == [orch.records EXCEPT ![orch.batch].run = r]
    <3>1. CASE Continue([orch EXCEPT !.records = records, !.batch = @ + 1, !.nonce = 0], "dispatch")
      <4>1. orch'.step = "dispatch" /\ orch'.batch = orch.batch + 1
        BY <1>1, <3>1 DEF Continue, Orchestrator
      <4>2. orch.batch < orch'.batch
        BY <1>1, <4>1
      <4> QED
        BY <1>1, <2>1, <4>1, <4>2, PartValues, StepNearer
    <3>2. CASE Continue([orch EXCEPT !.records = <<>>, !.manifest = Built(records),
                                      !.batch = 1, !.nonce = 0], "wait")
      <4>1. orch'.step = "wait"
        BY <1>1, <3>2 DEF Continue, Orchestrator
      <4> QED
        BY <1>1, <2>1, <4>1, PartValues, StepNearer
    <3> QED
      BY <2>4, <3>1, <3>2, ExitNearer DEF BindRecord
  <2> QED
    BY <1>4, <2>2, <2>3, <2>4, ExitNearer DEF Register
<1>5. CASE WaitForRun
  <2> DEFINE r == orch.manifest.batches[orch.batch].run
  <2> DEFINE o == [orch EXCEPT !.failed = @ \/ runs[r].status = "failure"]
  <2>1. orch.step = "wait" /\ orch.step \in Working /\ "recheck" \in Working
    BY <1>5 DEF WaitForRun, Working, WithManifest
  <2>2. CASE LookupFails
    BY <2>1, <2>2, LookupFailsNearer
  <2>3. CASE Missed(Answered)
    BY <2>1, <2>3, AnsweredOK, MissedNearer
  <2>4. CASE Continue(o, "recheck")
    <3>1. orch'.step = "recheck"
      BY <1>1, <2>4 DEF Continue, Orchestrator
    <3> QED
      BY <1>1, <2>1, <3>1, PartValues, StepNearer
  <2>5. CASE Continue([o EXCEPT !.batch = @ + 1], "wait")
    <3>1. orch'.step = "wait" /\ orch'.batch = orch.batch + 1
      BY <1>1, <2>5 DEF Continue, Orchestrator
    <3>2. orch.batch < orch'.batch
      BY <1>1, <3>1
    <3> QED
      BY <1>1, <2>1, <3>1, <3>2, PartValues, StepNearer
  <2> QED
    BY <1>5, <2>2, <2>3, <2>4, <2>5, ExitNearer DEF WaitForRun, AllWaited
<1>6. CASE Recheck
  <2>1. orch.step = "recheck" /\ orch.step \in Working /\ "dispatchSummary" \in Working
    BY <1>6 DEF Recheck, Working, WithManifest
  <2>2. CASE Continue(orch, "dispatchSummary")
    <3>1. orch'.step = "dispatchSummary"
      BY <1>1, <2>2 DEF Continue, Orchestrator
    <3> QED
      BY <1>1, <2>1, <3>1, PartValues, StepNearer
  <2> QED
    BY <1>6, <2>2, ExitNearer DEF Recheck
<1>7. CASE DispatchSummary
  <2>1. /\ orch.step = "dispatchSummary" /\ orch.step \in Working
        /\ "registerSummary" \in Working
    BY <1>7 DEF DispatchSummary, Working, WithManifest
  <2>2. CASE Continue([orch EXCEPT !.nonce = nonces'], "registerSummary")
    <3>1. orch'.step = "registerSummary"
      BY <1>1, <2>2 DEF Continue, Orchestrator
    <3> QED
      BY <1>1, <2>1, <3>1, PartValues, StepNearer
  <2> QED
    BY <1>7, <2>2, ExitNearer DEF DispatchSummary
<1>8. CASE RegisterSummary
  <2>1. /\ orch.step = "registerSummary" /\ orch.step \in Working /\ "track" \in Working
        /\ SameButWait(orch, orch)
    BY <1>8 DEF RegisterSummary, Working, WithManifest, SameButWait
  <2>2. CASE Missed(orch)
    BY <1>1, <2>1, <2>2, MissedNearer
  <2>3. ASSUME NEW r, Continue([orch EXCEPT !.run = r], "track") PROVE Nearer
    <3>1. orch'.step = "track"
      BY <1>1, <2>3 DEF Continue, Orchestrator
    <3> QED
      BY <1>1, <2>1, <3>1, PartValues, StepNearer
  <2> QED
    BY <1>8, <2>2, <2>3, ExitNearer DEF RegisterSummary
<1>9. CASE Track
  <2>1. orch.step \in Working /\ SameButWait(orch, orch)
    BY <1>9 DEF Track, Working, WithManifest, SameButWait
  <2>2. CASE Missed(orch)
    BY <1>1, <2>1, <2>2, MissedNearer
  <2> QED
    BY <1>9, <2>2, ExitNearer DEF Track
<1> QED
  BY <1>2, <1>3, <1>4, <1>5, <1>6, <1>7, <1>8, <1>9 DEF Orchestrate

\* Whatever GitHub answers, each step of the orchestrator brings it closer to its end
\* (test-all-packages-orchestrator.yml:107-140, 182-223, 263-314).
THEOREM WaitsAreBounded == Spec => EveryWaitBounded
<1>1. ASSUME IInv, [Next]_vars, orch' # orch, orch'.id = orch.id
      PROVE  orch'.step \in Ended \/ Progress(orch') > Progress(orch)
  <2>1. ~Start
    <3>1. Start => orch'.id = orch.id + 1
      BY IdleOK DEF Start, Idle
    <3>2. orch.id \in Nat
      BY <1>1, OrchFacts
    <3> QED
      BY <1>1, <3>1, <3>2
  <2>2. ~(\E r \in DOMAIN runs :
             \/ Summarise(r) \/ List(r) \/ FinishBatch(r) \/ Cancel(r) \/ Rerun(r)
             \/ DispatchAgain(r) \/ SummariseAgain(r))
    BY <1>1 DEF Summarise, BindBase, CheckRun, CheckArtifact, DownloadRun, FinishSummary, List,
       FinishBatch, Cancel, Rerun, DispatchAgain, SummariseAgain, Set, Meddle
  <2>3. Orchestrate
    BY <1>1, <2>1, <2>2 DEF Next, vars, Push
  <2> QED
    BY <1>1, <2>3, OrchestrateNearer DEF Nearer
<1>2. IInv /\ [Next]_vars => (orch' # orch /\ orch'.id = orch.id =>
          orch'.step \in Ended \/ Progress(orch') > Progress(orch))
  BY <1>1
<1> QED
  BY <1>2, Invariance, PTL DEF Spec, EveryWaitBounded

=============================================================================
