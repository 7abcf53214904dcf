--------------------------- MODULE BatchEvidence_proofs ---------------------------
(***************************************************************************)
(* Proofs about BatchEvidence, ResultPolicy and LocalActions: what the      *)
(* programs that judge a result agree on, what a discovery finds, and what  *)
(* an aggregate rests on, for any commits, batches, packages and limits.    *)
(*                                                                         *)
(* The invariant EvidenceInv ties what the parent has read, what a manifest *)
(* holds and what an aggregate says to the history of the runs, to which a  *)
(* step only adds (Evolves).  SoundInv is for an orchestration nobody    *)
(* interferes with: nothing the parent may find makes it give up.           *)
(***************************************************************************)
EXTENDS BatchEvidence, FiniteSetTheorems, WellFoundedInduction, TLAPS

-----------------------------------------------------------------------------
\* The judges of a result

LEMMA BaselineFailedNat ==
  \A c : BaselineFailed(c) \in Nat
<1> TAKE c
<1>1. IsFiniteSet(BaselineTests)
  BY FS_Interval, PolicyConstants DEF BaselineTests
<1> QED
  BY <1>1, FS_Subset, FS_CardinalityType DEF BaselineFailed

\* What expected_regression_metadata and _semantic_policy say, group by group
LEMMA ExpectedOK ==
  ASSUME NEW d, NEW n \in Nat, NEW m
  PROVE  m \in ExpectedMetadata(d, n) <=>
           /\ m = [status |-> m.status, applicability |-> m.applicability, reason |-> m.reason,
                   run |-> m.run]
           /\ \/ /\ n > 0 /\ d.group = "baseline" /\ m.status = "skipped"
                 /\ m.applicability = "not_applicable" /\ m.reason = d /\ m.run = "failure"
              \/ /\ n = 0 /\ d.group = "passed" /\ m.status = "passed"
                 /\ m.applicability = "applicable" /\ m.reason = Validated /\ m.run = "success"
              \/ /\ n = 0 /\ d.group = "failed" /\ m.status = "failed"
                 /\ m.applicability = "applicable" /\ m.reason = d /\ m.run = "failure"
              \/ /\ n = 0 /\ d.group = "deferred" /\ m.status = "deferred"
                 /\ m.applicability = "applicable" /\ m.reason = d /\ m.run = "success"
              \/ /\ n = 0 /\ d.group = "not_applicable" /\ m.status = "not_applicable"
                 /\ m.applicability = "not_applicable" /\ m.reason = d /\ m.run = "success"
  BY DEF ExpectedMetadata, Metadata

LEMMA ClaimTypes ==
  ASSUME NEW c \in Claim
  PROVE  /\ c.decision \in Decisions \cup {NoDecision} /\ c.metaDecision \in Decisions \cup {NoDecision}
         /\ c.decision # NoDecision => c.decision \in Decisions /\ c.decision.group # "none"
         /\ c.status \in [Tests -> {"passed", "failed", "skipped"}]
         /\ Sixth \in Tests
         /\ c.regression \in {"passed", "failed", "skipped", "deferred", "not_applicable", "none"}
         /\ c.run \in {"success", "failure"} /\ c.badge \in {"passing", "failing"}
  BY PolicyConstants DEF Claim, NoDecision, Groups, Tests, Sixth

\* What the promotion asks of a result beyond what all judges do, for tests that show n failures
LEMMA PublishableOK ==
  ASSUME NEW c \in Claim
  PROVE  Publishable(c) <=>
           LET n == BaselineFailed(c) IN
           /\ c.decision # NoDecision /\ c.metaDecision = c.decision
           /\ NamesInOrder(c) /\ c.sixthName # "regression" /\ NoBaselineSkipped(c) /\ ~c.stray
           /\ CountersRight(c) /\ c.core = n
           /\ \E m \in ExpectedMetadata(c.decision, n) :
                /\ c.status[Sixth] = Test6Of(m.status) /\ c.run = m.run
                /\ c.regression = m.status /\ c.applicability = m.applicability /\ c.reason = m.reason
           /\ c.badge = BadgeOf(c.run)
<1> DEFINE n == BaselineFailed(c)
<1> USE BaselineFailedNat
<1>1. n \in Nat
  OBVIOUS
<1>2. \A m1, m2 \in ExpectedMetadata(c.decision, n) : m1 = m2
  <2> HIDE DEF n
  <2> SUFFICES ASSUME NEW m1 \in ExpectedMetadata(c.decision, n), NEW m2 \in ExpectedMetadata(c.decision, n)
               PROVE  m1 = m2
    OBVIOUS
  <2> QED
    BY <1>1, ExpectedOK
<1>3. ASSUME Publishable(c)
      PROVE  /\ NamesInOrder(c) /\ c.sixthName # "regression" /\ NoBaselineSkipped(c) /\ ~c.stray
             /\ CountersRight(c) /\ c.core = n
             /\ \E m \in ExpectedMetadata(c.decision, n) :
                  /\ c.status[Sixth] = Test6Of(m.status) /\ c.run = m.run
                  /\ c.regression = m.status /\ c.applicability = m.applicability /\ c.reason = m.reason
  <2>1. SixTestResult(c, c.decision) = {c.run}
    BY <1>3 DEF Publishable
  <2>2. PICK m \in ExpectedMetadata(c.decision, n) :
          /\ m.run = c.run /\ NamesInOrder(c) /\ c.sixthName # "regression" /\ NoBaselineSkipped(c)
          /\ ~c.stray /\ CountersRight(c) /\ c.core = n /\ c.status[Sixth] = Test6Of(m.status)
    BY <2>1 DEF SixTestResult
  <2>3. PICK m2 \in ExpectedMetadata(c.decision, n) :
          c.regression = m2.status /\ c.applicability = m2.applicability /\ c.reason = m2.reason
    BY <1>3, <2>2 DEF Publishable
  <2>4. m2 = m
    BY <1>2
  <2> QED
    BY <2>2, <2>3, <2>4
<1>4. ASSUME /\ c.decision # NoDecision /\ c.metaDecision = c.decision
             /\ NamesInOrder(c) /\ c.sixthName # "regression" /\ NoBaselineSkipped(c) /\ ~c.stray
             /\ CountersRight(c) /\ c.core = n
             /\ c.badge = BadgeOf(c.run),
             NEW m \in ExpectedMetadata(c.decision, n),
             /\ c.status[Sixth] = Test6Of(m.status) /\ c.run = m.run
             /\ c.regression = m.status /\ c.applicability = m.applicability /\ c.reason = m.reason
      PROVE  Publishable(c)
  <2>1. SixTestResult(c, c.decision) = {m.run}
    BY <1>2, <1>4 DEF SixTestResult
  <2> QED
    BY <1>4, <2>1 DEF Publishable
<1> QED
  BY <1>3, <1>4 DEF Publishable

LEMMA AggregatesOK ==
  ASSUME NEW c \in Claim, c.told, ~c.stray, c.sixthName \in {"test6", "applicability"}, NEW k
  PROVE  Aggregates(c, k) <=> Publishable(c) /\ k = c.run
<1> DEFINE n == BaselineFailed(c)
           Met == \E m \in ExpectedMetadata(c.decision, n) :
                /\ c.status[Sixth] = Test6Of(m.status) /\ c.run = m.run
                /\ c.regression = m.status /\ c.applicability = m.applicability /\ c.reason = m.reason
           Ruled == \/ BaselineBranch(c)
                    \/ RegressionBranch(c, "failed", "applicable")
                    \/ RegressionBranch(c, "deferred", "applicable")
                    \/ RegressionBranch(c, "not_applicable", "not_applicable")
                    \/ RegressionBranch(c, "passed", "applicable")
           Concluded == c.run = IF n = 0 /\ c.regression # "failed" THEN "success" ELSE "failure"
<1>1. n \in Nat
  BY BaselineFailedNat
<1>2. ASSUME c.decision = c.metaDecision, c.decision # NoDecision
      PROVE  Met <=> /\ c.regression # "none" /\ c.status[Sixth] = Test6Of(c.regression)
                     /\ Ruled /\ Concluded
  <2> DEFINE R(m) == /\ c.status[Sixth] = Test6Of(m.status) /\ c.run = m.run
                     /\ c.regression = m.status /\ c.applicability = m.applicability
                     /\ c.reason = m.reason
  <2>1. ASSUME NEW m \in ExpectedMetadata(c.decision, n), R(m)
        PROVE  c.regression # "none" /\ c.status[Sixth] = Test6Of(c.regression) /\ Ruled /\ Concluded
    <3> HIDE DEF n
    <3> QED
      BY <1>1, <1>2, <2>1, ExpectedOK DEF BaselineBranch, RegressionBranch, n
  <2>2. ASSUME c.regression # "none", c.status[Sixth] = Test6Of(c.regression), Ruled, Concluded
        PROVE  Met
    <3> DEFINE m == [status |-> c.regression, applicability |-> c.applicability,
                     reason |-> c.reason, run |-> c.run]
    <3>1. m \in ExpectedMetadata(c.decision, n)
      BY <1>1, <1>2, <2>2, ExpectedOK DEF BaselineBranch, RegressionBranch
    <3> QED
      BY <2>2, <3>1
  <2> QED
    BY <2>1, <2>2
<1> QED
  BY <1>2, PublishableOK DEF Aggregates, DetailsValid

\* The part of its rules that the promotion shares with its compatible policy follows from the
\* publishing policy: only the conclusion of the job comes on top.
LEMMA PromotesOK ==
  ASSUME NEW c \in Claim, c.sixthName # "mention", NEW k
  PROVE  PromotesStrict(c, k) <=> Publishable(c) /\ k = c.run
<1> DEFINE n == BaselineFailed(c)
<1>1. n \in Nat
  BY BaselineFailedNat
<1>2. ASSUME Publishable(c)
      PROVE  PersistedForm(c, c.run, FALSE)
  <2>1. /\ c.decision # NoDecision /\ c.metaDecision = c.decision
        /\ NamesInOrder(c) /\ NoBaselineSkipped(c) /\ ~c.stray
        /\ CountersRight(c) /\ c.core = n /\ c.badge = BadgeOf(c.run)
    BY <1>2, PublishableOK
  <2>2. PICK m \in ExpectedMetadata(c.decision, n) :
                /\ c.status[Sixth] = Test6Of(m.status) /\ c.run = m.run
                /\ c.regression = m.status /\ c.applicability = m.applicability /\ c.reason = m.reason
    BY <1>2, PublishableOK
  <2>3. {c.names[t] : t \in BaselineTests} = BaselineTests
    BY <2>1 DEF NamesInOrder
  <2>4. /\ c.decision.group \in GroupsFor(c)
        /\ c.run = IF n = 0 /\ c.status[Sixth] # "failed" THEN "success" ELSE "failure"
    <3> HIDE DEF n
    <3> QED
      BY <1>1, <2>2, ExpectedOK DEF GroupsFor, Test6Of, n
  <2> QED
    BY <2>1, <2>2, <2>3, <2>4 DEF PersistedForm
<1>3. \A conclusion : PersistedForm(c, conclusion, FALSE) =>
        conclusion = c.run /\ (conclusion = c.run => PersistedForm(c, c.run, FALSE))
  BY DEF PersistedForm
<1>4. Publishable(c) => NamesInOrder(c)
  BY PublishableOK
<1> QED
  BY <1>2, <1>3, <1>4 DEF PromotesStrict

\* The aggregation and the promotion accept the same results, but for the sixth test's other
\* names, its texts and stray evidence (exact_run_aggregation.py:1350-1495,
\* promote_package_results.py:534-752).
THEOREM JudgesAgree ==
  ASSUME NEW c \in Claim, c.told, ~c.stray, c.sixthName \in {"test6", "applicability"}, NEW k
  PROVE  Aggregates(c, k) <=> PromotesStrict(c, k)
BY AggregatesOK, PromotesOK

\* What the producer makes of an observation is published by the policy and taken by both
\* judges (package_observation.py:183-217, 413-488).
LEMMA ObservedOK ==
  ASSUME NEW c \in Claim, c.sixthName # "regression", NEW o \in Observations(c)
  PROVE  /\ Bind(o) \in Claim /\ Bind(o).told /\ ~Bind(o).stray
         /\ Bind(o).sixthName \in {"test6", "applicability"} /\ Bind(o).run = o.run
         /\ Publishable(Bind(o))
<1> DEFINE n == BaselineFailed(c)
<1>1. PICK m \in SemanticPolicy(n, c.status[Sixth], c.decision) :
        /\ ObservationValid(c) /\ c.run = m.run /\ c.badge = BadgeOf(m.run)
        /\ o = [c EXCEPT !.stray = FALSE, !.metaDecision = c.decision, !.regression = m.status,
                         !.applicability = m.applicability, !.reason = m.reason]
  BY DEF Observations
<1>2. n \in Nat
  BY BaselineFailedNat
<1>3. /\ m \in ExpectedMetadata(c.decision, n) /\ c.status[Sixth] = Test6Of(m.status)
      /\ c.decision.group \in Groups
      /\ m.status \in {"passed", "failed", "skipped", "deferred", "not_applicable"}
      /\ m.applicability \in {"applicable", "not_applicable"}
      /\ m.reason \in {c.decision, Validated}
  <2> HIDE DEF n
  <2> QED
    BY <1>2, ExpectedOK DEF SemanticPolicy, Metadata, Test6Of, Groups
<1>4. c.decision \in Decisions /\ c.decision # NoDecision
  BY <1>3, ClaimTypes DEF NoDecision, Groups
<1>5. Bind(o) = [c EXCEPT !.decision = c.decision, !.stray = FALSE, !.metaDecision = c.decision,
                          !.regression = m.status, !.applicability = m.applicability,
                          !.reason = m.reason]
  BY <1>1 DEF Bind, Claim
<1> DEFINE b == Bind(o)
<1>6. /\ b \in Claim /\ b.names = c.names /\ b.sixthName = c.sixthName /\ b.status = c.status
      /\ b.passed = c.passed /\ b.failed = c.failed /\ b.skipped = c.skipped /\ b.core = c.core
      /\ ~b.stray /\ b.told = c.told /\ b.decision = c.decision /\ b.metaDecision = c.decision
      /\ b.regression = m.status /\ b.applicability = m.applicability /\ b.reason = m.reason
      /\ b.run = c.run /\ b.badge = c.badge /\ o.run = c.run
  <2>1. /\ m.status \in {"passed", "failed", "skipped", "deferred", "not_applicable", "none"}
        /\ m.reason \in Decisions \cup {Validated, NoDecision}
    BY <1>3, <1>4
  <2>2. o \in Claim /\ o.run = c.run
    BY <1>1, <1>3, <1>4, <2>1 DEF Claim
  <2>3. b \in Claim
    BY <1>4, <2>2 DEF Bind, Claim
  <2>4. \A d, s, e, r, a, w : LET x == [c EXCEPT !.decision = d, !.stray = s, !.metaDecision = e,
                                                 !.regression = r, !.applicability = a, !.reason = w]
          IN /\ x.names = c.names /\ x.sixthName = c.sixthName /\ x.status = c.status
             /\ x.passed = c.passed /\ x.failed = c.failed /\ x.skipped = c.skipped
             /\ x.core = c.core /\ x.stray = s /\ x.told = c.told /\ x.decision = d
             /\ x.metaDecision = e /\ x.regression = r /\ x.applicability = a /\ x.reason = w
             /\ x.run = c.run /\ x.badge = c.badge
    BY DEF Claim
  <2> HIDE DEF b
  <2> QED
    BY <1>5, <2>2, <2>3, <2>4 DEF b
<1> HIDE DEF b
<1>7. BaselineFailed(b) = n /\ (CountersRight(b) <=> CountersRight(c))
      /\ (NoBaselineSkipped(b) <=> NoBaselineSkipped(c)) /\ (NamesInOrder(b) <=> NamesInOrder(c))
  BY <1>6 DEF BaselineFailed, CountersRight, Number, NoBaselineSkipped, NamesInOrder
<1>8. /\ NamesInOrder(c) /\ c.sixthName # "mention" /\ NoBaselineSkipped(c) /\ CountersRight(c)
      /\ c.told /\ c.core = n /\ c.run = m.run /\ c.badge = BadgeOf(c.run)
  BY <1>1 DEF ObservationValid
<1>9. c.sixthName \in {"test6", "applicability"}
  BY <1>8 DEF Claim
<1>10. Publishable(b)
  <2> HIDE DEF n
  <2> QED
    BY <1>3, <1>4, <1>6, <1>7, <1>8, PublishableOK
<1> QED
  BY <1>6, <1>8, <1>9, <1>10 DEF b

\* A result of the producer is accepted by the aggregation and by the promotion's strict policy
\* (package_observation.py:413-488, exact_run_aggregation.py:1350-1495,
\* promote_package_results.py:534-752).
THEOREM ProducerAgrees ==
  ASSUME NEW c \in Claim, c.sixthName # "regression", NEW o \in Observations(c)
  PROVE  Aggregates(Bind(o), o.run) /\ PromotesStrict(Bind(o), o.run)
BY ObservedOK, AggregatesOK, PromotesOK

\* A result the policy publishes is aggregated, under the conclusion it says itself.
LEMMA HonestAggregates ==
  ASSUME NEW report \in Report, Honest(report)
  PROVE  Aggregates(report.claim, report.conclusion)
BY AggregatesOK, PublishableOK DEF Honest, Report, Claim

-----------------------------------------------------------------------------
\* What a tree reaches
ATree(t) ==
    /\ t.order \in Seq(Workflows) /\ t.uses \in [Workflows \cup Actions -> SUBSET Actions]
    /\ t.external \in [Workflows \cup Actions -> SUBSET References]
Uses(t, roots) == UNION {t.uses[w] : w \in roots}
External(t, set) == UNION {t.external[x] : x \in set}

LEMMA ReachClosed ==
  ASSUME NEW t, ATree(t), NEW R \in SUBSET Actions
  PROVE  /\ R \subseteq ReachableFrom(t, R) /\ ReachableFrom(t, R) \subseteq Actions
         /\ Closed(t, ReachableFrom(t, R))
<1>1. R \subseteq ReachableFrom(t, R) /\ ReachableFrom(t, R) \subseteq Actions
  BY DEF ReachableFrom
<1>2. ASSUME NEW a \in ReachableFrom(t, R), NEW u \in t.uses[a]
      PROVE  u \in ReachableFrom(t, R)
  <2>1. u \in Actions /\ a \in Actions
    BY <1>1, <1>2 DEF ATree
  <2>2. ASSUME NEW set \in SUBSET Actions, R \subseteq set, Closed(t, set)
        PROVE  u \in set
    <3>1. a \in set
      BY <1>2, <2>2 DEF ReachableFrom
    <3> QED
      BY <1>2, <2>2, <3>1 DEF Closed
  <2> QED
    BY <2>1, <2>2 DEF ReachableFrom
<1> QED
  BY <1>1, <1>2 DEF Closed

LEMMA ReachLeast ==
  ASSUME NEW t, NEW R, NEW set \in SUBSET Actions, R \subseteq set, Closed(t, set)
  PROVE  ReachableFrom(t, R) \subseteq set
BY DEF ReachableFrom

LEMMA ReachWithin ==
  ASSUME NEW t, ATree(t), NEW R \in SUBSET Actions, NEW Q \in SUBSET Actions,
         Q \subseteq ReachableFrom(t, R)
  PROVE  ReachableFrom(t, Q) \subseteq ReachableFrom(t, R)
BY ReachClosed, ReachLeast

LEMMA UsesActions ==
  ASSUME NEW t, ATree(t)
  PROVE  \A a \in Workflows \cup Actions : t.uses[a] \subseteq Actions
BY DEF ATree

\* What is reached from one action is the action or reached from what it uses.
LEMMA ReachStep ==
  ASSUME NEW t, ATree(t), NEW a \in Actions
  PROVE  ReachableFrom(t, {a}) = {a} \cup ReachableFrom(t, t.uses[a])
<1> DEFINE S == {a} \cup ReachableFrom(t, t.uses[a])
<1>1. t.uses[a] \subseteq Actions
  BY UsesActions
<1>2. /\ t.uses[a] \subseteq ReachableFrom(t, t.uses[a]) /\ S \subseteq Actions
      /\ Closed(t, ReachableFrom(t, t.uses[a]))
  BY <1>1, ReachClosed
<1>3. Closed(t, S)
  BY <1>2 DEF Closed
<1>4. ReachableFrom(t, {a}) \subseteq S
  BY <1>2, <1>3, ReachLeast
<1>5. a \in ReachableFrom(t, {a}) /\ Closed(t, ReachableFrom(t, {a}))
  BY ReachClosed
<1>6. t.uses[a] \subseteq ReachableFrom(t, {a})
  BY <1>5 DEF Closed
<1>7. ReachableFrom(t, t.uses[a]) \subseteq ReachableFrom(t, {a})
  BY <1>1, <1>6, ReachWithin
<1> QED
  BY <1>4, <1>5, <1>7

\* What is reached from some actions is reached from one of them.
LEMMA ReachOne ==
  ASSUME NEW t, ATree(t), NEW R \in SUBSET Actions, NEW x \in ReachableFrom(t, R)
  PROVE  \E a \in R : x \in ReachableFrom(t, {a})
<1> DEFINE S == UNION {ReachableFrom(t, {a}) : a \in R}
<1>1. \A a \in R : /\ a \in ReachableFrom(t, {a}) /\ ReachableFrom(t, {a}) \subseteq Actions
                   /\ Closed(t, ReachableFrom(t, {a}))
  BY ReachClosed
<1>2. S \in SUBSET Actions /\ R \subseteq S
  BY <1>1
<1>3. Closed(t, S)
  BY <1>1 DEF Closed
<1>4. ReachableFrom(t, R) \subseteq S
  BY <1>2, <1>3, ReachLeast
<1> QED
  BY <1>4

LEMMA WorkflowsAre ==
  ASSUME NEW t, ATree(t)
  PROVE  /\ WorkflowsOf(t) \subseteq Workflows
         /\ Uses(t, WorkflowsOf(t)) \subseteq Actions
         /\ Reachable(t) = ReachableFrom(t, Uses(t, WorkflowsOf(t)))
         /\ Uses(t, WorkflowsOf(t)) \subseteq Reachable(t)
         /\ Reachable(t) \subseteq Actions /\ Closed(t, Reachable(t))
<1>1. WorkflowsOf(t) \subseteq Workflows
  BY DEF WorkflowsOf, ATree
<1>2. Uses(t, WorkflowsOf(t)) \subseteq Actions
  BY <1>1, UsesActions DEF Uses
<1>3. Reachable(t) = ReachableFrom(t, Uses(t, WorkflowsOf(t)))
  BY DEF Reachable, Uses
<1> QED
  BY <1>1, <1>2, <1>3, ReachClosed

-----------------------------------------------------------------------------
\* The discovery, for a state s of it and the action a caller has taken from its set and waits
\* for (in pending, if any)
ScanShape(s) ==
    /\ s \in [verdict : {s.verdict}, workflows : Seq(Workflows), roots : SUBSET Actions,
              stack : Seq(Frame), cache : {s.cache}, external : SUBSET References,
              local : SUBSET Actions]
    /\ s.cache \in [DOMAIN s.cache -> Found] /\ DOMAIN s.cache \subseteq Actions

\* How much is kept: an action enters only below both limits.
ScanCounts(s) ==
    /\ Len(s.stack) <= MaxActive
    /\ Cardinality(DOMAIN s.cache) + Len(s.stack) <= MaxCached + MaxActive

Fine(t, a) == a \notin t.malformed /\ a \notin ReachableFrom(t, t.uses[a])

\* The cache is exact, and holds what its members use.
CacheOK(t, s) ==
    \A a \in DOMAIN s.cache :
      /\ t.uses[a] \subseteq DOMAIN s.cache /\ Fine(t, a)
      /\ s.cache[a].local = ReachableFrom(t, {a})
      /\ s.cache[a].external = External(t, ReachableFrom(t, {a}))

\* An active action has found all of what it has called, but for the call under way, and no
\* call comes back to an active action.
FrameFits(t, s, i) ==
    LET frame == s.stack[i] IN
      /\ frame.action \notin DOMAIN s.cache /\ frame.action \notin t.malformed
      /\ frame.action \in frame.local
      /\ frame.local \subseteq ReachableFrom(t, {frame.action})
      /\ frame.external = External(t, frame.local)
      /\ frame.todo \subseteq t.uses[frame.action]
FrameCalls(t, s, pending, i) ==
    \A x \in t.uses[s.stack[i].action] \ s.stack[i].todo :
      \/ x \in DOMAIN s.cache /\ ReachableFrom(t, {x}) \subseteq s.stack[i].local
      \/ i < Len(s.stack) /\ x = s.stack[i + 1].action
      \/ i = Len(s.stack) /\ x \in pending
FrameNests(t, s, pending, i) ==
    /\ \A j \in 1..i : s.stack[i].action \in ReachableFrom(t, {s.stack[j].action})
    /\ \A j \in 1..(i - 1) : s.stack[i].action # s.stack[j].action
    /\ i = Len(s.stack) => pending \subseteq ReachableFrom(t, {s.stack[i].action})

Frames(t, s, pending) ==
    \A i \in DOMAIN s.stack :
      FrameFits(t, s, i) /\ FrameCalls(t, s, pending, i) /\ FrameNests(t, s, pending, i)

Started(t, s) == {t.order[i] : i \in 1..(Len(t.order) - Len(s.workflows))}
Called(s, pending) == IF s.stack = <<>> THEN pending ELSE {s.stack[1].action}

\* So have the workflows that were started.
Level(t, s, pending) ==
    /\ Len(s.workflows) <= Len(t.order)
    /\ \A i \in 1..Len(s.workflows) :
         s.workflows[i] = t.order[Len(t.order) - Len(s.workflows) + i]
    /\ s.local \subseteq Reachable(t) /\ Closed(t, s.local) /\ \A a \in s.local : Fine(t, a)
    /\ s.roots \cup Called(s, pending) \cup DOMAIN s.cache \subseteq Reachable(t)
    /\ Uses(t, Started(t, s)) \subseteq s.local \cup s.roots \cup Called(s, pending)
    /\ s.external = External(t, s.local) \cup External(t, Started(t, s))

Scanning(t, s, pending) ==
    /\ ScanShape(s) /\ CacheOK(t, s)
    /\ Frames(t, s, pending) /\ Level(t, s, pending)

ScanInv(t) ==
    /\ scan.verdict = "scanning" => Scanning(t, scan, {})
    /\ ScanExact(t) /\ RefusalJustified(t)

LEMMA SeqUpdate ==
  ASSUME NEW S, NEW q \in Seq(S), NEW i \in 1..Len(q), NEW x \in S,
         NEW r, r = [q EXCEPT ![i] = x]
  PROVE  /\ r \in Seq(S) /\ Len(r) = Len(q) /\ DOMAIN r = 1..Len(q) /\ r[i] = x
         /\ \A j \in 1..Len(q) : j # i => r[j] = q[j]
OBVIOUS

LEMMA ShapeOK ==
  ASSUME NEW s, ScanShape(s)
  PROVE  /\ s.workflows \in Seq(Workflows) /\ Len(s.workflows) \in Nat
         /\ s.stack \in Seq(Frame) /\ Len(s.stack) \in Nat /\ DOMAIN s.stack = 1..Len(s.stack)
         /\ \A i \in 1..Len(s.stack) :
              /\ s.stack[i] \in Frame /\ s.stack[i].action \in Actions
              /\ s.stack[i].todo \subseteq Actions
              /\ s.stack[i].external \subseteq References /\ s.stack[i].local \subseteq Actions
         /\ (s.stack = <<>> <=> Len(s.stack) = 0)
         /\ s.roots \subseteq Actions /\ s.external \subseteq References /\ s.local \subseteq Actions
<1>1. /\ s.workflows \in Seq(Workflows) /\ s.stack \in Seq(Frame)
      /\ s.roots \subseteq Actions /\ s.external \subseteq References /\ s.local \subseteq Actions
  BY DEF ScanShape
<1>2. \A i \in 1..Len(s.stack) : s.stack[i] \in Frame
  BY <1>1
<1>3. \A f \in Frame : /\ f.action \in Actions /\ f.todo \subseteq Actions
                       /\ f.external \subseteq References /\ f.local \subseteq Actions
  BY DEF Frame
<1> QED
  BY <1>1, <1>2, <1>3

LEMMA AbsorbEffect ==
  ASSUME NEW s, ScanShape(s), NEW found \in Found, NEW r, r = Absorb(s, found)
  PROVE  /\ ScanShape(r) /\ r.verdict = s.verdict /\ r.workflows = s.workflows
         /\ r.roots = s.roots /\ r.cache = s.cache /\ Len(r.stack) = Len(s.stack)
         /\ DOMAIN r.stack = DOMAIN s.stack
         /\ s.stack = <<>> => /\ r.stack = <<>> /\ r.external = s.external \cup found.external
                              /\ r.local = s.local \cup found.local
         /\ s.stack # <<>> => /\ r.stack # <<>> /\ r.external = s.external /\ r.local = s.local
         /\ \A i \in DOMAIN s.stack :
              /\ r.stack[i].action = s.stack[i].action /\ r.stack[i].todo = s.stack[i].todo
              /\ i < Len(s.stack) => r.stack[i] = s.stack[i]
              /\ i = Len(s.stack) =>
                   /\ r.stack[i].external = s.stack[i].external \cup found.external
                   /\ r.stack[i].local = s.stack[i].local \cup found.local
<1>1. CASE s.stack = <<>>
  <2>1. r = [s EXCEPT !.external = @ \cup found.external, !.local = @ \cup found.local]
    BY <1>1 DEF Absorb
  <2>2. found.external \subseteq References /\ found.local \subseteq Actions
    BY DEF Found
  <2>3. /\ r.verdict = s.verdict /\ r.workflows = s.workflows
        /\ r.roots = s.roots /\ r.cache = s.cache /\ r.stack = s.stack
        /\ r.external = s.external \cup found.external /\ r.local = s.local \cup found.local
    BY <2>1 DEF ScanShape
  <2>4. ScanShape(r)
    BY <2>1, <2>2, <2>3 DEF ScanShape
  <2> QED
    BY <1>1, <2>3, <2>4
<1>2. CASE s.stack # <<>>
  <2> DEFINE top == Len(s.stack)
             frame == [s.stack[top] EXCEPT !.external = @ \cup found.external,
                                           !.local = @ \cup found.local]
  <2>1. /\ s.stack \in Seq(Frame) /\ top \in DOMAIN s.stack /\ s.stack[top] \in Frame
        /\ found.external \subseteq References /\ found.local \subseteq Actions
    BY <1>2 DEF ScanShape, Found
  <2>2. r = [s EXCEPT !.stack[top] = frame]
    BY <1>2 DEF Absorb
  <2>3. /\ r.verdict = s.verdict /\ r.workflows = s.workflows /\ r.roots = s.roots
        /\ r.cache = s.cache /\ r.external = s.external /\ r.local = s.local
        /\ r.stack = [s.stack EXCEPT ![top] = frame]
        /\ r = [s EXCEPT !.stack = r.stack]
    BY <2>1, <2>2 DEF ScanShape
  <2>4. /\ frame \in Frame /\ frame.action = s.stack[top].action /\ frame.todo = s.stack[top].todo
        /\ frame.external = s.stack[top].external \cup found.external
        /\ frame.local = s.stack[top].local \cup found.local
    BY <2>1 DEF Frame
  <2> HIDE DEF frame
  <2>5. /\ r.stack \in Seq(Frame) /\ Len(r.stack) = top /\ DOMAIN r.stack = DOMAIN s.stack
        /\ r.stack[top] = frame /\ \A i \in DOMAIN s.stack : i # top => r.stack[i] = s.stack[i]
    BY <2>1, <2>3, <2>4
  <2>6. ScanShape(r)
    BY <2>3, <2>5 DEF ScanShape
  <2> QED
    BY <1>2, <2>1, <2>3, <2>4, <2>5, <2>6
<1> QED
  BY <1>1, <1>2

LEMMA ExternalUnion ==
  \A t, x, y : External(t, x \cup y) = External(t, x) \cup External(t, y)
BY DEF External

\* A set that a cache holds is reached from within it.
LEMMA CacheReach ==
  ASSUME NEW t, ATree(t), NEW s, ScanShape(s), CacheOK(t, s), NEW R, R \subseteq DOMAIN s.cache
  PROVE  /\ ReachableFrom(t, R) \subseteq DOMAIN s.cache
         /\ \A a \in ReachableFrom(t, R) : Fine(t, a)
<1>1. DOMAIN s.cache \in SUBSET Actions /\ Closed(t, DOMAIN s.cache)
  BY DEF ScanShape, CacheOK, Closed
<1>2. ReachableFrom(t, R) \subseteq DOMAIN s.cache
  BY <1>1, ReachLeast
<1> QED
  BY <1>2 DEF CacheOK

\* The caller takes what a call has found.
LEMMA AbsorbKeeps ==
  ASSUME NEW t, ATree(t), NEW s, NEW a, a \in DOMAIN s.cache, Scanning(t, s, {a}),
         NEW r, r = Absorb(s, s.cache[a])
  PROVE  Scanning(t, r, {})
<1> DEFINE found == s.cache[a]
           F == ReachableFrom(t, {a})
           top == Len(s.stack)
<1>1. ScanShape(s) /\ CacheOK(t, s) /\ Frames(t, s, {a}) /\ Level(t, s, {a})
  BY DEF Scanning
<1>2. /\ found \in Found /\ found.local = F /\ found.external = External(t, F) /\ a \in Actions
  BY <1>1 DEF ScanShape, CacheOK
<1>3. F \subseteq Actions /\ a \in F /\ Closed(t, F) /\ \A x \in F : Fine(t, x)
  BY <1>1, <1>2, ReachClosed, CacheReach
<1>4. /\ ScanShape(r) /\ r.verdict = s.verdict /\ r.workflows = s.workflows
      /\ r.roots = s.roots /\ r.cache = s.cache /\ Len(r.stack) = Len(s.stack)
      /\ DOMAIN r.stack = DOMAIN s.stack
      /\ s.stack = <<>> => /\ r.stack = <<>> /\ r.external = s.external \cup External(t, F)
                           /\ r.local = s.local \cup F
      /\ s.stack # <<>> => r.stack # <<>> /\ r.external = s.external /\ r.local = s.local
      /\ \A i \in DOMAIN s.stack :
              /\ r.stack[i].action = s.stack[i].action /\ r.stack[i].todo = s.stack[i].todo
              /\ i < top => r.stack[i] = s.stack[i]
              /\ i = top =>
                   /\ r.stack[i].external = s.stack[i].external \cup External(t, F)
                   /\ r.stack[i].local = s.stack[i].local \cup F
  <2> HIDE DEF F
  <2> QED
    BY <1>1, <1>2, AbsorbEffect
<1> HIDE DEF F, found
<1>5. CacheOK(t, r)
  BY <1>1, <1>4 DEF CacheOK
<1>6. Frames(t, r, {})
  <2>1. /\ s.stack \in Seq(Frame) /\ top \in Nat /\ DOMAIN s.stack = 1..top
        /\ \A i \in DOMAIN s.stack : s.stack[i].action \in Actions
    BY <1>1, ShapeOK
  <2> SUFFICES ASSUME NEW i \in 1..top
               PROVE  FrameFits(t, r, i) /\ FrameCalls(t, r, {}, i) /\ FrameNests(t, r, {}, i)
    BY <1>4, <2>1 DEF Frames
  <2>2. FrameFits(t, s, i) /\ FrameCalls(t, s, {a}, i) /\ FrameNests(t, s, {a}, i)
    BY <1>1, <2>1 DEF Frames
  <2>3. r.stack[i].action = s.stack[i].action /\ r.stack[i].todo = s.stack[i].todo
    BY <1>4, <2>1
  <2>4. \A j \in 1..i : r.stack[j].action = s.stack[j].action
    BY <1>4, <2>1
  <2>5. FrameNests(t, r, {}, i)
    BY <2>2, <2>3, <2>4 DEF FrameNests
  <2>6. CASE i # top
    <3>1. r.stack[i] = s.stack[i] /\ r.stack[i + 1].action = s.stack[i + 1].action
      BY <1>4, <2>1, <2>6
    <3>2. FrameFits(t, r, i)
      BY <1>4, <2>2, <3>1 DEF FrameFits
    <3>3. FrameCalls(t, r, {}, i)
      BY <1>4, <2>2, <2>6, <3>1 DEF FrameCalls
    <3> QED
      BY <2>5, <3>2, <3>3
  <2>7. CASE i = top
    <3>1. s.stack[i].action \in Actions
      BY <2>1
    <3>2. a \in ReachableFrom(t, {s.stack[i].action})
      BY <2>2, <2>7 DEF FrameNests
    <3>3. F \subseteq ReachableFrom(t, {s.stack[i].action})
      BY <1>2, <3>1, <3>2, ReachWithin DEF F
    <3>4. /\ r.stack[i].external = s.stack[i].external \cup External(t, F)
          /\ r.stack[i].local = s.stack[i].local \cup F
      BY <1>4, <2>1, <2>7
    <3>5. FrameFits(t, r, i)
      <4>1. r.stack[i].external = External(t, r.stack[i].local)
        BY <2>2, <3>4, ExternalUnion DEF FrameFits
      <4> QED
        BY <1>4, <2>2, <2>3, <3>3, <3>4, <4>1 DEF FrameFits
    <3>6. ASSUME NEW x \in t.uses[s.stack[i].action] \ s.stack[i].todo
          PROVE  x \in DOMAIN s.cache /\ ReachableFrom(t, {x}) \subseteq s.stack[i].local \cup F
      <4>1. CASE x = a
        BY <4>1 DEF F
      <4>2. CASE x # a
        <5>1. \/ x \in DOMAIN s.cache /\ ReachableFrom(t, {x}) \subseteq s.stack[i].local
              \/ i < Len(s.stack) \/ x \in {a}
          BY <2>2 DEF FrameCalls
        <5>2. ~(i < Len(s.stack))
          BY <2>1, <2>7
        <5>3. x \in DOMAIN s.cache /\ ReachableFrom(t, {x}) \subseteq s.stack[i].local
          BY <4>2, <5>1, <5>2
        <5> QED
          BY <5>3
      <4> QED
        BY <4>1, <4>2
    <3>7. FrameCalls(t, r, {}, i)
      BY <1>4, <2>3, <3>4, <3>6 DEF FrameCalls
    <3> QED
      BY <2>5, <3>5, <3>7
  <2> QED
    BY <2>6, <2>7
<1>7. Level(t, r, {})
  <2>1. Started(t, r) = Started(t, s)
    BY <1>4 DEF Started
  <2>2. CASE s.stack # <<>>
    <3>1. Called(r, {}) = Called(s, {a})
      BY <1>1, <1>4, <2>2 DEF Called, ScanShape
    <3>2. /\ r.workflows = s.workflows /\ r.local = s.local /\ r.external = s.external
          /\ r.roots = s.roots /\ r.cache = s.cache
      BY <1>4, <2>2
    <3>3. Level(t, s, {a})
      BY <1>1
    <3> QED
      BY <2>1, <3>1, <3>2, <3>3 DEF Level
  <2>3. CASE s.stack = <<>>
    <3>1. Called(r, {}) = {} /\ Called(s, {a}) = {a}
      BY <1>4, <2>3 DEF Called
    <3>2. a \in Reachable(t) /\ Reachable(t) \subseteq Actions /\ Closed(t, Reachable(t))
      BY <1>1, <3>1, WorkflowsAre DEF Level
    <3>3. F \subseteq Reachable(t)
      BY <3>2, ReachLeast DEF F
    <3>4. Closed(t, s.local \cup F)
      BY <1>1, <1>3 DEF Closed, Level
    <3>5. r.external = External(t, r.local) \cup External(t, Started(t, r))
      BY <1>1, <1>4, <2>1, <2>3, ExternalUnion DEF Level
    <3>6. /\ r.workflows = s.workflows /\ r.local = s.local \cup F
          /\ r.roots = s.roots /\ r.cache = s.cache
      BY <1>4, <2>3
    <3>7. /\ Uses(t, Started(t, s)) \subseteq s.local \cup s.roots \cup {a}
          /\ s.roots \cup {a} \cup DOMAIN s.cache \subseteq Reachable(t)
          /\ s.local \subseteq Reachable(t) /\ \A x \in s.local : Fine(t, x)
          /\ Len(s.workflows) <= Len(t.order)
          /\ \A i \in 1..Len(s.workflows) :
               s.workflows[i] = t.order[Len(t.order) - Len(s.workflows) + i]
      BY <1>1, <3>1 DEF Level
    <3>8. \A x \in r.local : Fine(t, x)
      BY <1>3, <3>6, <3>7
    <3> QED
      BY <1>3, <2>1, <3>1, <3>3, <3>4, <3>5, <3>6, <3>7, <3>8 DEF Level
  <2> QED
    BY <2>2, <2>3
<1> QED
  BY <1>4, <1>5, <1>6, <1>7 DEF Scanning

\* The caller takes an action from its set to call it: a workflow, or the action on top.
LEMMA TakeRoot ==
  ASSUME NEW t, ATree(t), NEW s, Scanning(t, s, {}), s.stack = <<>>, NEW a \in s.roots,
         NEW r, r = [s EXCEPT !.roots = @ \ {a}]
  PROVE  Scanning(t, r, {a}) /\ a \in Reachable(t)
<1>1. ScanShape(s) /\ CacheOK(t, s) /\ Level(t, s, {})
  BY DEF Scanning
<1>2. /\ ScanShape(r) /\ r.verdict = s.verdict /\ r.workflows = s.workflows /\ r.stack = <<>>
      /\ r.roots = s.roots \ {a} /\ r.cache = s.cache /\ r.external = s.external /\ r.local = s.local
  BY <1>1 DEF ScanShape
<1>3. CacheOK(t, r) /\ Frames(t, r, {a})
  BY <1>1, <1>2 DEF CacheOK, Frames
<1>4. Started(t, r) = Started(t, s) /\ Called(r, {a}) = {a} /\ Called(s, {}) = {}
  BY <1>2 DEF Started, Called
<1>5. a \in Reachable(t)
  BY <1>1 DEF Level
<1>6. Level(t, r, {a})
  <2>1. Uses(t, Started(t, r)) \subseteq r.local \cup r.roots \cup {a}
    BY <1>1, <1>2, <1>4 DEF Level
  <2>2. r.roots \cup {a} \cup DOMAIN r.cache \subseteq Reachable(t)
    BY <1>1, <1>2, <1>5 DEF Level
  <2> QED
    BY <1>1, <1>2, <1>4, <2>1, <2>2 DEF Level
<1> QED
  BY <1>2, <1>3, <1>5, <1>6 DEF Scanning

LEMMA FramesReach ==
  ASSUME NEW t, ATree(t), NEW s, Scanning(t, s, {})
  PROVE  \A i \in DOMAIN s.stack : s.stack[i].action \in Reachable(t)
<1>1. ScanShape(s) /\ Frames(t, s, {}) /\ Level(t, s, {})
  BY DEF Scanning
<1>2. DOMAIN s.stack = 1..Len(s.stack) /\ Len(s.stack) \in Nat
      /\ (s.stack = <<>> <=> Len(s.stack) = 0)
  BY <1>1, ShapeOK
<1> SUFFICES ASSUME NEW i \in 1..Len(s.stack)
             PROVE  s.stack[i].action \in Reachable(t)
  BY <1>2
<1>3. 1 \in 1..i /\ Called(s, {}) = {s.stack[1].action}
  BY <1>2 DEF Called
<1>4. s.stack[i].action \in ReachableFrom(t, {s.stack[1].action})
  BY <1>1, <1>2, <1>3 DEF Frames, FrameNests
<1>5. s.stack[1].action \in Reachable(t)
  BY <1>1, <1>3 DEF Level
<1> QED
  BY <1>4, <1>5, WorkflowsAre, ReachLeast

Taken(s, r, a) ==
    LET top == Len(s.stack) IN
      /\ ScanShape(r) /\ r.verdict = s.verdict /\ r.workflows = s.workflows /\ r.roots = s.roots
      /\ r.cache = s.cache /\ r.external = s.external /\ r.local = s.local
      /\ Len(r.stack) = top /\ \A i \in 1..top : i # top => r.stack[i] = s.stack[i]
      /\ r.stack[top].action = s.stack[top].action /\ r.stack[top].todo = s.stack[top].todo \ {a}
      /\ r.stack[top].external = s.stack[top].external
      /\ r.stack[top].local = s.stack[top].local

LEMMA TakenOK ==
  ASSUME NEW s, ScanShape(s), Len(s.stack) > 0, NEW a
  PROVE  Taken(s, [s EXCEPT !.stack[Len(s.stack)].todo = @ \ {a}], a)
<1> DEFINE top == Len(s.stack)
           frame == [s.stack[top] EXCEPT !.todo = @ \ {a}]
           r == [s EXCEPT !.stack[top].todo = @ \ {a}]
<1>1. s.stack \in Seq(Frame) /\ top \in 1..Len(s.stack) /\ s.stack[top] \in Frame
  BY ShapeOK
<1>2. /\ frame \in Frame /\ frame.action = s.stack[top].action
      /\ frame.todo = s.stack[top].todo \ {a} /\ frame.external = s.stack[top].external
      /\ frame.local = s.stack[top].local
  BY <1>1 DEF Frame
<1>3. /\ r.verdict = s.verdict /\ r.workflows = s.workflows /\ r.roots = s.roots
      /\ r.cache = s.cache /\ r.external = s.external /\ r.local = s.local
      /\ r.stack = [s.stack EXCEPT ![top] = frame] /\ r = [s EXCEPT !.stack = r.stack]
  BY DEF ScanShape
<1>4. top = Len(s.stack)
  OBVIOUS
<1> HIDE DEF frame, r, top
<1>5. /\ r.stack \in Seq(Frame) /\ Len(r.stack) = Len(s.stack)
      /\ r.stack[top] = frame
      /\ \A i \in 1..Len(s.stack) : i # top => r.stack[i] = s.stack[i]
  BY ONLY <1>1, <1>2, <1>3
<1>6. ScanShape(r)
  BY <1>3, <1>5 DEF ScanShape
<1>7. Taken(s, r, a)
  BY <1>2, <1>3, <1>4, <1>5, <1>6 DEF Taken
<1> QED
  BY <1>7 DEF r, top

LEMMA TakeNested ==
  ASSUME NEW t, ATree(t), NEW s, Scanning(t, s, {}), Len(s.stack) > 0,
         NEW a \in s.stack[Len(s.stack)].todo, NEW r, Taken(s, r, a)
  PROVE  /\ Scanning(t, r, {a}) /\ a \in t.uses[s.stack[Len(s.stack)].action] /\ a \in Reachable(t)
         /\ \A i \in 1..Len(s.stack) : r.stack[i].action = s.stack[i].action
<1> DEFINE top == Len(s.stack)
<1>1. ScanShape(s) /\ CacheOK(t, s) /\ Frames(t, s, {}) /\ Level(t, s, {})
  BY DEF Scanning
<1>2. /\ s.stack \in Seq(Frame) /\ top \in 1..top /\ DOMAIN s.stack = 1..top /\ s.stack # <<>>
      /\ \A i \in 1..top : s.stack[i] \in Frame /\ s.stack[i].action \in Actions
  BY <1>1, ShapeOK
<1>3. /\ ScanShape(r) /\ Len(r.stack) = top /\ \A i \in 1..top : i # top => r.stack[i] = s.stack[i]
      /\ r.stack[top].action = s.stack[top].action /\ r.stack[top].todo = s.stack[top].todo \ {a}
      /\ r.stack[top].external = s.stack[top].external
      /\ r.stack[top].local = s.stack[top].local
  BY DEF Taken
<1>4. /\ r.verdict = s.verdict /\ r.workflows = s.workflows /\ r.roots = s.roots
      /\ r.cache = s.cache /\ r.external = s.external /\ r.local = s.local
  BY DEF Taken
<1>6. a \in s.stack[top].todo /\ top = Len(s.stack)
  OBVIOUS
<1> HIDE DEF top
<1>5. DOMAIN r.stack = 1..top
  BY <1>3, ShapeOK
<1>7. /\ \A i \in 1..top : r.stack[i].action = s.stack[i].action
      /\ Len(r.stack) = top /\ top \in Nat /\ r.stack # <<>> /\ s.stack # <<>>
  BY <1>1, <1>2, <1>3, <1>6, ShapeOK
<1>8. FrameFits(t, s, top) /\ FrameCalls(t, s, {}, top) /\ FrameNests(t, s, {}, top)
  BY <1>1, <1>2 DEF Frames
<1>9. a \in t.uses[s.stack[top].action]
  BY <1>6, <1>8 DEF FrameFits
<1>10. a \in Actions /\ {a} \subseteq ReachableFrom(t, {s.stack[top].action})
  <2>1. s.stack[top].action \in ReachableFrom(t, {s.stack[top].action})
        /\ Closed(t, ReachableFrom(t, {s.stack[top].action}))
        /\ ReachableFrom(t, {s.stack[top].action}) \subseteq Actions
    BY <1>2, ReachClosed
  <2> QED
    BY <1>9, <2>1 DEF Closed
<1>11. a \in Reachable(t)
  BY <1>2, <1>9, FramesReach, WorkflowsAre DEF Closed
<1>12. CacheOK(t, r)
  BY <1>1, <1>4 DEF CacheOK
<1>13. Frames(t, r, {a})
  <2> SUFFICES ASSUME NEW i \in 1..top
               PROVE  FrameFits(t, r, i) /\ FrameCalls(t, r, {a}, i) /\ FrameNests(t, r, {a}, i)
    BY <1>5 DEF Frames
  <2>1. FrameFits(t, s, i) /\ FrameCalls(t, s, {}, i) /\ FrameNests(t, s, {}, i)
    BY <1>1, <1>2 DEF Frames
  <2>2. /\ \A j \in 1..i : r.stack[j].action = s.stack[j].action
        /\ r.stack[i].action = s.stack[i].action /\ r.cache = s.cache
    BY <1>4, <1>7
  <2>3. FrameNests(t, r, {a}, i)
    <3>1. /\ \A j \in 1..i : s.stack[i].action \in ReachableFrom(t, {s.stack[j].action})
          /\ \A j \in 1..(i - 1) : s.stack[i].action # s.stack[j].action
      BY <2>1 DEF FrameNests
    <3>2. \A j \in 1..i : r.stack[i].action \in ReachableFrom(t, {r.stack[j].action})
      BY <2>2, <3>1
    <3>3. \A j \in 1..(i - 1) : r.stack[i].action # r.stack[j].action
      BY <2>2, <3>1
    <3>4. i = Len(r.stack) => {a} \subseteq ReachableFrom(t, {r.stack[i].action})
      BY <1>7, <1>10, <2>2
    <3> QED
      BY <3>2, <3>3, <3>4 DEF FrameNests
  <2>4. CASE i # top
    <3>1. r.stack[i] = s.stack[i] /\ r.stack[i + 1].action = s.stack[i + 1].action
      BY <1>2, <1>3, <1>7, <2>4
    <3>2. FrameFits(t, r, i)
      BY <2>1, <2>2, <3>1 DEF FrameFits
    <3>3. FrameCalls(t, r, {a}, i)
      BY <1>6, <1>7, <2>1, <2>2, <2>4, <3>1 DEF FrameCalls
    <3> QED
      BY <2>3, <3>2, <3>3
  <2>5. CASE i = top
    <3>1. /\ r.stack[i].todo = s.stack[i].todo \ {a} /\ r.stack[i].external = s.stack[i].external
          /\ r.stack[i].local = s.stack[i].local
      BY <1>3, <2>5
    <3>2. FrameFits(t, r, i)
      BY <2>1, <2>2, <3>1 DEF FrameFits
    <3>3. ASSUME NEW x \in t.uses[s.stack[i].action] \ (s.stack[i].todo \ {a}), x # a
          PROVE  x \in DOMAIN s.cache /\ ReachableFrom(t, {x}) \subseteq s.stack[i].local
      <4>1. ~(i < Len(s.stack))
        BY <1>6, <1>7, <2>5
      <4> QED
        BY <2>1, <3>3, <4>1 DEF FrameCalls
    <3>4. FrameCalls(t, r, {a}, i)
      BY <1>7, <2>2, <2>5, <3>1, <3>3 DEF FrameCalls
    <3> QED
      BY <2>3, <3>2, <3>4
  <2> QED
    BY <2>4, <2>5
<1>14. Level(t, r, {a})
  <2>1. Started(t, r) = Started(t, s)
    BY <1>4 DEF Started
  <2>2. Called(r, {a}) = Called(s, {})
    BY <1>2, <1>7 DEF Called
  <2>3. /\ r.workflows = s.workflows /\ r.roots = s.roots /\ r.cache = s.cache
        /\ r.external = s.external /\ r.local = s.local
    BY <1>4
  <2> QED
    BY <1>1, <2>1, <2>2, <2>3 DEF Level
<1> QED
  BY <1>3, <1>6, <1>7, <1>9, <1>11, <1>12, <1>13, <1>14 DEF Scanning

\* The action called is entered.
Entered(t, a) == [action |-> a, todo |-> t.uses[a], external |-> t.external[a], local |-> {a}]

LEMMA PushKeeps ==
  ASSUME NEW t, ATree(t), NEW s, NEW a \in Actions, Scanning(t, s, {a}), a \notin DOMAIN s.cache,
         \A i \in DOMAIN s.stack : s.stack[i].action # a, a \notin t.malformed,
         NEW r, r = [s EXCEPT !.stack = Append(@, Entered(t, a))]
  PROVE  Scanning(t, r, {}) /\ r.verdict = s.verdict /\ r.cache = s.cache
         /\ Len(r.stack) = Len(s.stack) + 1
<1> DEFINE frame == Entered(t, a)
           old == Len(s.stack)
           top == old + 1
<1>1. ScanShape(s) /\ CacheOK(t, s) /\ Frames(t, s, {a}) /\ Level(t, s, {a})
  BY DEF Scanning
<1>2. /\ s.stack \in Seq(Frame) /\ old \in Nat /\ DOMAIN s.stack = 1..old
      /\ (s.stack = <<>> <=> old = 0)
      /\ \A i \in 1..old : s.stack[i] \in Frame /\ s.stack[i].action \in Actions
  BY <1>1, ShapeOK
<1>3. /\ frame \in Frame /\ frame.action = a /\ frame.todo = t.uses[a]
      /\ frame.external = t.external[a] /\ frame.local = {a}
  BY DEF ATree, Frame, Entered
<1>4. /\ r.verdict = s.verdict /\ r.workflows = s.workflows /\ r.roots = s.roots
      /\ r.cache = s.cache /\ r.external = s.external /\ r.local = s.local
      /\ r.stack = Append(s.stack, frame) /\ r = [s EXCEPT !.stack = r.stack]
  BY <1>1 DEF ScanShape
<1> HIDE DEF frame
<1>5. /\ r.stack \in Seq(Frame) /\ Len(r.stack) = top /\ DOMAIN r.stack = 1..top
      /\ r.stack[top] = frame /\ \A i \in 1..old : r.stack[i] = s.stack[i]
  BY ONLY <1>2, <1>3, <1>4
<1>6. ScanShape(r) /\ r.stack # <<>> /\ Len(s.stack) = old
  <2>1. ScanShape(r)
    BY <1>1, <1>4, <1>5 DEF ScanShape
  <2> QED
    BY <1>2, <1>5, <2>1, ShapeOK
<1> HIDE DEF old
<1>7. /\ r.stack[top].action = a
      /\ \A i \in 1..old : r.stack[i].action = s.stack[i].action
      /\ \A i \in 1..top : r.stack[i].action \in Actions
  BY <1>2, <1>3, <1>5
<1>8. a \in ReachableFrom(t, {a})
  BY ReachClosed
<1>9. old # 0 => \A j \in 1..old : a \in ReachableFrom(t, {s.stack[j].action})
  <2> SUFFICES ASSUME old # 0, NEW j \in 1..old
               PROVE  a \in ReachableFrom(t, {s.stack[j].action})
    OBVIOUS
  <2>1. old \in DOMAIN s.stack /\ old = Len(s.stack)
    BY <1>2, <1>6
  <2>2. FrameNests(t, s, {a}, old)
    BY <1>1, <2>1 DEF Frames
  <2>3. a \in ReachableFrom(t, {s.stack[old].action})
        /\ s.stack[old].action \in ReachableFrom(t, {s.stack[j].action})
    BY <2>1, <2>2 DEF FrameNests
  <2>4. {s.stack[old].action} \in SUBSET Actions /\ {s.stack[j].action} \in SUBSET Actions
    BY <1>2, <2>1
  <2>5. ReachableFrom(t, {s.stack[old].action}) \subseteq ReachableFrom(t, {s.stack[j].action})
    BY <2>3, <2>4, ReachWithin
  <2> QED
    BY <2>3, <2>5
<1>10. CacheOK(t, r)
  BY <1>1, <1>4 DEF CacheOK
<1>11. Frames(t, r, {})
  <2> SUFFICES ASSUME NEW i \in 1..top
               PROVE  FrameFits(t, r, i) /\ FrameCalls(t, r, {}, i) /\ FrameNests(t, r, {}, i)
    BY <1>5 DEF Frames
  <2>1. CASE i = top
    <3>1. FrameFits(t, r, i)
      <4>1. r.stack[i] = frame /\ External(t, {a}) = t.external[a]
        BY <1>5, <2>1 DEF External
      <4> QED
        BY <1>3, <1>4, <1>8, <4>1 DEF FrameFits
    <3>2. FrameCalls(t, r, {}, i)
      BY <1>3, <1>5, <2>1 DEF FrameCalls
    <3>3. \A j \in 1..i : a \in ReachableFrom(t, {r.stack[j].action})
      <4> SUFFICES ASSUME NEW j \in 1..i
                   PROVE  a \in ReachableFrom(t, {r.stack[j].action})
        OBVIOUS
      <4>1. CASE j = i
        BY <1>7, <1>8, <2>1, <4>1
      <4>2. CASE j # i
        <5>1. j \in 1..old /\ old # 0
          BY <1>2, <2>1, <4>2
        <5> QED
          BY <1>7, <1>9, <5>1
      <4> QED
        BY <4>1, <4>2
    <3>4. \A j \in 1..(i - 1) : a # r.stack[j].action
      BY <1>2, <1>7, <2>1
    <3>5. FrameNests(t, r, {}, i)
      BY <1>7, <2>1, <3>3, <3>4 DEF FrameNests
    <3> QED
      BY <3>1, <3>2, <3>5
  <2>2. CASE i # top
    <3>1. i \in 1..old /\ i \in DOMAIN s.stack /\ i < Len(r.stack)
          /\ (i < Len(s.stack) => i + 1 \in 1..old)
      BY <1>2, <1>5, <1>6, <2>2
    <3>2. FrameFits(t, s, i) /\ FrameCalls(t, s, {a}, i) /\ FrameNests(t, s, {a}, i)
      BY <1>1, <3>1 DEF Frames
    <3>3. r.stack[i] = s.stack[i] /\ (i < Len(s.stack) => r.stack[i + 1].action = s.stack[i + 1].action)
      BY <1>5, <1>7, <3>1
    <3>4. FrameFits(t, r, i)
      BY <1>4, <3>2, <3>3 DEF FrameFits
    <3>5. i = Len(s.stack) => r.stack[i + 1].action = a
      BY <1>6, <1>7
    <3>6. FrameCalls(t, r, {}, i)
      BY <1>4, <3>1, <3>2, <3>3, <3>5 DEF FrameCalls
    <3>7. \A j \in 1..i : r.stack[j].action = s.stack[j].action
      BY <1>7, <3>1
    <3>8. FrameNests(t, r, {}, i)
      <4>1. \A j \in 1..i : r.stack[i].action \in ReachableFrom(t, {r.stack[j].action})
        BY <3>2, <3>3, <3>7 DEF FrameNests
      <4>2. \A j \in 1..(i - 1) : r.stack[i].action # r.stack[j].action
        <5>1. \A j \in 1..(i - 1) : j \in 1..i /\ s.stack[i].action # s.stack[j].action
          BY <3>2 DEF FrameNests
        <5> QED
          BY <3>3, <3>7, <5>1
      <4> QED
        BY <3>1, <4>1, <4>2 DEF FrameNests
    <3> QED
      BY <3>4, <3>6, <3>8
  <2> QED
    BY <2>1, <2>2
<1>12. Level(t, r, {})
  <2>1. Started(t, r) = Started(t, s)
    BY <1>4 DEF Started
  <2>2. Called(r, {}) = Called(s, {a})
    <3>1. r.stack[1].action = IF s.stack = <<>> THEN a ELSE s.stack[1].action
      <4>1. CASE old = 0
        BY <1>2, <1>7, <4>1
      <4>2. CASE old # 0
        <5>1. 1 \in 1..old
          BY <1>2, <4>2
        <5> QED
          BY <1>2, <1>7, <4>2, <5>1
      <4> QED
        BY <4>1, <4>2
    <3> QED
      BY <1>6, <3>1 DEF Called
  <2>3. /\ r.workflows = s.workflows /\ r.roots = s.roots /\ r.cache = s.cache
        /\ r.external = s.external /\ r.local = s.local
    BY <1>4
  <2> QED
    BY <1>1, <2>1, <2>2, <2>3 DEF Level
<1> QED
  BY <1>4, <1>5, <1>6, <1>10, <1>11, <1>12 DEF Scanning

\* An action that has nothing left to call is resolved: what it has found is all it reaches, and
\* no path from it comes back.
LEMMA Resolved ==
  ASSUME NEW t, ATree(t), NEW s, Scanning(t, s, {}), Len(s.stack) > 0,
         s.stack[Len(s.stack)].todo = {}
  PROVE  LET frame == s.stack[Len(s.stack)]
             a == frame.action IN
         /\ frame.local = ReachableFrom(t, {a})
         /\ frame.external = External(t, ReachableFrom(t, {a}))
         /\ t.uses[a] \subseteq DOMAIN s.cache /\ Fine(t, a) /\ a \in Actions
<1> DEFINE top == Len(s.stack)
           a == s.stack[top].action
           F == s.stack[top].local
<1>1. ScanShape(s) /\ CacheOK(t, s) /\ Frames(t, s, {})
  BY DEF Scanning
<1>2. a \in Actions /\ F \subseteq Actions /\ top \in Nat /\ top \in DOMAIN s.stack
  BY <1>1, ShapeOK
<1>3. FrameFits(t, s, top) /\ FrameCalls(t, s, {}, top)
  BY <1>1, <1>2 DEF Frames
<1>4. \A x \in t.uses[a] : x \in DOMAIN s.cache /\ ReachableFrom(t, {x}) \subseteq F
  <2> SUFFICES ASSUME NEW x \in t.uses[a]
               PROVE  x \in DOMAIN s.cache /\ ReachableFrom(t, {x}) \subseteq F
    OBVIOUS
  <2>1. ~(top < Len(s.stack)) /\ x \notin s.stack[top].todo
    BY <1>2
  <2> QED
    BY <1>3, <2>1 DEF FrameCalls
<1>5. a \in F /\ F \subseteq ReachableFrom(t, {a}) /\ a \notin DOMAIN s.cache /\ a \notin t.malformed
      /\ s.stack[top].external = External(t, F)
  BY <1>3 DEF FrameFits
<1> HIDE DEF F
<1>6. t.uses[a] \in SUBSET Actions /\ t.uses[a] \subseteq DOMAIN s.cache
  BY <1>2, <1>4, UsesActions
<1>7. ReachableFrom(t, t.uses[a]) \subseteq F
  <2> SUFFICES ASSUME NEW x \in ReachableFrom(t, t.uses[a])
               PROVE  x \in F
    OBVIOUS
  <2> HIDE DEF a
  <2>1. PICK u \in t.uses[a] : x \in ReachableFrom(t, {u})
    BY <1>6, ReachOne
  <2> QED
    BY <1>4, <2>1
<1>8. ReachableFrom(t, {a}) = F
  <2>1. ReachableFrom(t, {a}) = {a} \cup ReachableFrom(t, t.uses[a])
    BY <1>2, ReachStep
  <2> QED
    BY <1>5, <1>7, <2>1
<1>9. a \notin ReachableFrom(t, t.uses[a])
  BY <1>1, <1>5, <1>6, CacheReach
<1> QED
  BY <1>2, <1>5, <1>6, <1>8, <1>9 DEF F, Fine

Popped(s, r, a) ==
    LET top == Len(s.stack) IN
      /\ ScanShape(r) /\ r.verdict = s.verdict /\ r.workflows = s.workflows /\ r.roots = s.roots
      /\ r.external = s.external /\ r.local = s.local
      /\ Len(r.stack) = top - 1 /\ \A i \in 1..(top - 1) : r.stack[i] = s.stack[i]
      /\ a = s.stack[top].action /\ DOMAIN r.cache = DOMAIN s.cache \cup {a}
      /\ \A x \in DOMAIN s.cache : x # a => r.cache[x] = s.cache[x]
      /\ r.cache[a].external = s.stack[top].external /\ r.cache[a].local = s.stack[top].local

LEMMA PopKeeps ==
  ASSUME NEW t, ATree(t), NEW s, Scanning(t, s, {}), Len(s.stack) > 0,
         s.stack[Len(s.stack)].todo = {}, NEW r, NEW a, Popped(s, r, a)
  PROVE  Scanning(t, r, {a})
<1> DEFINE F == ReachableFrom(t, {a})
           top == Len(s.stack)
           old == top - 1
           cached == r.cache
<1>1. ScanShape(s) /\ CacheOK(t, s) /\ Frames(t, s, {}) /\ Level(t, s, {})
  BY DEF Scanning
<1>2. /\ s.stack[top].local = F /\ s.stack[top].external = External(t, F)
      /\ t.uses[a] \subseteq DOMAIN s.cache /\ Fine(t, a) /\ a \in Actions
      /\ a = s.stack[top].action
  <2>1. a = s.stack[top].action
    BY DEF Popped
  <2> QED
    BY <2>1, Resolved
<1>3. /\ s.stack \in Seq(Frame) /\ top \in Nat /\ top \in DOMAIN s.stack
      /\ DOMAIN s.stack = 1..top /\ s.stack # <<>> /\ old \in Nat
      /\ \A i \in 1..top : s.stack[i] \in Frame /\ s.stack[i].action \in Actions
  BY <1>1, ShapeOK
<1>5. /\ r.verdict = s.verdict /\ r.workflows = s.workflows /\ r.roots = s.roots
      /\ r.cache = cached /\ r.external = s.external /\ r.local = s.local /\ ScanShape(r)
  BY DEF Popped
<1>4. cached[a].local = F /\ cached[a].external = External(t, F)
  BY <1>2 DEF Popped
<1>7. /\ DOMAIN cached = DOMAIN s.cache \cup {a}
      /\ \A x \in DOMAIN s.cache : x # a => cached[x] = s.cache[x]
  BY DEF Popped
<1>0. /\ Len(r.stack) = old /\ \A i \in 1..old : r.stack[i] = s.stack[i]
  BY DEF Popped
<1>00. top = Len(s.stack)
  OBVIOUS
<1> HIDE DEF old, F, cached, top
<1>6. /\ r.stack \in Seq(Frame) /\ Len(r.stack) = old /\ DOMAIN r.stack = 1..old
      /\ \A i \in 1..old : r.stack[i] = s.stack[i] /\ r.stack[i].action = s.stack[i].action
      /\ (r.stack = <<>> <=> old = 0)
  BY <1>0, <1>5, ShapeOK
<1>8. \A i \in 1..old : /\ i \in DOMAIN s.stack /\ FrameFits(t, s, i) /\ FrameCalls(t, s, {}, i)
                        /\ FrameNests(t, s, {}, i)
  BY <1>1, <1>3 DEF Frames, old
<1>9. FrameFits(t, s, top) /\ FrameNests(t, s, {}, top)
  BY <1>1, <1>3 DEF Frames
<1>10. a \notin DOMAIN s.cache /\ \A i \in 1..old : r.stack[i].action # a
  <2>1. \A i \in 1..old : i \in 1..(top - 1)
    BY DEF old
  <2>2. a \notin DOMAIN s.cache
    BY <1>2, <1>9 DEF FrameFits
  <2>3. \A i \in 1..(top - 1) : s.stack[i].action # a
    BY <1>2, <1>9 DEF FrameNests
  <2> QED
    BY <1>6, <2>1, <2>2, <2>3
<1>12. CacheOK(t, r)
  <2>1. ASSUME NEW x \in DOMAIN cached
        PROVE  /\ t.uses[x] \subseteq DOMAIN cached /\ Fine(t, x)
               /\ cached[x].local = ReachableFrom(t, {x})
               /\ cached[x].external = External(t, ReachableFrom(t, {x}))
    <3>1. CASE x = a
      BY <1>2, <1>4, <1>7, <3>1 DEF F
    <3>2. CASE x # a
      <4>1. /\ x \in DOMAIN s.cache /\ cached[x] = s.cache[x]
            /\ DOMAIN s.cache \subseteq DOMAIN cached
        BY <1>7, <3>2
      <4>2. /\ t.uses[x] \subseteq DOMAIN s.cache /\ Fine(t, x)
            /\ s.cache[x].local = ReachableFrom(t, {x})
            /\ s.cache[x].external = External(t, ReachableFrom(t, {x}))
        BY <1>1, <4>1 DEF CacheOK
      <4> QED
        BY <4>1, <4>2
    <3> QED
      BY <3>1, <3>2
  <2>2. r.cache = cached
    BY <1>5
  <2> QED
    BY ONLY <2>1, <2>2 DEF CacheOK
<1>13. Frames(t, r, {a})
  <2> SUFFICES ASSUME NEW i \in 1..old
               PROVE  FrameFits(t, r, i) /\ FrameCalls(t, r, {a}, i) /\ FrameNests(t, r, {a}, i)
    BY <1>6 DEF Frames
  <2>1. i < top /\ i \in Nat /\ (i # old => i + 1 \in 1..old) /\ old = top - 1
    BY <1>3 DEF old
  <2>2. FrameFits(t, r, i)
    <3>1. r.stack[i] = s.stack[i] /\ FrameFits(t, s, i)
      BY <1>6, <1>8
    <3>2. r.stack[i].action \notin DOMAIN r.cache
      <4>1. r.stack[i].action # a /\ s.stack[i].action \notin DOMAIN s.cache
        BY <1>10, <3>1 DEF FrameFits
      <4>2. DOMAIN r.cache = DOMAIN s.cache \cup {a}
        BY <1>5, <1>7
      <4> QED
        BY <3>1, <4>1, <4>2
    <3> QED
      BY <3>1, <3>2 DEF FrameFits
  <2>3. FrameCalls(t, r, {a}, i)
    <3> SUFFICES ASSUME NEW x \in t.uses[s.stack[i].action] \ s.stack[i].todo
                 PROVE  \/ x \in DOMAIN r.cache /\ ReachableFrom(t, {x}) \subseteq s.stack[i].local
                        \/ i < Len(r.stack) /\ x = r.stack[i + 1].action
                        \/ i = Len(r.stack) /\ x \in {a}
      BY <1>6 DEF FrameCalls
    <3>1. \/ x \in DOMAIN s.cache /\ ReachableFrom(t, {x}) \subseteq s.stack[i].local
          \/ x = s.stack[i + 1].action
      BY <1>8 DEF FrameCalls
    <3>2. CASE x \in DOMAIN s.cache /\ ReachableFrom(t, {x}) \subseteq s.stack[i].local
      BY <1>5, <1>7, <3>2
    <3>3. CASE x = s.stack[i + 1].action /\ i # old
      BY <1>6, <2>1, <3>3
    <3>4. CASE x = s.stack[i + 1].action /\ i = old
      <4>1. i + 1 = top
        BY <1>3, <2>1, <3>4
      <4> QED
        BY <1>2, <1>6, <3>4, <4>1
    <3> QED
      BY <3>1, <3>2, <3>3, <3>4
  <2>4. FrameNests(t, r, {a}, i)
    <3>1. \A j \in 1..i : r.stack[j].action = s.stack[j].action
      BY <1>6, <2>1
    <3>2. \A j \in 1..i : r.stack[i].action \in ReachableFrom(t, {r.stack[j].action})
      BY <1>6, <1>8, <3>1 DEF FrameNests
    <3>3. \A j \in 1..(i - 1) : r.stack[i].action # r.stack[j].action
      <4>1. \A j \in 1..(i - 1) : j \in 1..i /\ s.stack[i].action # s.stack[j].action
        BY <1>8 DEF FrameNests
      <4> QED
        BY <1>6, <3>1, <4>1
    <3>4. a \in ReachableFrom(t, {r.stack[i].action})
      <4>1. i \in 1..top /\ r.stack[i].action = s.stack[i].action
        BY <1>3, <1>6, <2>1
      <4> QED
        BY <1>2, <1>9, <4>1 DEF FrameNests
    <3> QED
      BY <3>2, <3>3, <3>4 DEF FrameNests
  <2> QED
    BY <2>2, <2>3, <2>4
<1>14. Level(t, r, {a})
  <2>1. Started(t, r) = Started(t, s)
    BY <1>5 DEF Started
  <2>2. Called(r, {a}) = Called(s, {})
    <3>1. CASE old = 0
      <4>1. top = 1 /\ r.stack = <<>>
        BY <1>3, <1>6, <3>1 DEF old
      <4> QED
        BY <1>2, <1>3, <4>1 DEF Called
    <3>2. CASE old # 0
      <4>1. 1 \in 1..old
        BY <1>3, <3>2
      <4> QED
        BY <1>3, <1>6, <3>2, <4>1 DEF Called
    <3> QED
      BY <3>1, <3>2
  <2>3. a \in Reachable(t)
    BY <1>2, <1>3, FramesReach
  <2>4. /\ r.workflows = s.workflows /\ r.roots = s.roots
        /\ DOMAIN r.cache = DOMAIN s.cache \cup {a}
        /\ r.external = s.external /\ r.local = s.local
    BY <1>5, <1>7
  <2>5. r.roots \cup Called(r, {a}) \cup DOMAIN r.cache \subseteq Reachable(t)
    BY <1>1, <2>2, <2>3, <2>4 DEF Level
  <2> QED
    BY <1>1, <2>1, <2>2, <2>4, <2>5 DEF Level
<1> QED
  BY <1>5, <1>12, <1>13, <1>14 DEF Scanning

-----------------------------------------------------------------------------
\* The steps of a discovery

\* What makes a call unresolvable is in the tree, whether it is the call of a workflow or of
\* the action on top of the stack.
LEMMA RefusedOK ==
  ASSUME NEW t, ATree(t), Scanning(t, scan, {}), NEW a \in Reachable(t), a \notin DOMAIN scan.cache,
         scan.stack # <<>> => a \in t.uses[scan.stack[Len(scan.stack)].action],
         Unresolvable(t, a)
  PROVE  \/ Cyclic(t) \/ Reachable(t) \cap t.malformed # {}
         \/ Cardinality(Reachable(t)) > MaxActive \/ Cardinality(Reachable(t)) > MaxCached
<1> DEFINE top == Len(scan.stack)
           R == Reachable(t)
<1>1. ScanShape(scan) /\ Frames(t, scan, {}) /\ Level(t, scan, {})
  BY DEF Scanning
<1>2. /\ top \in Nat /\ DOMAIN scan.stack = 1..top /\ (scan.stack = <<>> <=> top = 0)
      /\ \A i \in 1..top : scan.stack[i].action \in R
  BY <1>1, ShapeOK, FramesReach
<1>3. R \subseteq Actions /\ IsFiniteSet(R) /\ Cardinality(R) \in Nat
  <2>1. R \subseteq Actions
    BY WorkflowsAre
  <2> QED
    BY <2>1, FS_Subset, FS_CardinalityType, LocalActionsConstants
<1> HIDE DEF R
<1>4. ASSUME NEW i \in 1..top, a = scan.stack[i].action
      PROVE  Cyclic(t)
  <2> DEFINE b == scan.stack[top].action
  <2>1. top \in 1..top /\ a \in t.uses[b] /\ b \in Actions /\ a \in Actions
    BY <1>2, <1>3, <1>4 DEF R
  <2>2. b \in ReachableFrom(t, {a})
    BY <1>1, <1>2, <1>4, <2>1 DEF Frames, FrameNests
  <2>3. b = a \/ b \in ReachableFrom(t, t.uses[a])
    BY <2>1, <2>2, ReachStep
  <2>4. /\ t.uses[a] \subseteq ReachableFrom(t, t.uses[a])
        /\ Closed(t, ReachableFrom(t, t.uses[a]))
    BY <2>1, UsesActions, ReachClosed
  <2>5. a \in ReachableFrom(t, t.uses[a])
    BY <2>1, <2>3, <2>4 DEF Closed
  <2> QED
    BY <2>5 DEF Cyclic
<1>5. ASSUME \A i \in 1..top : a # scan.stack[i].action, top >= MaxActive
      PROVE  Cardinality(R) > MaxActive
  <2> DEFINE f == [i \in 1..(top + 1) |-> IF i = top + 1 THEN a ELSE scan.stack[i].action]
  <2>1. \A i \in 1..top : \A j \in 1..(i - 1) : scan.stack[i].action # scan.stack[j].action
    BY <1>1, <1>2 DEF Frames, FrameNests
  <2>2. \A i, j \in 1..top : i # j => scan.stack[i].action # scan.stack[j].action
    <3> SUFFICES ASSUME NEW i \in 1..top, NEW j \in 1..top, i # j
                 PROVE  scan.stack[i].action # scan.stack[j].action
      OBVIOUS
    <3>1. i \in 1..(j - 1) \/ j \in 1..(i - 1)
      BY <1>2
    <3> QED
      BY <2>1, <3>1
  <2>3. f \in [1..(top + 1) -> R]
    BY <1>2, <1>3 DEF R
  <2>4. \A i, j \in 1..(top + 1) : f[i] = f[j] => i = j
    <3> SUFFICES ASSUME NEW i \in 1..(top + 1), NEW j \in 1..(top + 1), i # j
                 PROVE  f[i] # f[j]
      OBVIOUS
    <3>1. CASE i = top + 1
      BY <1>2, <1>5, <3>1
    <3>2. CASE j = top + 1
      BY <1>2, <1>5, <3>2
    <3>3. CASE i # top + 1 /\ j # top + 1
      <4>1. i \in 1..top /\ j \in 1..top
        BY <1>2, <3>3
      <4> QED
        BY <2>2, <3>3, <4>1
    <3> QED
      BY <3>1, <3>2, <3>3
  <2>5. f \in Injection(1..(top + 1), R)
    BY <2>3, <2>4 DEF Injection, IsInjective
  <2> HIDE DEF f
  <2>6. Cardinality(1..(top + 1)) <= Cardinality(R)
    BY <1>3, <2>5, FS_Injection
  <2>7. Cardinality(1..(top + 1)) = top + 1
    BY <1>2, FS_Interval
  <2> QED
    BY <1>2, <1>3, <1>5, <2>6, <2>7, LocalActionsConstants
<1>6. ASSUME Cardinality(DOMAIN scan.cache) >= MaxCached
      PROVE  Cardinality(R) > MaxCached
  <2>1. DOMAIN scan.cache \subseteq R /\ a \in R
    BY <1>1 DEF Level, R
  <2>2. IsFiniteSet(DOMAIN scan.cache) /\ Cardinality(DOMAIN scan.cache) \in Nat
    BY <1>3, <2>1, FS_Subset, FS_CardinalityType
  <2>3. Cardinality(DOMAIN scan.cache \cup {a}) = Cardinality(DOMAIN scan.cache) + 1
    BY <2>2, FS_AddElement
  <2>4. Cardinality(DOMAIN scan.cache \cup {a}) <= Cardinality(R)
    BY <1>3, <2>1, FS_Subset
  <2> QED
    BY <1>3, <1>6, <2>2, <2>3, <2>4, LocalActionsConstants
<1>7. CASE a \in Active
  <2>1. \E i \in 1..top : a = scan.stack[i].action
    BY <1>2, <1>7 DEF Active
  <2> QED
    BY <1>4, <2>1
<1>8. CASE a \notin Active
  <2>1. \A i \in 1..top : a # scan.stack[i].action
    BY <1>2, <1>8 DEF Active
  <2> QED
    BY <1>5, <1>6, <1>8, <2>1 DEF Unresolvable, R
<1> QED
  BY <1>7, <1>8

LEMMA EnterKeeps ==
  ASSUME NEW t, ATree(t), scan.verdict = "scanning", Scanning(t, scan, {}), NEW a \in Reachable(t),
         scan.stack # <<>> => a \in t.uses[scan.stack[Len(scan.stack)].action],
         NEW s, Scanning(t, s, {a}), s.cache = scan.cache, s.verdict = scan.verdict,
         Len(s.stack) = Len(scan.stack),
         \A i \in 1..Len(scan.stack) : s.stack[i].action = scan.stack[i].action,
         scan' = Enter(t, s, a)
  PROVE  ScanInv(t)'
<1>1. CASE Known(a)
  <2>1. scan' = Absorb(s, s.cache[a]) /\ a \in DOMAIN s.cache
    BY <1>1 DEF Enter, Known
  <2>2. Scanning(t, scan', {})
    BY <2>1, AbsorbKeeps
  <2>3. scan'.verdict = "scanning"
    <3>1. ScanShape(s) /\ s.cache[a] \in Found
      BY <2>1 DEF Scanning, ScanShape
    <3> QED
      BY <2>1, <3>1, AbsorbEffect
  <2> QED
    BY <2>2, <2>3 DEF ScanInv, ScanExact, RefusalJustified
<1>2. CASE ~Known(a) /\ Unresolvable(t, a)
  <2>1. scan'.verdict = "refused"
    BY <1>2 DEF Enter, NoScan
  <2>2. \/ Cyclic(t) \/ Reachable(t) \cap t.malformed # {}
        \/ Cardinality(Reachable(t)) > MaxActive \/ Cardinality(Reachable(t)) > MaxCached
    BY <1>2, RefusedOK DEF Known
  <2> QED
    BY <2>1, <2>2 DEF ScanInv, ScanExact, RefusalJustified
<1>3. CASE ~Known(a) /\ ~Unresolvable(t, a)
  <2>1. scan' = [s EXCEPT !.stack = Append(@, Entered(t, a))]
    BY <1>3 DEF Enter, Entered
  <2>2. /\ a \notin DOMAIN s.cache /\ a \notin t.malformed /\ a \in Actions
        /\ \A i \in DOMAIN s.stack : s.stack[i].action # a
    <3>1. ScanShape(s) /\ ScanShape(scan)
      BY DEF Scanning
    <3>2. DOMAIN s.stack = 1..Len(scan.stack) /\ DOMAIN scan.stack = 1..Len(scan.stack)
      BY <3>1, ShapeOK
    <3> QED
      BY <1>3, <3>2, WorkflowsAre DEF Known, Unresolvable, Active
  <2>3. Scanning(t, scan', {}) /\ scan'.verdict = "scanning"
    BY <2>1, <2>2, PushKeeps
  <2> QED
    BY <2>3 DEF ScanInv, ScanExact, RefusalJustified
<1> QED
  BY <1>1, <1>2, <1>3

LEMMA EnterRootKeeps ==
  ASSUME NEW t, ATree(t), ScanInv(t), scan.verdict = "scanning", EnterRoot(t)
  PROVE  ScanInv(t)'
<1>1. Scanning(t, scan, {}) /\ ScanShape(scan) /\ scan.stack = <<>>
  BY DEF ScanInv, Scanning, EnterRoot
<1>2. PICK a \in scan.roots : scan' = Enter(t, [scan EXCEPT !.roots = @ \ {a}], a)
  BY DEF EnterRoot
<1> DEFINE s == [scan EXCEPT !.roots = @ \ {a}]
<1>3. Scanning(t, s, {a}) /\ a \in Reachable(t)
  BY <1>1, TakeRoot
<1>4. s.cache = scan.cache /\ s.verdict = scan.verdict /\ s.stack = scan.stack
  BY <1>1 DEF ScanShape
<1>5. scan' = Enter(t, s, a)
  BY <1>2
<1> HIDE DEF s
<1> QED
  BY <1>1, <1>3, <1>4, <1>5, EnterKeeps

LEMMA EnterNestedKeeps ==
  ASSUME NEW t, ATree(t), ScanInv(t), scan.verdict = "scanning", EnterNested(t)
  PROVE  ScanInv(t)'
<1> DEFINE top == Len(scan.stack)
<1>1. Scanning(t, scan, {}) /\ top > 0 /\ ScanShape(scan)
  BY DEF ScanInv, EnterNested, Scanning
<1>2. PICK a \in scan.stack[top].todo :
        scan' = Enter(t, [scan EXCEPT !.stack[top].todo = @ \ {a}], a)
  BY DEF EnterNested
<1> DEFINE s == [scan EXCEPT !.stack[top].todo = @ \ {a}]
<1>3. Taken(scan, s, a)
  BY <1>1, TakenOK
<1>4. scan' = Enter(t, s, a)
  BY <1>2
<1> HIDE DEF s
<1>5. /\ Scanning(t, s, {a}) /\ a \in t.uses[scan.stack[top].action] /\ a \in Reachable(t)
      /\ \A i \in 1..top : s.stack[i].action = scan.stack[i].action
  <2>1. a \in scan.stack[Len(scan.stack)].todo /\ Len(scan.stack) > 0
    BY <1>1
  <2>2. Scanning(t, s, {a})
    BY <1>1, <1>3, <2>1, TakeNested
  <2>3. a \in t.uses[scan.stack[Len(scan.stack)].action] /\ a \in Reachable(t)
    BY <1>1, <1>3, <2>1, TakeNested
  <2>4. \A i \in 1..Len(scan.stack) : s.stack[i].action = scan.stack[i].action
    BY <1>3 DEF Taken
  <2> QED
    BY <2>2, <2>3, <2>4
<1>6. s.cache = scan.cache /\ Len(s.stack) = top /\ s.verdict = scan.verdict
  BY <1>3 DEF Taken
<1> QED
  BY <1>1, <1>4, <1>5, <1>6, EnterKeeps

LEMMA LeaveKeeps ==
  ASSUME NEW t, ATree(t), ScanInv(t), scan.verdict = "scanning", Leave
  PROVE  ScanInv(t)'
<1> DEFINE top == Len(scan.stack)
           frame == scan.stack[top]
           a == frame.action
           found == [external |-> frame.external, local |-> frame.local]
           cached == [x \in DOMAIN scan.cache \cup {a} |-> IF x = a THEN found ELSE scan.cache[x]]
           r == [scan EXCEPT !.stack = SubSeq(@, 1, top - 1), !.cache = cached]
<1>1. /\ Scanning(t, scan, {}) /\ top > 0 /\ frame.todo = {} /\ ScanShape(scan)
      /\ scan' = Absorb(r, found)
  BY DEF ScanInv, Leave, Scanning
<1>2. top \in Nat /\ scan.stack \in Seq(Frame) /\ frame \in Frame
  BY <1>1, ShapeOK
<1>3. found \in Found /\ a \in Actions /\ found.external = frame.external /\ found.local = frame.local
  BY <1>2 DEF Found, Frame
<1>4. top = Len(scan.stack) /\ frame = scan.stack[top] /\ a = scan.stack[top].action
  OBVIOUS
<1> HIDE DEF found, a, frame, top
<1>5. /\ DOMAIN cached = DOMAIN scan.cache \cup {a} /\ cached[a] = found
      /\ \A x \in DOMAIN scan.cache : x # a => cached[x] = scan.cache[x]
  OBVIOUS
<1>6. cached \in [DOMAIN cached -> Found] /\ DOMAIN cached \subseteq Actions
  BY <1>1, <1>3 DEF ScanShape
<1> HIDE DEF cached
<1>7. /\ r.verdict = scan.verdict /\ r.workflows = scan.workflows /\ r.roots = scan.roots
      /\ r.cache = cached /\ r.external = scan.external /\ r.local = scan.local
      /\ r.stack = SubSeq(scan.stack, 1, top - 1)
      /\ r = [scan EXCEPT !.stack = r.stack, !.cache = cached]
  BY <1>1 DEF ScanShape
<1> HIDE DEF r
<1>8. /\ r.stack \in Seq(Frame) /\ Len(r.stack) = top - 1
      /\ \A i \in 1..(top - 1) : r.stack[i] = scan.stack[i]
  <2>1. top > 0
    BY <1>1
  <2> QED
    BY ONLY <1>2, <1>4, <1>7, <2>1
<1>9. ScanShape(r)
  BY <1>1, <1>6, <1>7, <1>8 DEF ScanShape
<1>10. Popped(scan, r, a)
  BY <1>3, <1>4, <1>5, <1>7, <1>8, <1>9 DEF Popped
<1>11. Scanning(t, r, {a})
  BY <1>1, <1>4, <1>10, PopKeeps
<1>12. a \in DOMAIN r.cache /\ r.cache[a] = found
  BY <1>5, <1>7
<1>13. Scanning(t, scan', {})
  BY <1>1, <1>11, <1>12, AbsorbKeeps
<1>14. scan'.verdict = "scanning"
  <2>1. Absorb(r, found).verdict = r.verdict
    BY <1>3, <1>9, AbsorbEffect
  <2> QED
    BY <1>1, <1>7, <2>1
<1> QED
  BY <1>13, <1>14 DEF ScanInv, ScanExact, RefusalJustified

LEMMA NextWorkflowKeeps ==
  ASSUME NEW t, ATree(t), ScanInv(t), scan.verdict = "scanning", NextWorkflow(t)
  PROVE  ScanInv(t)'
<1> DEFINE w == Head(scan.workflows)
           left == Len(scan.workflows)
           all == Len(t.order)
<1>1. /\ ScanShape(scan) /\ CacheOK(t, scan) /\ Level(t, scan, {})
      /\ scan.stack = <<>> /\ scan.roots = {} /\ scan.workflows # <<>>
  BY DEF ScanInv, Scanning, NextWorkflow
<1>9. left = Len(scan.workflows) /\ all = Len(t.order) /\ w = Head(scan.workflows)
  OBVIOUS
<1> HIDE DEF w, left, all
<1>2. /\ scan.workflows \in Seq(Workflows) /\ left \in Nat /\ left > 0
      /\ t.order \in Seq(Workflows) /\ all \in Nat /\ left <= all
      /\ w = scan.workflows[1] /\ w \in Workflows /\ w = t.order[all - left + 1]
      /\ \A i \in 1..left : scan.workflows[i] = t.order[all - left + i]
  <2>1. scan.workflows \in Seq(Workflows) /\ scan.workflows # <<>> /\ t.order \in Seq(Workflows)
    BY <1>1, ShapeOK DEF ATree
  <2>2. /\ left \in Nat /\ left > 0 /\ all \in Nat /\ w = scan.workflows[1] /\ w \in Workflows
    BY ONLY <1>9, <2>1
  <2>3. left <= all /\ \A i \in 1..left : scan.workflows[i] = t.order[all - left + i]
    BY <1>1, <1>9 DEF Level
  <2>4. scan.workflows[1] = t.order[all - left + 1]
    <3>1. 1 \in 1..left
      BY <2>2
    <3> QED
      BY <2>3, <3>1
  <2> QED
    BY <2>1, <2>2, <2>3, <2>4
<1>3. /\ scan'.verdict = "scanning" /\ scan'.workflows = SubSeq(scan.workflows, 2, left)
      /\ scan'.roots = t.uses[w] /\ scan'.cache = NoScan.cache /\ scan'.stack = <<>>
      /\ scan'.external = scan.external \cup t.external[w] /\ scan'.local = scan.local
      /\ ScanShape(scan')
  <2>1. t.uses[w] \subseteq Actions /\ t.external[w] \subseteq References
    BY <1>2 DEF ATree
  <2>2. NoScan.cache = [x \in {} |-> [external |-> {}, local |-> {}]]
    BY DEF NoScan
  <2>3. SubSeq(scan.workflows, 2, left) \in Seq(Workflows)
    BY ONLY <1>2, <1>9
  <2>4. NoScan.cache \in [DOMAIN NoScan.cache -> Found] /\ DOMAIN NoScan.cache = {}
    BY <2>2
  <2> DEFINE empty == NoScan.cache
  <2>5. scan' = [scan EXCEPT !.workflows = SubSeq(@, 2, Len(@)), !.roots = t.uses[w],
                             !.cache = empty, !.external = @ \cup t.external[w]]
    BY DEF NextWorkflow, w
  <2> HIDE DEF empty
  <2>6. /\ scan'.verdict = "scanning"
        /\ scan'.workflows = SubSeq(scan.workflows, 2, Len(scan.workflows))
        /\ scan'.roots = t.uses[w] /\ scan'.cache = empty /\ scan'.stack = <<>>
        /\ scan'.external = scan.external \cup t.external[w] /\ scan'.local = scan.local
    BY <1>1, <2>5 DEF ScanShape
  <2>7. ScanShape(scan')
    BY <1>1, <2>1, <2>3, <2>4, <2>5, <2>6 DEF ScanShape, empty, left
  <2> QED
    BY <2>6, <2>7 DEF empty, left
<1>4. Len(scan'.workflows) = left - 1
      /\ \A i \in 1..(left - 1) : scan'.workflows[i] = scan.workflows[i + 1]
  <2>1. scan'.workflows = SubSeq(scan.workflows, 2, left)
    BY <1>3
  <2> QED
    BY ONLY <1>2, <1>9, <2>1
<1>5. Started(t, scan') = Started(t, scan) \cup {w}
  <2>1. 1..(all - (left - 1)) = 1..(all - left) \cup {all - left + 1}
    BY <1>2
  <2>2. Started(t, scan') = {t.order[i] : i \in 1..(all - (left - 1))}
    BY <1>4, <1>9 DEF Started
  <2>3. Started(t, scan) = {t.order[i] : i \in 1..(all - left)}
    BY <1>9 DEF Started
  <2> QED
    BY <1>2, <2>1, <2>2, <2>3
<1>6. CacheOK(t, scan') /\ Frames(t, scan', {}) /\ DOMAIN scan'.cache = {}
  BY <1>3 DEF CacheOK, Frames, NoScan
<1>7. w \in WorkflowsOf(t) /\ t.uses[w] \subseteq Reachable(t)
  <2>0. DOMAIN t.order = 1..all
    BY ONLY <1>2, <1>9
  <2>1. all - left + 1 \in DOMAIN t.order
    BY <1>2, <2>0
  <2>2. w \in WorkflowsOf(t)
    BY <1>2, <2>1 DEF WorkflowsOf
  <2> QED
    BY <2>2, WorkflowsAre DEF Uses
<1>8. Level(t, scan', {})
  <2>1. Len(scan'.workflows) <= Len(t.order)
    BY <1>2, <1>4 DEF all
  <2>2. \A i \in 1..Len(scan'.workflows) :
          scan'.workflows[i] = t.order[Len(t.order) - Len(scan'.workflows) + i]
    <3> SUFFICES ASSUME NEW i \in 1..(left - 1)
                 PROVE  scan'.workflows[i] = t.order[all - (left - 1) + i]
      BY <1>4 DEF all
    <3>1. i + 1 \in 1..left /\ all - (left - 1) + i = all - left + (i + 1)
      BY <1>2
    <3> QED
      BY <1>2, <1>4, <3>1
  <2>3. Called(scan', {}) = {} /\ Called(scan, {}) = {}
    BY <1>1, <1>3 DEF Called
  <2>4. /\ scan.local \subseteq Reachable(t) /\ Closed(t, scan.local)
        /\ \A a \in scan.local : Fine(t, a)
        /\ Uses(t, Started(t, scan)) \subseteq scan.local
        /\ scan.external = External(t, scan.local) \cup External(t, Started(t, scan))
    BY <1>1, <2>3 DEF Level
  <2>5. Uses(t, Started(t, scan')) \subseteq scan.local \cup t.uses[w]
    BY <1>5, <2>4 DEF Uses
  <2>6. External(t, Started(t, scan')) = External(t, Started(t, scan)) \cup t.external[w]
    BY <1>5 DEF External
  <2>7. scan'.external = External(t, scan.local) \cup External(t, Started(t, scan'))
    BY <1>3, <2>4, <2>6
  <2> QED
    BY <1>3, <1>6, <1>7, <2>1, <2>2, <2>3, <2>4, <2>5, <2>7 DEF Level
<1> QED
  BY <1>3, <1>6, <1>8 DEF ScanInv, Scanning, ScanExact, RefusalJustified

\* When nothing is left to walk, everything was found and nothing else.
LEMMA EndScanKeeps ==
  ASSUME NEW t, ATree(t), ScanInv(t), scan.verdict = "scanning", EndScan
  PROVE  ScanInv(t)'
<1>1. /\ ScanShape(scan) /\ Level(t, scan, {})
      /\ scan.stack = <<>> /\ scan.roots = {} /\ scan.workflows = <<>>
  BY DEF ScanInv, Scanning, EndScan
<1>2. scan'.verdict = "found" /\ scan'.local = scan.local /\ scan'.external = scan.external
  BY <1>1 DEF EndScan, ScanShape
<1>3. Started(t, scan) = WorkflowsOf(t)
  <2>1. t.order \in Seq(Workflows) /\ Len(scan.workflows) = 0
    BY <1>1 DEF ATree
  <2>2. DOMAIN t.order = 1..Len(t.order) /\ Len(t.order) \in Nat
    BY ONLY <2>1
  <2>3. Len(t.order) - Len(scan.workflows) = Len(t.order)
    BY <2>1, <2>2
  <2> QED
    BY <2>2, <2>3 DEF Started, WorkflowsOf
<1>4. /\ scan.local \subseteq Reachable(t) /\ Closed(t, scan.local)
      /\ \A a \in scan.local : Fine(t, a)
      /\ Uses(t, WorkflowsOf(t)) \subseteq scan.local
      /\ scan.external = External(t, scan.local) \cup External(t, WorkflowsOf(t))
  BY <1>1, <1>3 DEF Level, Called
<1>5. scan.local = Reachable(t)
  BY <1>4, WorkflowsAre, ReachLeast
<1>6. scan.external = Executed(t)
  BY <1>4, <1>5, ExternalUnion DEF Executed, External
<1>7. ~Cyclic(t) /\ Reachable(t) \cap t.malformed = {}
  BY <1>4, <1>5 DEF Cyclic, Fine
<1> QED
  BY <1>2, <1>5, <1>6, <1>7 DEF ScanInv, ScanExact, RefusalJustified

LEMMA ScanKeeps ==
  ASSUME NEW t, ATree(t), ScanInv(t), ScanStep(t)
  PROVE  ScanInv(t)'
BY EnterRootKeeps, EnterNestedKeeps, LeaveKeeps, NextWorkflowKeeps, EndScanKeeps DEF ScanStep

-----------------------------------------------------------------------------
\* What a discovery keeps whatever tree it meets, an edited one too

ScanTypes ==
    /\ ScanShape(scan) /\ ScanCounts(scan)
    /\ scan.verdict \in {"none", "scanning", "found", "refused"}

LEMMA NoScanShape ==
         /\ ScanShape(NoScan) /\ NoScan.stack = <<>> /\ DOMAIN NoScan.cache = {}
         /\ \A v : ScanShape([NoScan EXCEPT !.verdict = v])
         /\ \A v : [NoScan EXCEPT !.verdict = v].stack = <<>>
         /\ \A v : DOMAIN [NoScan EXCEPT !.verdict = v].cache = {}
         /\ \A v : [NoScan EXCEPT !.verdict = v].verdict = v
<1> DEFINE empty == [x \in {} |-> [external |-> {}, local |-> {}]]
<1>1. NoScan = [verdict |-> "none", workflows |-> <<>>, roots |-> {}, stack |-> <<>>,
                cache |-> empty, external |-> {}, local |-> {}]
  BY DEF NoScan
<1>2. DOMAIN empty = {} /\ empty \in [DOMAIN empty -> Found]
  OBVIOUS
<1> HIDE DEF empty
<1>3. NoScan = [NoScan EXCEPT !.verdict = "none"]
  BY DEF NoScan
<1> SUFFICES ASSUME NEW v
             PROVE  LET s == [NoScan EXCEPT !.verdict = v] IN
                      /\ ScanShape(s) /\ s.stack = <<>> /\ DOMAIN s.cache = {} /\ s.verdict = v
  BY <1>3
<1> DEFINE s == [NoScan EXCEPT !.verdict = v]
<1>4. /\ ScanShape(NoScan) /\ NoScan.stack = <<>> /\ NoScan.cache = empty
      /\ s = [NoScan EXCEPT !.verdict = v]
  BY <1>1, <1>2 DEF ScanShape
<1> HIDE DEF s
<1>5. /\ s.verdict = v /\ s.stack = <<>> /\ s.cache = empty /\ s.workflows = NoScan.workflows
      /\ s.roots = NoScan.roots /\ s.external = NoScan.external /\ s.local = NoScan.local
  BY <1>4 DEF ScanShape
<1>6. ScanShape(s)
  BY <1>4, <1>5 DEF ScanShape
<1> QED
  BY <1>2, <1>5, <1>6 DEF s

LEMMA EmptyCounts ==
  ASSUME NEW s, s.stack = <<>>, DOMAIN s.cache = {}
  PROVE  ScanCounts(s)
BY FS_EmptySet, LocalActionsConstants DEF ScanCounts

LEMMA BeginScanOK ==
  ASSUME NEW t, ATree(t)
  PROVE  /\ Scanning(t, BeginScan(t), {}) /\ BeginScan(t).verdict = "scanning"
         /\ ScanShape(BeginScan(t)) /\ ScanCounts(BeginScan(t))
<1> DEFINE begun == BeginScan(t)
<1>0. begun = [NoScan EXCEPT !.verdict = "scanning", !.workflows = t.order]
  BY DEF BeginScan
<1>a. NoScan.roots = {} /\ NoScan.external = {} /\ NoScan.local = {}
  BY DEF NoScan
<1> HIDE DEF begun
<1>b. ScanShape(NoScan) /\ NoScan.stack = <<>> /\ DOMAIN NoScan.cache = {}
  BY NoScanShape
<1>1. /\ begun.verdict = "scanning" /\ begun.workflows = t.order /\ begun.roots = {}
      /\ begun.stack = <<>> /\ begun.external = {} /\ begun.local = {}
      /\ begun.cache = NoScan.cache
  BY <1>0, <1>a, <1>b DEF ScanShape
<1>2. DOMAIN begun.cache = {}
  BY <1>1, <1>b
<1>c. ScanShape(begun)
  BY <1>0, <1>1, <1>b DEF ScanShape, ATree
<1>3. ScanShape(begun) /\ CacheOK(t, begun) /\ Frames(t, begun, {})
  BY <1>1, <1>2, <1>c DEF CacheOK, Frames
<1>4. Started(t, begun) = {} /\ Called(begun, {}) = {}
  BY <1>1 DEF Started, Called, ATree
<1>5. Level(t, begun, {})
  <2>1. Len(t.order) \in Nat
    BY DEF ATree
  <2>2. /\ Closed(t, {}) /\ Uses(t, {}) = {} /\ External(t, {}) = {}
    BY DEF Closed, Uses, External
  <2>3. \A i \in 1..Len(t.order) : Len(t.order) - Len(t.order) + i = i
    BY <2>1
  <2>4. \A i \in 1..Len(begun.workflows) :
          begun.workflows[i] = t.order[Len(t.order) - Len(begun.workflows) + i]
    BY <1>1, <2>3
  <2>5. begun.roots \cup Called(begun, {}) \cup DOMAIN begun.cache \subseteq Reachable(t)
    BY <1>1, <1>2, <1>4
  <2>6. /\ Uses(t, Started(t, begun)) \subseteq begun.local \cup begun.roots \cup Called(begun, {})
        /\ begun.external = External(t, begun.local) \cup External(t, Started(t, begun))
        /\ begun.local \subseteq Reachable(t) /\ Closed(t, begun.local)
        /\ \A a \in begun.local : Fine(t, a)
    BY <1>1, <1>4, <2>2
  <2>7. Len(begun.workflows) <= Len(t.order)
    BY <1>1, <2>1
  <2> QED
    BY <2>4, <2>5, <2>6, <2>7 DEF Level
<1> QED
  BY <1>1, <1>2, <1>3, <1>5, EmptyCounts DEF Scanning, begun

LEMMA AbsorbTypes ==
  ASSUME NEW s, ScanShape(s), ScanCounts(s), NEW found \in Found
  PROVE  /\ ScanShape(Absorb(s, found)) /\ ScanCounts(Absorb(s, found))
         /\ Absorb(s, found).verdict = s.verdict
<1>1. /\ ScanShape(Absorb(s, found)) /\ Absorb(s, found).cache = s.cache
      /\ Len(Absorb(s, found).stack) = Len(s.stack) /\ Absorb(s, found).verdict = s.verdict
  BY AbsorbEffect
<1> QED
  BY <1>1 DEF ScanCounts

\* An action enters only below both limits.
LEMMA EnterTypes ==
  ASSUME NEW t, ATree(t), ScanTypes, scan.verdict = "scanning", NEW a \in Actions,
         NEW s, ScanShape(s), s.cache = scan.cache, s.verdict = scan.verdict,
         Len(s.stack) = Len(scan.stack), scan' = Enter(t, s, a)
  PROVE  ScanTypes'
<1>1. ScanCounts(s)
  BY DEF ScanTypes, ScanCounts
<1>2. CASE Known(a)
  <2>1. scan' = Absorb(s, s.cache[a]) /\ s.cache[a] \in Found
    BY <1>2 DEF Enter, Known, ScanShape
  <2> QED
    BY <1>1, <2>1, AbsorbTypes DEF ScanTypes
<1>3. CASE ~Known(a) /\ Unresolvable(t, a)
  <2>1. scan' = [NoScan EXCEPT !.verdict = "refused"]
    BY <1>3 DEF Enter
  <2> QED
    BY <2>1, NoScanShape, EmptyCounts DEF ScanTypes
<1>4. CASE ~Known(a) /\ ~Unresolvable(t, a)
  <2> DEFINE frame == Entered(t, a)
             r == [s EXCEPT !.stack = Append(@, frame)]
  <2>1. scan' = r
    BY <1>4 DEF Enter, Entered
  <2>2. frame \in Frame
    BY DEF ATree, Frame, Entered
  <2>3. /\ r.verdict = s.verdict /\ r.workflows = s.workflows /\ r.roots = s.roots
        /\ r.cache = s.cache /\ r.external = s.external /\ r.local = s.local
        /\ r.stack = Append(s.stack, frame) /\ r = [s EXCEPT !.stack = r.stack]
    BY DEF ScanShape
  <2>4. s.stack \in Seq(Frame) /\ Len(s.stack) \in Nat
    BY ShapeOK
  <2> HIDE DEF r, frame
  <2>5. r.stack \in Seq(Frame) /\ Len(r.stack) = Len(s.stack) + 1
    BY ONLY <2>2, <2>3, <2>4
  <2>6. ScanShape(r)
    BY <2>3, <2>5 DEF ScanShape
  <2>7. ~(Len(s.stack) >= MaxActive) /\ ~(Cardinality(DOMAIN s.cache) >= MaxCached)
    BY <1>4 DEF Unresolvable
  <2>8. IsFiniteSet(DOMAIN s.cache) /\ Cardinality(DOMAIN s.cache) \in Nat
    BY FS_Subset, FS_CardinalityType, LocalActionsConstants DEF ScanShape
  <2>9. ScanCounts(r)
    BY <2>3, <2>4, <2>5, <2>7, <2>8, LocalActionsConstants DEF ScanCounts
  <2> QED
    BY <2>1, <2>3, <2>6, <2>9 DEF ScanTypes
<1> QED
  BY <1>2, <1>3, <1>4

LEMMA ScanStepTypes ==
  ASSUME NEW t, ATree(t), ScanTypes, ScanStep(t)
  PROVE  ScanTypes'
<1>1. scan.verdict = "scanning" /\ ScanShape(scan) /\ ScanCounts(scan)
  BY DEF ScanStep, ScanTypes
<1>2. /\ scan.stack \in Seq(Frame) /\ Len(scan.stack) \in Nat /\ scan.roots \subseteq Actions
      /\ (scan.stack = <<>> <=> Len(scan.stack) = 0) /\ scan.workflows \in Seq(Workflows)
  BY <1>1, ShapeOK
<1>3. IsFiniteSet(DOMAIN scan.cache) /\ Cardinality(DOMAIN scan.cache) \in Nat
  BY <1>1, FS_Subset, FS_CardinalityType, LocalActionsConstants DEF ScanShape
<1>4. CASE NextWorkflow(t)
  <2> DEFINE w == Head(scan.workflows)
             rest == SubSeq(scan.workflows, 2, Len(scan.workflows))
             empty == NoScan.cache
  <2>1. /\ w \in Workflows /\ scan.stack = <<>>
        /\ scan' = [scan EXCEPT !.workflows = rest, !.roots = t.uses[w],
                                !.cache = empty, !.external = @ \cup t.external[w]]
    BY <1>2, <1>4 DEF NextWorkflow
  <2>2. t.uses[w] \subseteq Actions /\ t.external[w] \subseteq References
    BY <2>1 DEF ATree
  <2>3. rest \in Seq(Workflows)
    BY ONLY <1>2
  <2>4. empty \in [DOMAIN empty -> Found] /\ DOMAIN empty = {}
    BY NoScanShape DEF ScanShape
  <2> HIDE DEF w, rest, empty
  <2>5. /\ scan'.verdict = "scanning" /\ scan'.workflows = rest /\ scan'.roots = t.uses[w]
        /\ scan'.cache = empty /\ scan'.stack = <<>>
        /\ scan'.external = scan.external \cup t.external[w] /\ scan'.local = scan.local
    BY <1>1, <2>1 DEF ScanShape
  <2>6. ScanShape(scan')
    BY <1>1, <2>1, <2>2, <2>3, <2>4, <2>5 DEF ScanShape
  <2> QED
    BY <2>4, <2>5, <2>6, EmptyCounts DEF ScanTypes
<1>5. CASE EnterRoot(t)
  <2>1. PICK a \in scan.roots : scan' = Enter(t, [scan EXCEPT !.roots = @ \ {a}], a)
    BY <1>5 DEF EnterRoot
  <2> DEFINE s == [scan EXCEPT !.roots = @ \ {a}]
  <2>2. ScanShape(s) /\ s.cache = scan.cache /\ s.verdict = scan.verdict /\ s.stack = scan.stack
    BY <1>1 DEF ScanShape
  <2>3. scan' = Enter(t, s, a) /\ a \in Actions
    BY <1>2, <2>1
  <2> HIDE DEF s
  <2> QED
    BY <1>1, <2>2, <2>3, EnterTypes
<1>6. CASE EnterNested(t)
  <2>1. PICK a \in scan.stack[Len(scan.stack)].todo :
          scan' = Enter(t, [scan EXCEPT !.stack[Len(scan.stack)].todo = @ \ {a}], a)
    BY <1>6 DEF EnterNested
  <2> DEFINE s == [scan EXCEPT !.stack[Len(scan.stack)].todo = @ \ {a}]
  <2>2. Len(scan.stack) > 0
    BY <1>6 DEF EnterNested
  <2>3. Taken(scan, s, a)
    BY <1>1, <2>2, TakenOK
  <2>4. scan' = Enter(t, s, a)
    BY <2>1
  <2>5. a \in Actions
    <3>1. Len(scan.stack) \in 1..Len(scan.stack)
      BY <1>2, <2>2
    <3> QED
      BY <1>1, <2>1, <3>1, ShapeOK
  <2> HIDE DEF s
  <2>6. /\ ScanShape(s) /\ s.cache = scan.cache /\ s.verdict = scan.verdict
        /\ Len(s.stack) = Len(scan.stack)
    BY <2>3 DEF Taken
  <2> QED
    BY <1>1, <2>4, <2>5, <2>6, EnterTypes
<1>7. CASE Leave
  <2> DEFINE top == Len(scan.stack)
             frame == scan.stack[top]
             found == [external |-> frame.external, local |-> frame.local]
             cached == [a \in DOMAIN scan.cache \cup {frame.action} |->
                          IF a = frame.action THEN found ELSE scan.cache[a]]
             r == [scan EXCEPT !.stack = SubSeq(@, 1, top - 1), !.cache = cached]
  <2>1. top > 0 /\ scan' = Absorb(r, found)
    BY <1>7 DEF Leave
  <2>2. frame \in Frame /\ top = Len(scan.stack)
    BY <1>2, <2>1
  <2>3. found \in Found /\ frame.action \in Actions
    BY <2>2 DEF Found, Frame
  <2> HIDE DEF found, frame, top
  <2>4. cached \in [DOMAIN cached -> Found] /\ DOMAIN cached \subseteq Actions
        /\ DOMAIN cached = DOMAIN scan.cache \cup {frame.action}
    BY <1>1, <2>3 DEF ScanShape
  <2>5. Cardinality(DOMAIN cached) \in Nat
        /\ Cardinality(DOMAIN cached) <= Cardinality(DOMAIN scan.cache) + 1
    <3>1. \A x : LET S == DOMAIN scan.cache IN
             /\ Cardinality(S \cup {x}) \in Nat
             /\ Cardinality(S \cup {x}) <= Cardinality(S) + 1
      BY <1>3, FS_AddElement
    <3> QED
      BY <2>4, <3>1
  <2> HIDE DEF cached
  <2>6. /\ r.verdict = scan.verdict /\ r.workflows = scan.workflows /\ r.roots = scan.roots
        /\ r.cache = cached /\ r.external = scan.external /\ r.local = scan.local
        /\ r.stack = SubSeq(scan.stack, 1, top - 1)
        /\ r = [scan EXCEPT !.stack = r.stack, !.cache = cached]
    BY <1>1 DEF ScanShape
  <2> HIDE DEF r
  <2>7. r.stack \in Seq(Frame) /\ Len(r.stack) = top - 1
    BY ONLY <1>2, <2>1, <2>2, <2>6
  <2>8. ScanShape(r)
    BY <1>1, <2>4, <2>6, <2>7 DEF ScanShape
  <2>9. ScanCounts(r)
    BY <1>1, <1>2, <1>3, <2>1, <2>2, <2>5, <2>6, <2>7, LocalActionsConstants DEF ScanCounts
  <2> QED
    BY <1>1, <2>1, <2>3, <2>6, <2>8, <2>9, AbsorbTypes DEF ScanTypes
<1>8. CASE EndScan
  <2> DEFINE empty == NoScan.cache
  <2>1. scan' = [scan EXCEPT !.verdict = "found", !.cache = empty] /\ scan.stack = <<>>
    BY <1>8 DEF EndScan
  <2>2. empty \in [DOMAIN empty -> Found] /\ DOMAIN empty = {}
    BY NoScanShape DEF ScanShape
  <2> HIDE DEF empty
  <2>3. ScanShape(scan') /\ scan'.stack = <<>> /\ scan'.cache = empty /\ scan'.verdict = "found"
    BY <1>1, <2>1, <2>2 DEF ScanShape
  <2> QED
    BY <2>2, <2>3, EmptyCounts DEF ScanTypes
<1> QED
  BY <1>4, <1>5, <1>6, <1>7, <1>8 DEF ScanStep

LEMMA TypesScan ==
  ASSUME ScanTypes
  PROVE  ScanTypeOK
<1>1. /\ scan.workflows \in Seq(Workflows) /\ scan.roots \subseteq Actions
      /\ scan.stack \in Seq(Frame) /\ Len(scan.stack) \in Nat
      /\ scan.external \subseteq References /\ scan.local \subseteq Actions
  BY ShapeOK DEF ScanTypes
<1>2. IsFiniteSet(DOMAIN scan.cache) /\ Cardinality(DOMAIN scan.cache) \in Nat
  BY FS_Subset, FS_CardinalityType, LocalActionsConstants DEF ScanShape, ScanTypes
<1>3. Cardinality(DOMAIN scan.cache) <= MaxCached + MaxActive
  BY <1>1, <1>2, LocalActionsConstants DEF ScanTypes, ScanCounts
<1> QED
  BY <1>1, <1>3 DEF ScanTypeOK, ScanTypes, ScanShape, ScanCounts

-----------------------------------------------------------------------------
\* What always holds of the runs, the artifacts, and what the parent made of them

IsSeq(q) == q \in Seq({q[i] : i \in DOMAIN q})

WorldOK ==
    /\ world \in Worlds /\ people \in 0..world.people /\ tip \in Shas
    /\ checkout \in [sha : Shas, files : Shas]
    /\ plan \in [orch : 1..MaxPlans, sha : Shas, nonces : world.nonces]

RunOK(r) ==
    LET run == runs[r] IN
      /\ run \in [batch : Batches, orch : 1..MaxPlans, nonce : Nonces, sha : Shas, expected : Shas,
                  attempt : 1..2, done : {run.done}]
      /\ IsSeq(run.done) /\ Len(run.done) \in {run.attempt - 1, run.attempt}
      /\ \A k \in DOMAIN run.done : run.done[k].conclusion \in Conclusions

\* A sentinel says what its run was, and the files are those it lists.
ArtifactOK(i) ==
    LET artifact == artifacts[i]
        run == runs[artifact.run] IN
      /\ artifact \in [run : DOMAIN runs, attempt : 1..2, state : {"there", "expired", "gone"},
                       sentinel : {artifact.sentinel}, files : {artifact.files}]
      /\ artifact.sentinel =
           [version |-> artifact.sentinel.version, batch |-> run.batch, orch |-> run.orch,
            nonce |-> run.nonce, sha |-> run.sha, run |-> artifact.run,
            attempt |-> artifact.attempt, files |-> artifact.files]
      /\ \A p \in DOMAIN artifact.files : artifact.files[p].claim \in Claim

HistoryOK ==
    /\ IsSeq(runs) /\ Len(runs) <= MaxRuns /\ \A r \in DOMAIN runs : RunOK(r)
    /\ IsSeq(artifacts) /\ \A i \in DOMAIN artifacts : ArtifactOK(i)

\* What was read of a run, then of its jobs, is that of its original attempt, which does not
\* change any more.
RunRead(part) ==
    /\ part.run \in DOMAIN runs /\ runs[part.run].done # <<>>
    /\ part.conclusion = runs[part.run].done[1].conclusion
JobsRead(part) == RunRead(part) /\ part.jobs = runs[part.run].done[1].jobs
RecordOK(record) == JobsRead(record) /\ record.artifact \in DOMAIN artifacts

PartOK ==
    /\ parent.stage # "run" => RunRead(parent.part) /\ parent.part.attempt = 1
         /\ parent.part = [batch |-> parent.part.batch, nonce |-> parent.part.nonce,
              run |-> parent.part.run, sha |-> parent.part.sha, attempt |-> 1,
              conclusion |-> parent.part.conclusion, jobs |-> parent.part.jobs,
              artifact |-> None, content |-> None]
    /\ parent.stage = "artifact" => JobsRead(parent.part)

ParentShape(p) ==
    p \in [phase : {"topology", "launch", "built", "aggregate", "done", "refused"},
           steady : BOOLEAN, topology : {p.topology}, records : {p.records},
           stage : {"run", "jobs", "artifact"}, part : {p.part}, manifest : {p.manifest},
           archives : {p.archives}]

ParentOK ==
    /\ ParentShape(parent)
    /\ IsSeq(parent.records) /\ \A b \in DOMAIN parent.records : RecordOK(parent.records[b])
    /\ PartOK
    /\ parent.phase = "aggregate" =>
         /\ parent.manifest \in manifests
         /\ \A b \in DOMAIN parent.manifest.records : parent.archives[b] \in DOMAIN artifacts

ManifestOK(m) ==
    /\ m.sha \in Shas /\ IsSeq(m.records)
    /\ \A b \in DOMAIN m.records : RecordOK(m.records[b])

\* A scan is under way in the two commands only, and finds what its tree executes.
DiscoveryOK ==
    /\ ScanTypes
    /\ parent.phase \notin {"topology", "aggregate"} => scan.verdict = "none"
    /\ parent.phase = "aggregate" \/ (parent.phase = "topology" /\ parent.steady) => ScanInv(Scanned)

Truthful(g) ==
    /\ UNION {DOMAIN g.status[b] : b \in DOMAIN g.status} = CommitOf(g.sha).files
    /\ \A b \in DOMAIN g.status : \A p \in DOMAIN g.status[b] :
         g.status[b][p] = runs[g.run[b]].done[1].jobs[p]
    /\ g.overall = "failure" <=>
         \E b \in DOMAIN g.status : runs[g.run[b]].done[1].conclusion = "failure"

OwnEvidence(g) ==
    \A b \in DOMAIN g.run :
      LET r == g.run[b]
          archive == artifacts[g.archives[b]] IN
        /\ runs[r].batch = b /\ runs[r].orch = g.orch /\ runs[r].sha = g.sha
        /\ archive.run = r /\ archive.attempt = 1
        /\ \A p \in DOMAIN g.status[b] : archive.files[p].run = r /\ archive.files[p].attempt = 1

Reviewed(g) ==
    LET commit == CommitOf(g.sha) IN
      /\ g.topology = [order |-> commit.order, external |-> Executed(commit), local |-> Reachable(commit)]
      /\ "mutable" \notin Executed(commit)
      /\ \A b \in BatchesOf(commit) :
           Cardinality(ReachableFrom(commit, commit.uses[b]) \cap Collectors) = 1

AggregateOK(g) ==
    /\ DOMAIN g.run = DOMAIN g.status
    /\ \A b \in DOMAIN g.run : /\ g.run[b] \in DOMAIN runs /\ runs[g.run[b]].done # <<>>
                               /\ g.archives[b] \in DOMAIN artifacts
    /\ Truthful(g) /\ OwnEvidence(g) /\ Reviewed(g)

VerifiedOK(i) ==
    LET r == artifacts[i].run IN
      /\ runs[r].sha = runs[r].expected /\ artifacts[i].attempt = 1
      /\ \A p \in Registered(r) : artifacts[i].files[p].run = r /\ artifacts[i].files[p].attempt = 1

EvidenceInv ==
    /\ WorldOK /\ HistoryOK /\ ParentOK /\ DiscoveryOK
    /\ \A m \in manifests : ManifestOK(m)
    /\ \A g \in aggregates : AggregateOK(g)
    /\ \A i \in verified : i \in DOMAIN artifacts /\ VerifiedOK(i)

-----------------------------------------------------------------------------
\* Where nobody interferes: one run of each batch, one artifact of each run that has ended

Sound ==
    /\ world.people = 0 /\ SoundCommit(CommitOf(1))
    /\ \A b, c \in Batches : b # c => plan.nonces[b] # plan.nonces[c]
    /\ \A p \in Packages : \A report \in Reports(world, p) : Honest(report)

FirstTopology ==
    LET commit == CommitOf(1) IN
      [order |-> commit.order, external |-> Executed(commit), local |-> Reachable(commit)]

\* The artifact of a run holds what its jobs gave.
HonestArtifact(i, r) ==
    LET artifact == artifacts[i] IN
      /\ artifact.run = r /\ artifact.state = "there" /\ artifact.attempt = 1
      /\ artifact.sentinel.version = 2
      /\ DOMAIN artifact.files = Registered(r)
      /\ \A p \in Registered(r) :
           /\ ResultOf(artifact.files[p], r, 1)
           /\ Aggregates(artifact.files[p].claim, runs[r].done[1].jobs[p])

HonestRun(r) ==
    LET run == runs[r] IN
      /\ run.batch \in BatchesOf(CommitOf(1))
      /\ run.orch = 1 /\ run.sha = 1 /\ run.expected = 1 /\ run.nonce = plan.nonces[run.batch]
      /\ run.attempt = 1
      /\ \A q \in DOMAIN runs : runs[q].batch = run.batch => q = r
      /\ \A i, j \in DOMAIN artifacts : artifacts[i].run = r /\ artifacts[j].run = r => i = j
      /\ run.done = <<>> => \A i \in DOMAIN artifacts : artifacts[i].run # r
      /\ run.done # <<>> =>
           /\ DOMAIN run.done[1].jobs = Registered(r)
           /\ \A p \in Registered(r) : run.done[1].jobs[p] \in Conclusions
           /\ run.done[1].conclusion = IF \E p \in Registered(r) : run.done[1].jobs[p] = "failure"
                                       THEN "failure" ELSE "success"
           /\ \E i \in DOMAIN artifacts : HonestArtifact(i, r)

HonestPart(part, b) ==
    /\ part.batch = b /\ part.nonce = plan.nonces[b] /\ part.sha = 1 /\ part.attempt = 1
    /\ part.run \in DOMAIN runs /\ runs[part.run].batch = b
HonestRecord(record, b) ==
    /\ HonestPart(record, b)
    /\ record.artifact \in DOMAIN artifacts /\ artifacts[record.artifact].run = record.run
    /\ record.content = Content(artifacts[record.artifact])

Calm ==
    people = 0 /\ tip = 1 /\ checkout = [sha |-> 1, files |-> 1] /\ plan.orch = 1 /\ plan.sha = 1
HonestParent ==
    /\ parent.steady /\ parent.phase # "refused"
    /\ parent.phase # "topology" => parent.topology = FirstTopology
    /\ \A b \in DOMAIN parent.records : HonestRecord(parent.records[b], b)
    /\ parent.stage # "run" => HonestPart(parent.part, Len(parent.records) + 1)
    /\ parent.phase = "aggregate" =>
         \A b \in DOMAIN parent.manifest.records :
           parent.archives[b] = parent.manifest.records[b].artifact
HonestManifest(m) ==
    /\ m.orch = 1 /\ m.sha = 1 /\ m.topology = FirstTopology
    /\ Len(m.records) = Cardinality(BatchesOf(CommitOf(1)))
    /\ \A b \in DOMAIN m.records : HonestRecord(m.records[b], b)

SoundInv ==
    Sound =>
      /\ Calm
      /\ \A r \in DOMAIN runs : HonestRun(r)
      /\ HonestParent
      /\ \A m \in manifests : HonestManifest(m)

-----------------------------------------------------------------------------
\* Sequences, whatever they hold

LEMMA SeqOK ==
  ASSUME NEW q, IsSeq(q)
  PROVE  Len(q) \in Nat /\ DOMAIN q = 1..Len(q) /\ (q = <<>> <=> Len(q) = 0)
BY DEF IsSeq

LEMMA SeqEmpty == IsSeq(<<>>) /\ Len(<<>>) = 0 /\ DOMAIN <<>> = {}
BY DEF IsSeq

LEMMA SeqIn ==
  ASSUME NEW S, NEW q \in Seq(S)
  PROVE  IsSeq(q)
<1> DEFINE R == {q[i] : i \in DOMAIN q}
<1>1. /\ q = [i \in 1..Len(q) |-> q[i]] /\ Len(q) \in Nat /\ DOMAIN q = 1..Len(q)
  OBVIOUS
<1>2. \A i \in 1..Len(q) : q[i] \in R
  BY <1>1
<1> HIDE DEF R
<1>3. q \in [1..Len(q) -> R]
  BY <1>1, <1>2
<1>4. q \in Seq(R)
  BY <1>1, <1>3
<1> QED
  BY <1>4 DEF IsSeq, R

LEMMA SeqAppend ==
  ASSUME NEW q, IsSeq(q), NEW x
  PROVE  /\ IsSeq(Append(q, x)) /\ Len(Append(q, x)) = Len(q) + 1 /\ Append(q, x) # <<>>
         /\ DOMAIN Append(q, x) = 1..(Len(q) + 1) /\ Append(q, x)[Len(q) + 1] = x
         /\ \A i \in DOMAIN q : i \in DOMAIN Append(q, x) /\ Append(q, x)[i] = q[i]
<1> DEFINE R == {q[i] : i \in DOMAIN q}
           S == R \cup {x}
<1>1. q \in Seq(R)
  BY DEF IsSeq
<1> HIDE DEF R
<1>2. q \in Seq(S) /\ x \in S
  BY <1>1
<1> HIDE DEF S
<1>3. /\ Append(q, x) \in Seq(S) /\ Len(Append(q, x)) = Len(q) + 1
      /\ \A i \in 1..Len(q) : Append(q, x)[i] = q[i]
      /\ Append(q, x)[Len(q) + 1] = x /\ Len(q) \in Nat /\ DOMAIN q = 1..Len(q)
  BY ONLY <1>2
<1>4. IsSeq(Append(q, x))
  BY <1>3, SeqIn
<1>5. DOMAIN Append(q, x) = 1..(Len(q) + 1) /\ Append(q, x) # <<>>
  BY <1>3, <1>4, SeqOK
<1>6. \A i \in 1..Len(q) : i \in 1..(Len(q) + 1)
  BY <1>3
<1> QED
  BY <1>3, <1>4, <1>5, <1>6

LEMMA SeqExcept ==
  ASSUME NEW q, IsSeq(q), NEW i \in DOMAIN q, NEW x
  PROVE  LET r == [q EXCEPT ![i] = x] IN
         /\ IsSeq(r) /\ Len(r) = Len(q) /\ DOMAIN r = DOMAIN q /\ r[i] = x
         /\ \A j \in DOMAIN q : j # i => r[j] = q[j]
<1> DEFINE R == {q[k] : k \in DOMAIN q}
           S == R \cup {x}
           r == [q EXCEPT ![i] = x]
<1>1. q \in Seq(R)
  BY DEF IsSeq
<1> HIDE DEF R
<1>2. q \in Seq(S) /\ x \in S /\ i \in 1..Len(q)
  BY <1>1
<1> HIDE DEF S
<1>3. /\ r \in Seq(S) /\ Len(r) = Len(q) /\ DOMAIN r = 1..Len(q) /\ DOMAIN q = 1..Len(q)
      /\ r[i] = x /\ \A j \in 1..Len(q) : j # i => r[j] = q[j]
  BY ONLY <1>2
<1> HIDE DEF r
<1>4. IsSeq(r)
  BY <1>3, SeqIn
<1> QED
  BY <1>3, <1>4 DEF r

LEMMA SeqMap ==
  ASSUME NEW n \in Nat, NEW q, q = [i \in 1..n |-> q[i]]
  PROVE  IsSeq(q) /\ Len(q) = n
<1> DEFINE R == {q[i] : i \in 1..n}
<1>1. \A i \in 1..n : q[i] \in R
  OBVIOUS
<1> HIDE DEF R
<1>2. q \in [1..n -> R]
  BY <1>1
<1>3. q \in Seq(R) /\ Len(q) = n
  BY <1>2
<1> QED
  BY <1>3, SeqIn

-----------------------------------------------------------------------------
\* Runs and artifacts only gain: what a run was made from, the attempts that have ended, what
\* was uploaded stay as they are.

Evolves ==
    /\ world' = world
    /\ \A r \in DOMAIN runs :
         /\ r \in DOMAIN runs' /\ runs'[r].batch = runs[r].batch /\ runs'[r].orch = runs[r].orch
         /\ runs'[r].nonce = runs[r].nonce /\ runs'[r].sha = runs[r].sha
         /\ runs'[r].expected = runs[r].expected
         /\ runs[r].done # <<>> => runs'[r].done # <<>> /\ runs'[r].done[1] = runs[r].done[1]
    /\ \A i \in DOMAIN artifacts :
         /\ i \in DOMAIN artifacts' /\ artifacts'[i].run = artifacts[i].run
         /\ artifacts'[i].attempt = artifacts[i].attempt
         /\ artifacts'[i].sentinel = artifacts[i].sentinel /\ artifacts'[i].files = artifacts[i].files

LEMMA SameHistory ==
  ASSUME UNCHANGED <<world, runs, artifacts>>
  PROVE  Evolves /\ (HistoryOK => HistoryOK')
<1>1. Evolves
  BY DEF Evolves
<1>2. HistoryOK => HistoryOK'
  BY DEF HistoryOK, RunOK, ArtifactOK
<1> QED
  BY <1>1, <1>2

LEMMA RunFields ==
  ASSUME HistoryOK, NEW r \in DOMAIN runs
  PROVE  /\ runs[r].batch \in Batches /\ runs[r].orch \in 1..MaxPlans /\ runs[r].nonce \in Nonces
         /\ runs[r].sha \in Shas /\ runs[r].expected \in Shas /\ runs[r].attempt \in 1..2
         /\ IsSeq(runs[r].done) /\ Len(runs[r].done) \in {runs[r].attempt - 1, runs[r].attempt}
         /\ \A k \in DOMAIN runs[r].done : runs[r].done[k].conclusion \in Conclusions
BY DEF HistoryOK, RunOK

LEMMA Dispatched ==
  ASSUME WorldOK, HistoryOK, NEW b \in Batches, Dispatch(b), world' = world, artifacts' = artifacts
  PROVE  Evolves /\ HistoryOK'
<1> DEFINE run == [batch |-> b, orch |-> plan.orch, nonce |-> plan.nonces[b], sha |-> tip,
                   expected |-> plan.sha, attempt |-> 1, done |-> <<>>]
<1>1. runs' = Append(runs, run) /\ Len(runs) < MaxRuns /\ IsSeq(runs)
  BY DEF Dispatch, HistoryOK
<1>2. /\ run \in [batch : Batches, orch : 1..MaxPlans, nonce : Nonces, sha : Shas,
                  expected : Shas, attempt : 1..2, done : {run.done}]
      /\ run.done = <<>> /\ run.attempt = 1
  <2>1. plan.nonces \in [Batches -> Nonces]
    BY WorldConstants DEF WorldOK
  <2> QED
    BY <2>1 DEF WorldOK
<1> HIDE DEF run
<1>3. /\ IsSeq(runs') /\ Len(runs') = Len(runs) + 1 /\ DOMAIN runs' = 1..(Len(runs) + 1)
      /\ runs'[Len(runs) + 1] = run
      /\ \A r \in DOMAIN runs : r \in DOMAIN runs' /\ runs'[r] = runs[r]
  BY <1>1, SeqAppend
<1>4. Len(runs) \in Nat /\ DOMAIN runs = 1..Len(runs)
  BY <1>1, SeqOK
<1>5. Evolves
  BY <1>3 DEF Evolves
<1>6. ASSUME NEW r \in DOMAIN runs' PROVE RunOK(r)'
  <2>1. CASE r \in DOMAIN runs
    BY <1>3, <2>1 DEF HistoryOK, RunOK
  <2>2. CASE r = Len(runs) + 1
    BY <1>2, <1>3, <2>2, SeqEmpty DEF RunOK
  <2> QED
    BY <1>3, <1>4, <2>1, <2>2
<1>7. ASSUME NEW i \in DOMAIN artifacts PROVE ArtifactOK(i)'
  <2>1. ArtifactOK(i) /\ artifacts[i].run \in DOMAIN runs
    BY DEF HistoryOK, ArtifactOK
  <2>2. runs'[artifacts[i].run] = runs[artifacts[i].run] /\ DOMAIN runs \subseteq DOMAIN runs'
    BY <1>3, <2>1
  <2> QED
    BY <2>1, <2>2 DEF ArtifactOK
<1>8. Len(runs') <= MaxRuns
  BY <1>1, <1>3, <1>4, EvidenceConstants
<1> QED
  BY <1>3, <1>5, <1>6, <1>7, <1>8 DEF HistoryOK

\* The summary job of a batch, named part by part
GivenFiles(r, reports) ==
    [p \in {p \in Registered(r) : reports[p].source # "absent"} |-> ResultFrom(reports[p], r)]
GivenJobs(r, reports) == [p \in Registered(r) |-> reports[p].conclusion]
CollectorOf(r) == CHOOSE a \in CommitOf(runs[r].sha).uses[runs[r].batch] : a \in Collectors
AttestsIn(r) == Attests(CommitOf(runs[r].sha), runs[r].batch)
Version(r) == IF CollectorOf(r) = Strict THEN 2 ELSE IF AttestsIn(r) THEN 1 ELSE None
Uploads(r, files) == CollectorOf(r) = Strict \/ (AttestsIn(r) => Attestable(r, files))
Uploaded(r, files) ==
    [run |-> r, attempt |-> runs[r].attempt, state |-> "there",
     sentinel |-> Sentinel(r, Version(r), files), files |-> files]
Ended(r, reports, broken) ==
    [jobs |-> GivenJobs(r, reports),
     conclusion |-> IF /\ Uploads(r, GivenFiles(r, reports)) /\ ~broken
                       /\ \A p \in Registered(r) : GivenJobs(r, reports)[p] = "success"
                    THEN "success" ELSE "failure"]
FinishedAs(r, reports, broken) ==
    /\ \A p \in Registered(r) : reports[p] \in Reports(world, p)
    /\ artifacts' = IF Uploads(r, GivenFiles(r, reports))
                    THEN Append(artifacts, Uploaded(r, GivenFiles(r, reports))) ELSE artifacts
    /\ runs' = [runs EXCEPT ![r].done = Append(@, Ended(r, reports, broken))]
    /\ people' = IF broken THEN people - 1 ELSE people

LEMMA FinishIs ==
  ASSUME NEW r, Finish(r)
  PROVE  \E reports : \E broken \in IF people > 0 THEN BOOLEAN ELSE {FALSE} :
           FinishedAs(r, reports, broken)
BY DEF Finish, FinishedAs, Ended, Uploaded, Uploads, AttestsIn, Version, CollectorOf, GivenJobs,
       GivenFiles

LEMMA Gives ==
  ASSUME WorldOK, NEW r, NEW reports, \A p \in Registered(r) : reports[p] \in Reports(world, p)
  PROVE  \A p \in Registered(r) : p \in Packages /\ reports[p] \in Report
BY CommitsAndReports DEF WorldOK, Registered, PackagesOf

\* A run that has not ended its attempt ends it.
LEMMA EndsRun ==
  ASSUME HistoryOK, NEW r \in DOMAIN runs, ~Completed(r), NEW end,
         end.conclusion \in Conclusions, runs' = [runs EXCEPT ![r].done = Append(@, end)]
  PROVE  /\ IsSeq(runs') /\ Len(runs') = Len(runs) /\ DOMAIN runs' = DOMAIN runs
         /\ \A q \in DOMAIN runs : q # r => runs'[q] = runs[q]
         /\ runs'[r].batch = runs[r].batch /\ runs'[r].orch = runs[r].orch
         /\ runs'[r].nonce = runs[r].nonce /\ runs'[r].sha = runs[r].sha
         /\ runs'[r].expected = runs[r].expected /\ runs'[r].attempt = runs[r].attempt
         /\ runs'[r].done = Append(runs[r].done, end) /\ Len(runs[r].done) = runs[r].attempt - 1
         /\ \A q \in DOMAIN runs : RunOK(q)'
<1> DEFINE run == runs[r]
           now == [run EXCEPT !.done = Append(@, end)]
<1>1. IsSeq(runs) /\ r \in DOMAIN runs /\ \A q \in DOMAIN runs : RunOK(q)
  BY DEF HistoryOK
<1>2. /\ run \in [batch : Batches, orch : 1..MaxPlans, nonce : Nonces, sha : Shas, expected : Shas,
                  attempt : 1..2, done : {run.done}]
      /\ IsSeq(run.done) /\ Len(run.done) \in {run.attempt - 1, run.attempt}
      /\ \A k \in DOMAIN run.done : run.done[k].conclusion \in Conclusions
  BY <1>1 DEF RunOK
<1>3. Len(run.done) = run.attempt - 1
  BY <1>2 DEF Completed
<1>4. runs' = [runs EXCEPT ![r] = now]
  OBVIOUS
<1>5. /\ now.batch = run.batch /\ now.orch = run.orch /\ now.nonce = run.nonce /\ now.sha = run.sha
      /\ now.expected = run.expected /\ now.attempt = run.attempt
      /\ now.done = Append(run.done, end)
      /\ now \in [batch : Batches, orch : 1..MaxPlans, nonce : Nonces, sha : Shas, expected : Shas,
                  attempt : 1..2, done : {now.done}]
  BY <1>2
<1> HIDE DEF now
<1>6. /\ IsSeq(runs') /\ Len(runs') = Len(runs) /\ DOMAIN runs' = DOMAIN runs /\ runs'[r] = now
      /\ \A q \in DOMAIN runs : q # r => runs'[q] = runs[q]
  BY ONLY <1>1, <1>4, SeqExcept
<1>7. /\ IsSeq(now.done) /\ Len(now.done) = Len(run.done) + 1
      /\ \A k \in DOMAIN now.done : now.done[k].conclusion \in Conclusions
  <2>1. /\ IsSeq(now.done) /\ Len(now.done) = Len(run.done) + 1
        /\ DOMAIN now.done = 1..(Len(run.done) + 1) /\ now.done[Len(run.done) + 1] = end
        /\ \A k \in DOMAIN run.done : now.done[k] = run.done[k]
    BY <1>2, <1>5, SeqAppend
  <2>2. DOMAIN run.done = 1..Len(run.done) /\ Len(run.done) \in Nat
    BY <1>2, SeqOK
  <2>3. \A k \in 1..(Len(run.done) + 1) : k \in 1..Len(run.done) \/ k = Len(run.done) + 1
    BY <2>2
  <2> QED
    BY <1>2, <2>1, <2>2, <2>3
<1>8. Len(now.done) = now.attempt
  BY <1>2, <1>3, <1>5, <1>7
<1>9. ASSUME NEW q \in DOMAIN runs PROVE RunOK(q)'
  <2>1. CASE q = r
    BY <1>5, <1>6, <1>7, <1>8, <2>1 DEF RunOK
  <2>2. CASE q # r
    BY <1>1, <1>6, <2>2 DEF RunOK
  <2> QED
    BY <2>1, <2>2
<1> QED
  BY <1>3, <1>5, <1>6, <1>9

\* An artifact's facts rest on what does not change.
LEMMA ArtifactsKeep ==
  ASSUME HistoryOK, Evolves, NEW i \in DOMAIN artifacts,
         artifacts'[i] = artifacts[i]
  PROVE  ArtifactOK(i)'
<1>1. ArtifactOK(i) /\ artifacts[i].run \in DOMAIN runs
  BY DEF HistoryOK, ArtifactOK
<1>2. \A r \in DOMAIN runs :
         /\ r \in DOMAIN runs' /\ runs'[r].batch = runs[r].batch /\ runs'[r].orch = runs[r].orch
         /\ runs'[r].nonce = runs[r].nonce /\ runs'[r].sha = runs[r].sha
  BY DEF Evolves
<1>3. artifacts[i] \in [run : DOMAIN runs', attempt : 1..2, state : {"there", "expired", "gone"},
                        sentinel : {artifacts[i].sentinel}, files : {artifacts[i].files}]
  BY <1>1, <1>2 DEF ArtifactOK
<1> QED
  BY <1>1, <1>2, <1>3 DEF ArtifactOK

LEMMA FinishKeeps ==
  ASSUME WorldOK, HistoryOK, NEW r \in DOMAIN runs, Finish(r)
  PROVE  Evolves /\ HistoryOK'
<1>1. PICK reports, broken : FinishedAs(r, reports, broken)
  BY FinishIs
<1> DEFINE files == GivenFiles(r, reports)
           end == Ended(r, reports, broken)
           new == Uploaded(r, files)
<1>2. ~Completed(r) /\ world' = world
  BY DEF Finish
<1>3. end.conclusion \in Conclusions
  BY DEF Ended, Conclusions
<1>4. runs' = [runs EXCEPT ![r].done = Append(@, end)]
      /\ (artifacts' = Append(artifacts, new) \/ artifacts' = artifacts)
  BY <1>1 DEF FinishedAs
<1>5. \A p \in DOMAIN files : files[p].claim \in Claim
  BY <1>1, Gives DEF FinishedAs, GivenFiles, ResultFrom, Report
<1>6. RunOK(r) /\ runs[r].attempt \in 1..2
  BY DEF HistoryOK, RunOK
<1>7. /\ new.run = r /\ new.attempt = runs[r].attempt /\ new.state = "there" /\ new.files = files
      /\ new \in [run : DOMAIN runs, attempt : 1..2, state : {"there", "expired", "gone"},
                  sentinel : {new.sentinel}, files : {new.files}]
      /\ new.sentinel =
           [version |-> new.sentinel.version, batch |-> runs[r].batch, orch |-> runs[r].orch,
            nonce |-> runs[r].nonce, sha |-> runs[r].sha, run |-> r,
            attempt |-> runs[r].attempt, files |-> files]
  BY <1>6 DEF Uploaded, Sentinel
<1> HIDE DEF files, end, new
<1>8. /\ IsSeq(runs') /\ Len(runs') = Len(runs) /\ DOMAIN runs' = DOMAIN runs
      /\ \A q \in DOMAIN runs : q # r => runs'[q] = runs[q]
      /\ runs'[r].batch = runs[r].batch /\ runs'[r].orch = runs[r].orch
      /\ runs'[r].nonce = runs[r].nonce /\ runs'[r].sha = runs[r].sha
      /\ runs'[r].expected = runs[r].expected
      /\ runs'[r].done = Append(runs[r].done, end)
      /\ \A q \in DOMAIN runs : RunOK(q)'
  BY <1>2, <1>3, <1>4, EndsRun
<1>9. IsSeq(artifacts) /\ IsSeq(runs[r].done)
  BY <1>6 DEF HistoryOK, RunOK
<1>10. /\ IsSeq(artifacts') /\ \A i \in DOMAIN artifacts : i \in DOMAIN artifacts' /\ artifacts'[i] = artifacts[i]
       /\ \A i \in DOMAIN artifacts' : i \in DOMAIN artifacts \/ artifacts'[i] = new
  <2>1. CASE artifacts' = artifacts
    BY <1>9, <2>1
  <2>2. CASE artifacts' = Append(artifacts, new)
    <3>1. Len(artifacts) \in Nat /\ DOMAIN artifacts = 1..Len(artifacts)
      BY <1>9, SeqOK
    <3>2. /\ IsSeq(artifacts') /\ DOMAIN artifacts' = 1..(Len(artifacts) + 1)
          /\ artifacts'[Len(artifacts) + 1] = new
          /\ \A i \in DOMAIN artifacts : i \in DOMAIN artifacts' /\ artifacts'[i] = artifacts[i]
      BY <1>9, <2>2, SeqAppend
    <3>3. \A i \in 1..(Len(artifacts) + 1) : i \in 1..Len(artifacts) \/ i = Len(artifacts) + 1
      BY <3>1
    <3> QED
      BY <3>1, <3>2, <3>3
  <2> QED
    BY <1>4, <2>1, <2>2
<1>11. Evolves
  <2>1. runs[r].done # <<>> => runs'[r].done # <<>> /\ runs'[r].done[1] = runs[r].done[1]
    <3>1. runs[r].done # <<>> => 1 \in DOMAIN runs[r].done
      BY <1>9, SeqOK
    <3> QED
      BY <1>8, <1>9, <3>1, SeqAppend
  <2>2. \A q \in DOMAIN runs :
         /\ q \in DOMAIN runs' /\ runs'[q].batch = runs[q].batch /\ runs'[q].orch = runs[q].orch
         /\ runs'[q].nonce = runs[q].nonce /\ runs'[q].sha = runs[q].sha
         /\ runs'[q].expected = runs[q].expected
         /\ runs[q].done # <<>> => runs'[q].done # <<>> /\ runs'[q].done[1] = runs[q].done[1]
    BY <1>8, <2>1
  <2> QED
    BY <1>2, <1>10, <2>2 DEF Evolves
<1>12. ASSUME NEW i \in DOMAIN artifacts' PROVE ArtifactOK(i)'
  <2>1. CASE i \in DOMAIN artifacts
    BY <1>10, <1>11, <2>1, ArtifactsKeep
  <2>2. CASE artifacts'[i] = new
    BY <1>5, <1>7, <1>8, <2>2 DEF ArtifactOK
  <2> QED
    BY <1>10, <2>1, <2>2
<1> QED
  BY <1>8, <1>10, <1>11, <1>12 DEF HistoryOK

LEMMA RerunKeeps ==
  ASSUME HistoryOK, NEW r \in DOMAIN runs, Rerun(r)
  PROVE  Evolves /\ HistoryOK'
<1> DEFINE run == runs[r]
           now == [run EXCEPT !.attempt = 2]
<1>1. IsSeq(runs) /\ r \in DOMAIN runs /\ \A q \in DOMAIN runs : RunOK(q)
  BY DEF HistoryOK
<1>2. /\ run \in [batch : Batches, orch : 1..MaxPlans, nonce : Nonces, sha : Shas, expected : Shas,
                  attempt : 1..2, done : {run.done}]
      /\ IsSeq(run.done) /\ \A k \in DOMAIN run.done : run.done[k].conclusion \in Conclusions
  BY <1>1 DEF RunOK
<1>3. Len(run.done) = 1 /\ world' = world
  BY DEF Rerun, Interferes, Completed
<1>11. runs' = [runs EXCEPT ![r] = now]
  BY DEF Rerun
<1>4. /\ now.batch = run.batch /\ now.orch = run.orch /\ now.nonce = run.nonce /\ now.sha = run.sha
      /\ now.expected = run.expected /\ now.attempt = 2 /\ now.done = run.done
      /\ now \in [batch : Batches, orch : 1..MaxPlans, nonce : Nonces, sha : Shas, expected : Shas,
                  attempt : 1..2, done : {now.done}]
  BY <1>2
<1> HIDE DEF now
<1>5. /\ IsSeq(runs') /\ Len(runs') = Len(runs) /\ DOMAIN runs' = DOMAIN runs /\ runs'[r] = now
      /\ \A q \in DOMAIN runs : q # r => runs'[q] = runs[q]
  BY ONLY <1>1, <1>11, SeqExcept
<1>6. ASSUME NEW q \in DOMAIN runs PROVE RunOK(q)'
  <2>1. CASE q = r
    <3>1. /\ IsSeq(now.done) /\ Len(now.done) \in {now.attempt - 1, now.attempt}
          /\ \A k \in DOMAIN now.done : now.done[k].conclusion \in Conclusions
      BY <1>2, <1>3, <1>4
    <3> QED
      BY <1>4, <1>5, <2>1, <3>1 DEF RunOK
  <2>2. CASE q # r
    BY <1>1, <1>5, <2>2 DEF RunOK
  <2> QED
    BY <2>1, <2>2
<1>7. /\ IsSeq(artifacts') /\ DOMAIN artifacts' = DOMAIN artifacts
      /\ \A i \in DOMAIN artifacts :
           /\ artifacts'[i].run = artifacts[i].run /\ artifacts'[i].attempt = artifacts[i].attempt
           /\ artifacts'[i].sentinel = artifacts[i].sentinel /\ artifacts'[i].files = artifacts[i].files
           /\ artifacts'[i] \in [run : DOMAIN runs, attempt : 1..2,
                 state : {"there", "expired", "gone"},
                 sentinel : {artifacts[i].sentinel}, files : {artifacts[i].files}]
  <2>1. IsSeq(artifacts) /\ Len(artifacts) \in Nat /\ DOMAIN artifacts = 1..Len(artifacts)
    BY SeqOK DEF HistoryOK
  <2>2. \A i \in DOMAIN artifacts :
          artifacts[i] \in [run : DOMAIN runs, attempt : 1..2, state : {"there", "expired", "gone"},
                            sentinel : {artifacts[i].sentinel}, files : {artifacts[i].files}]
    BY DEF HistoryOK, ArtifactOK
  <2>3. CASE artifacts' = artifacts
    BY <2>1, <2>2, <2>3
  <2>4. CASE artifacts' = [i \in DOMAIN artifacts |->
            IF artifacts[i].run = r THEN [artifacts[i] EXCEPT !.state = "gone"] ELSE artifacts[i]]
    <3>1. IsSeq(artifacts') /\ DOMAIN artifacts' = DOMAIN artifacts
      BY <2>1, <2>4, SeqMap
    <3>2. \A i \in DOMAIN artifacts : artifacts'[i] =
            IF artifacts[i].run = r THEN [artifacts[i] EXCEPT !.state = "gone"] ELSE artifacts[i]
      BY <2>4
    <3> HIDE <2>4
    <3> QED
      BY <2>2, <3>1, <3>2
  <2> QED
    BY <2>3, <2>4 DEF Rerun
<1>8. Evolves
  <2>1. \A q \in DOMAIN runs :
         /\ q \in DOMAIN runs' /\ runs'[q].batch = runs[q].batch /\ runs'[q].orch = runs[q].orch
         /\ runs'[q].nonce = runs[q].nonce /\ runs'[q].sha = runs[q].sha
         /\ runs'[q].expected = runs[q].expected /\ runs'[q].done = runs[q].done
    BY <1>4, <1>5
  <2> QED
    BY <1>3, <1>7, <2>1 DEF Evolves
<1>9. ASSUME NEW i \in DOMAIN artifacts PROVE ArtifactOK(i)'
  <2>1. ArtifactOK(i) /\ artifacts[i].run \in DOMAIN runs
    BY DEF HistoryOK, ArtifactOK
  <2>2. /\ runs'[artifacts[i].run].batch = runs[artifacts[i].run].batch
        /\ runs'[artifacts[i].run].orch = runs[artifacts[i].run].orch
        /\ runs'[artifacts[i].run].nonce = runs[artifacts[i].run].nonce
        /\ runs'[artifacts[i].run].sha = runs[artifacts[i].run].sha
    BY <1>8, <2>1 DEF Evolves
  <2> QED
    BY <1>5, <1>7, <2>1, <2>2 DEF ArtifactOK
<1>10. Len(runs') <= MaxRuns
  BY <1>5 DEF HistoryOK
<1> QED
  BY <1>5, <1>6, <1>7, <1>8, <1>9, <1>10 DEF HistoryOK

LEMMA ExpireKeeps ==
  ASSUME HistoryOK, NEW i \in DOMAIN artifacts, Expire(i)
  PROVE  Evolves /\ HistoryOK'
<1> DEFINE artifact == artifacts[i]
           now == [artifact EXCEPT !.state = "expired"]
<1>1. world' = world /\ runs' = runs /\ artifacts' = [artifacts EXCEPT ![i] = now]
  BY DEF Expire, Interferes
<1>2. IsSeq(artifacts) /\ ArtifactOK(i)
  BY DEF HistoryOK
<1>3. /\ now.run = artifact.run /\ now.attempt = artifact.attempt
      /\ now.sentinel = artifact.sentinel /\ now.files = artifact.files
      /\ now \in [run : DOMAIN runs, attempt : 1..2, state : {"there", "expired", "gone"},
                  sentinel : {now.sentinel}, files : {now.files}]
  BY <1>2 DEF ArtifactOK
<1> HIDE DEF now
<1>4. /\ IsSeq(artifacts') /\ DOMAIN artifacts' = DOMAIN artifacts /\ artifacts'[i] = now
      /\ \A j \in DOMAIN artifacts : j # i => artifacts'[j] = artifacts[j]
  BY <1>1, <1>2, SeqExcept
<1>5. Evolves
  BY <1>1, <1>3, <1>4 DEF Evolves
<1>6. ASSUME NEW j \in DOMAIN artifacts PROVE ArtifactOK(j)'
  <2>1. CASE j = i
    BY <1>1, <1>2, <1>3, <1>4, <2>1 DEF ArtifactOK
  <2>2. CASE j # i
    BY <1>4, <1>5, <2>2, ArtifactsKeep
  <2> QED
    BY <2>1, <2>2
<1>7. IsSeq(runs') /\ Len(runs') <= MaxRuns /\ \A r \in DOMAIN runs' : RunOK(r)'
  BY <1>1 DEF HistoryOK, RunOK
<1> QED
  BY <1>4, <1>5, <1>6, <1>7 DEF HistoryOK

\* What a step does to the runs and the artifacts
LEMMA HistorySteps ==
  ASSUME [Next]_vars
  PROVE  \/ UNCHANGED <<world, runs, artifacts>>
         \/ \E b \in Batches : Launch(b) \/ DispatchAgain(b)
         \/ \E r \in DOMAIN runs : Finish(r) \/ Rerun(r)
         \/ \E i \in DOMAIN artifacts : Expire(i)
BY DEF Next, vars, Discover, KnowTopology, VerifyVersion1, Push, TouchCheckout, NewPlan, Interferes,
       SelectRun, SelectJobs, SelectArtifact, BuildManifest, Aggregate, AggregateOther, Start,
       Decide, Outside

LEMMA HistoryKeeps ==
  ASSUME WorldOK, HistoryOK, [Next]_vars
  PROVE  Evolves /\ HistoryOK'
<1>1. CASE UNCHANGED <<world, runs, artifacts>>
  BY <1>1, SameHistory
<1>2. ASSUME NEW b \in Batches, Launch(b) \/ DispatchAgain(b) PROVE Evolves /\ HistoryOK'
  <2>1. Dispatch(b) /\ world' = world /\ artifacts' = artifacts
    BY <1>2 DEF Launch, DispatchAgain, Interferes
  <2> QED
    BY <2>1, Dispatched
<1> QED
  BY <1>1, <1>2, HistorySteps, FinishKeeps, RerunKeeps, ExpireKeeps

LEMMA WorldKeeps ==
  ASSUME WorldOK, [Next]_vars
  PROVE  WorldOK'
<1>1. /\ world \in Worlds /\ people \in Nat /\ people <= world.people /\ world.people \in Nat
      /\ tip \in Shas /\ checkout \in [sha : Shas, files : Shas]
      /\ plan \in [orch : 1..MaxPlans, sha : Shas, nonces : world.nonces]
  BY WorldConstants DEF WorldOK
<1> DEFINE Less == people > 0 /\ people' = people - 1
<1>2. Less => people' \in 0..world.people
  BY <1>1
<1>3. people' = people => people' \in 0..world.people
  BY <1>1
<1> HIDE DEF Less
<1>4. ASSUME NEW r \in DOMAIN runs, Finish(r)
      PROVE  people' = people \/ Less
  BY <1>4 DEF Finish, Less
<1>5. CASE people' = people /\ UNCHANGED <<world, tip, checkout, plan>>
  BY <1>1, <1>3, <1>5 DEF WorldOK
<1>6. CASE Less /\ UNCHANGED <<world, tip, checkout, plan>>
  BY <1>1, <1>2, <1>6 DEF WorldOK
<1>7. CASE Push
  <2>1. Less /\ UNCHANGED <<world, checkout, plan>> /\ tip' = 2
    BY <1>7 DEF Push, Interferes, Less
  <2> QED
    BY <1>1, <1>2, <2>1 DEF WorldOK, Shas
<1>8. CASE TouchCheckout
  <2>1. Less /\ UNCHANGED <<world, tip, plan>> /\ checkout' \in [sha : Shas, files : Shas]
    BY <1>8 DEF TouchCheckout, Interferes, Less
  <2> QED
    BY <1>1, <1>2, <2>1 DEF WorldOK
<1>9. CASE NewPlan
  <2>1. /\ Less /\ UNCHANGED <<world, tip>> /\ checkout' = [sha |-> tip, files |-> tip]
        /\ plan' \in [orch : {plan.orch + 1}, sha : {tip}, nonces : world.nonces]
        /\ plan.orch < MaxPlans
    BY <1>9 DEF NewPlan, Interferes, Less
  <2>2. plan.orch + 1 \in 1..MaxPlans
    BY <1>1, <2>1, EvidenceConstants
  <2> HIDE DEF Less
  <2>3. plan' \in [orch : 1..MaxPlans, sha : Shas, nonces : world.nonces]
    BY <1>1, <2>1, <2>2
  <2>4. checkout' \in [sha : Shas, files : Shas]
    BY <1>1, <2>1
  <2> QED
    BY <1>1, <1>2, <2>1, <2>3, <2>4 DEF WorldOK
<1>10. \/ (people' = people \/ Less) /\ UNCHANGED <<world, tip, checkout, plan>>
       \/ Push \/ TouchCheckout \/ NewPlan
  <2> DEFINE Same == (people' = people \/ Less) /\ UNCHANGED <<world, tip, checkout, plan>>
  <2>1. ASSUME NEW b \in Batches,
               Launch(b) \/ DispatchAgain(b) \/ SelectRun(b) \/ SelectJobs(b) \/ SelectArtifact(b)
        PROVE  Same
    BY <2>1 DEF Launch, DispatchAgain, Interferes, SelectRun, SelectJobs, SelectArtifact, Outside, Less
  <2>2. ASSUME NEW r \in DOMAIN runs, Finish(r) \/ Rerun(r) PROVE Same
    BY <1>4, <2>2 DEF Finish, Rerun, Interferes, Less
  <2>3. ASSUME NEW i \in DOMAIN artifacts, Expire(i) \/ VerifyVersion1(i) PROVE Same
    BY <2>3 DEF Expire, VerifyVersion1, Interferes, Outside, Less
  <2>4. ASSUME Discover \/ KnowTopology \/ BuildManifest \/ Decide PROVE Same
    BY <2>4 DEF Discover, KnowTopology, BuildManifest, Decide, Outside
  <2>5. ASSUME Aggregate \/ AggregateOther PROVE Same
    BY <2>5 DEF Aggregate, AggregateOther, Start, Interferes, Less
  <2>6. ASSUME UNCHANGED vars PROVE Same
    BY <2>6 DEF vars
  <2> HIDE DEF Same
  <2>7. Same \/ Push \/ TouchCheckout \/ NewPlan
    BY <2>1, <2>2, <2>3, <2>4, <2>5, <2>6 DEF Next
  <2> QED
    BY <2>7 DEF Same
<1> QED
  BY <1>5, <1>6, <1>7, <1>8, <1>9, <1>10

-----------------------------------------------------------------------------
\* What was read stays true.

LEMMA RecordKeeps ==
  ASSUME Evolves, NEW record
  PROVE  /\ RunRead(record) => RunRead(record)'
         /\ JobsRead(record) => JobsRead(record)'
         /\ RecordOK(record) => RecordOK(record)'
<1>1. RunRead(record) => RunRead(record)'
  BY DEF RunRead, Evolves
<1>2. JobsRead(record) => JobsRead(record)'
  BY <1>1 DEF JobsRead, RunRead, Evolves
<1>3. RecordOK(record) => RecordOK(record)'
  BY <1>2 DEF RecordOK, Evolves
<1> QED
  BY <1>1, <1>2, <1>3

LEMMA ManifestKeeps ==
  ASSUME Evolves, NEW m, ManifestOK(m)
  PROVE  ManifestOK(m)'
BY RecordKeeps DEF ManifestOK

LEMMA SameRegistered ==
  ASSUME Evolves, NEW r \in DOMAIN runs
  PROVE  Registered(r)' = Registered(r)
BY DEF Evolves, Registered, CommitOf

LEMMA SameCommit ==
  ASSUME Evolves
  PROVE  \A s : CommitOf(s)' = CommitOf(s)
BY DEF Evolves, CommitOf

LEMMA AggregateKeeps ==
  ASSUME Evolves, NEW g, AggregateOK(g)
  PROVE  AggregateOK(g)'
<1>1. DOMAIN g.run = DOMAIN g.status
  BY DEF AggregateOK
<1>2. ASSUME NEW b \in DOMAIN g.run
      PROVE  /\ g.run[b] \in DOMAIN runs /\ g.archives[b] \in DOMAIN artifacts
             /\ g.run[b] \in DOMAIN runs' /\ runs'[g.run[b]].done # <<>>
             /\ g.archives[b] \in DOMAIN artifacts'
             /\ runs'[g.run[b]].done[1] = runs[g.run[b]].done[1]
             /\ runs'[g.run[b]].batch = runs[g.run[b]].batch
             /\ runs'[g.run[b]].orch = runs[g.run[b]].orch
             /\ runs'[g.run[b]].sha = runs[g.run[b]].sha
             /\ artifacts'[g.archives[b]].run = artifacts[g.archives[b]].run
             /\ artifacts'[g.archives[b]].attempt = artifacts[g.archives[b]].attempt
             /\ artifacts'[g.archives[b]].files = artifacts[g.archives[b]].files
  BY DEF AggregateOK, Evolves
<1>3. Truthful(g)'
  <2>1. Truthful(g)
    BY DEF AggregateOK
  <2>2. CommitOf(g.sha)' = CommitOf(g.sha)
    BY SameCommit
  <2> QED
    BY <1>1, <1>2, <2>1, <2>2 DEF Truthful
<1>4. OwnEvidence(g)'
  <2>1. OwnEvidence(g)
    BY DEF AggregateOK
  <2> QED
    BY <1>2, <2>1 DEF OwnEvidence
<1>5. Reviewed(g)'
  BY DEF AggregateOK, Reviewed, Evolves, CommitOf
<1> QED
  BY <1>1, <1>2, <1>3, <1>4, <1>5 DEF AggregateOK

LEMMA VerifiedKeeps ==
  ASSUME HistoryOK, Evolves, NEW i \in DOMAIN artifacts, VerifiedOK(i)
  PROVE  VerifiedOK(i)'
<1> DEFINE r == artifacts[i].run
<1>1. r \in DOMAIN runs
  BY DEF HistoryOK, ArtifactOK
<1>2. /\ artifacts'[i].run = r /\ artifacts'[i].attempt = artifacts[i].attempt
      /\ artifacts'[i].files = artifacts[i].files
      /\ runs'[r].sha = runs[r].sha /\ runs'[r].expected = runs[r].expected
  BY <1>1 DEF Evolves
<1>3. \A q \in DOMAIN runs : Registered(q)' = Registered(q)
  BY SameRegistered
<1> QED
  BY <1>1, <1>2, <1>3 DEF VerifiedOK

LEMMA VerifyKeeps ==
  ASSUME HistoryOK, NEW i \in DOMAIN artifacts, VerifyVersion1(i)
  PROVE  VerifiedOK(i)
<1> DEFINE r == artifacts[i].run
<1>1. r \in DOMAIN runs /\ ArtifactOK(i)
  BY DEF HistoryOK, ArtifactOK
<1>2. Verifiable(r, artifacts[i])
  BY DEF VerifyVersion1
<1>3. runs[r].attempt = 1 /\ runs[r].sha = runs[r].expected
  BY <1>2 DEF Verifiable, Version1Context
<1>4. artifacts[i].sentinel.attempt = artifacts[i].attempt
  BY <1>1 DEF ArtifactOK
<1>5. artifacts[i].sentinel.attempt = runs[r].attempt
  <2> DEFINE s == artifacts[i].sentinel
  <2>1. [s EXCEPT !.files = artifacts[i].files] = Sentinel(r, 1, artifacts[i].files)
    BY <1>2 DEF Verifiable
  <2>2. s = [version |-> s.version, batch |-> runs[r].batch, orch |-> runs[r].orch,
             nonce |-> runs[r].nonce, sha |-> runs[r].sha, run |-> r,
             attempt |-> artifacts[i].attempt, files |-> artifacts[i].files]
    BY <1>1 DEF ArtifactOK
  <2>3. [s EXCEPT !.files = artifacts[i].files].attempt = s.attempt
    BY <2>2
  <2>4. Sentinel(r, 1, artifacts[i].files).attempt = runs[r].attempt
    BY DEF Sentinel
  <2> QED
    BY <2>1, <2>3, <2>4
<1> QED
  BY <1>2, <1>3, <1>4, <1>5 DEF Verifiable, ResultOf, VerifiedOK

-----------------------------------------------------------------------------
\* The parent's progress

LEMMA RecordsKeep ==
  ASSUME ParentOK, Evolves, parent'.records = parent.records
  PROVE  (IsSeq(parent.records) /\ \A b \in DOMAIN parent.records : RecordOK(parent.records[b]))'
<1>1. IsSeq(parent.records) /\ \A b \in DOMAIN parent.records : RecordOK(parent.records[b])
  BY DEF ParentOK
<1>2. ASSUME NEW b \in DOMAIN parent.records PROVE RecordOK(parent.records[b])'
  <2>1. PICK record : record = parent.records[b]
    OBVIOUS
  <2>2. RecordOK(record)'
    BY <1>1, <2>1, RecordKeeps
  <2> QED
    BY <2>1, <2>2
<1> QED
  BY <1>1, <1>2

LEMMA ParentSame ==
  ASSUME ParentOK, Evolves, manifests \subseteq manifests', ParentShape(parent)',
         parent'.records = parent.records, parent'.stage = parent.stage,
         parent'.part = parent.part,
         (parent.phase = "aggregate" =>
           /\ parent.manifest \in manifests
           /\ \A b \in DOMAIN parent.manifest.records : parent.archives[b] \in DOMAIN artifacts)'
  PROVE  ParentOK'
<1>2. PartOK'
  <2>1. PartOK
    BY DEF ParentOK
  <2>2. PICK part : part = parent.part
    OBVIOUS
  <2>3. /\ RunRead(part) => RunRead(part)'
        /\ JobsRead(part) => JobsRead(part)'
    BY RecordKeeps
  <2> QED
    BY <2>1, <2>2, <2>3 DEF PartOK
<1> QED
  BY <1>2, RecordsKeep DEF ParentOK

\* A step that changes the phase, what is known of the checkout, and nothing that was read
LEMMA PhaseKeeps ==
  ASSUME ParentOK, Evolves, manifests \subseteq manifests', NEW phase, phase # "aggregate",
         phase \in {"topology", "launch", "built", "done", "refused"}, NEW topology,
         parent' = [parent EXCEPT !.phase = phase, !.topology = topology]
  PROVE  ParentOK'
<1>1. /\ ParentShape(parent)' /\ parent'.phase = phase /\ parent'.records = parent.records
      /\ parent'.stage = parent.stage /\ parent'.part = parent.part
  BY DEF ParentOK, ParentShape
<1> QED
  BY <1>1, ParentSame

LEMMA SetPhase ==
  ASSUME ParentOK, NEW phase
  PROVE  [parent EXCEPT !.phase = phase]
           = [parent EXCEPT !.phase = phase, !.topology = parent.topology]
BY DEF ParentOK, ParentShape

LEMMA RefuseKeeps ==
  ASSUME ParentOK, Evolves, manifests \subseteq manifests', Refuse
  PROVE  ParentOK'
<1>1. parent' = [parent EXCEPT !.phase = "refused", !.topology = parent.topology]
  BY SetPhase DEF Refuse
<1> QED
  BY <1>1, PhaseKeeps

LEMMA StillKeeps ==
  ASSUME ParentOK, Evolves, manifests \subseteq manifests', parent' = parent
  PROVE  ParentOK'
<1>1. /\ ParentShape(parent)
      /\ parent.phase = "aggregate" =>
           /\ parent.manifest \in manifests
           /\ \A b \in DOMAIN parent.manifest.records : parent.archives[b] \in DOMAIN artifacts
  BY DEF ParentOK
<1>2. \A i \in DOMAIN artifacts : i \in DOMAIN artifacts'
  BY DEF Evolves
<1>3. ParentShape(parent)'
  BY <1>1 DEF ParentShape
<1>4. (parent.phase = "aggregate" =>
           /\ parent.manifest \in manifests
           /\ \A b \in DOMAIN parent.manifest.records : parent.archives[b] \in DOMAIN artifacts)'
  BY <1>1, <1>2
<1> QED
  BY <1>3, <1>4, ParentSame

LEMMA TouchKeeps ==
  ASSUME ParentOK, Evolves, TouchCheckout
  PROVE  ParentOK'
<1>1. /\ parent' = [parent EXCEPT !.steady = @ /\ parent.phase # "topology"]
      /\ manifests' = manifests /\ artifacts' = artifacts
  BY DEF TouchCheckout, Interferes, Written
<1>2. /\ ParentShape(parent)' /\ parent'.phase = parent.phase /\ parent'.records = parent.records
      /\ parent'.stage = parent.stage /\ parent'.part = parent.part
      /\ parent'.manifest = parent.manifest /\ parent'.archives = parent.archives
  BY <1>1 DEF ParentOK, ParentShape
<1> QED
  BY <1>1, <1>2, ParentSame DEF ParentOK

LEMMA IdleOK ==
  ASSUME parent = Idle
  PROVE  ParentOK
<1>1. /\ parent.records = <<>> /\ parent.stage = "run" /\ parent.phase = "topology"
      /\ ParentShape(parent)
  BY DEF Idle, ParentShape
<1> QED
  BY <1>1, SeqEmpty DEF ParentOK, PartOK

\* The run of a batch was read in its first attempt, which had ended.
LEMMA SelectRunKeeps ==
  ASSUME HistoryOK, ParentOK, Evolves, NEW b \in Batches, SelectRun(b)
  PROVE  ParentOK'
<1>1. UNCHANGED <<runs, artifacts, manifests>>
  BY DEF SelectRun, Outside, Written
<1>2. CASE Refuse
  BY <1>1, <1>2, RefuseKeeps
<1>3. CASE ~Refuse
  <2> DEFINE r == CHOOSE r \in Titled(b) : TRUE
             new == [batch |-> b, nonce |-> plan.nonces[b], run |-> r, sha |-> runs[r].sha,
                     attempt |-> runs[r].attempt, conclusion |-> Last(runs[r].done).conclusion,
                     jobs |-> <<>>, artifact |-> None, content |-> None]
  <2>1. /\ \E q \in Titled(b) : /\ Titled(b) = {q} /\ Completed(q)
                                /\ runs[q].sha = plan.sha /\ OriginalAttempt(runs[q].attempt)
        /\ parent' = [parent EXCEPT !.stage = "jobs", !.part = new]
        /\ \A q \in Titled(b) : runs[q].done # <<>>
    BY <1>3 DEF SelectRun
  <2>2. r \in Titled(b) /\ Completed(r) /\ runs[r].attempt = 1 /\ runs[r].done # <<>>
    BY <2>1 DEF OriginalAttempt
  <2>3. r \in DOMAIN runs /\ Len(runs[r].done) = 1 /\ Last(runs[r].done) = runs[r].done[1]
    BY <2>2 DEF Titled, Completed, Last
  <2>4. /\ new.run = r /\ new.attempt = 1 /\ new.conclusion = runs[r].done[1].conclusion
        /\ new = [batch |-> new.batch, nonce |-> new.nonce, run |-> new.run, sha |-> new.sha,
                  attempt |-> 1, conclusion |-> new.conclusion, jobs |-> new.jobs,
                  artifact |-> None, content |-> None]
    BY <2>2, <2>3
  <2>9. PICK part : part = new
    OBVIOUS
  <2> HIDE DEF new, r
  <2>5. /\ ParentShape(parent)' /\ parent'.phase = parent.phase /\ parent'.records = parent.records
        /\ parent'.stage = "jobs" /\ parent'.part = new
        /\ parent'.manifest = parent.manifest /\ parent'.archives = parent.archives
    BY <2>1 DEF ParentOK, ParentShape
  <2>6. RunRead(part)'
    BY <1>1, <2>2, <2>3, <2>4, <2>9 DEF RunRead
  <2>7. PartOK'
    BY <2>4, <2>5, <2>6, <2>9 DEF PartOK
  <2> QED
    BY <1>1, <2>5, <2>7, RecordsKeep DEF ParentOK
<1> QED
  BY <1>2, <1>3

LEMMA SelectJobsKeeps ==
  ASSUME HistoryOK, ParentOK, Evolves, NEW b \in Batches, SelectJobs(b)
  PROVE  ParentOK'
<1>1. UNCHANGED <<runs, artifacts, manifests>>
  BY DEF SelectJobs, Outside, Written
<1>2. CASE Refuse
  BY <1>1, <1>2, RefuseKeeps
<1>3. CASE ~Refuse
  <2> DEFINE part == parent.part
             jobs == runs[part.run].done[1].jobs
             new == [part EXCEPT !.jobs = jobs]
  <2>1. /\ RunRead(part) /\ part.attempt = 1
        /\ part = [batch |-> part.batch, nonce |-> part.nonce, run |-> part.run, sha |-> part.sha,
                   attempt |-> 1, conclusion |-> part.conclusion, jobs |-> part.jobs,
                   artifact |-> None, content |-> None]
    BY DEF SelectJobs, ParentOK, PartOK
  <2>2. parent' = [parent EXCEPT !.stage = "artifact", !.part = new]
    BY <1>3, <2>1 DEF SelectJobs
  <2>3. /\ new.run = part.run /\ new.attempt = 1 /\ new.conclusion = part.conclusion
        /\ new.jobs = jobs
        /\ new = [batch |-> new.batch, nonce |-> new.nonce, run |-> new.run, sha |-> new.sha,
                  attempt |-> 1, conclusion |-> new.conclusion, jobs |-> new.jobs,
                  artifact |-> None, content |-> None]
    BY <2>1
  <2>4. part = parent.part /\ jobs = runs[part.run].done[1].jobs
    OBVIOUS
  <2>9. PICK now : now = new
    OBVIOUS
  <2> HIDE DEF new, part, jobs
  <2>5. /\ ParentShape(parent)' /\ parent'.phase = parent.phase /\ parent'.records = parent.records
        /\ parent'.stage = "artifact" /\ parent'.part = new
        /\ parent'.manifest = parent.manifest /\ parent'.archives = parent.archives
    BY <2>2 DEF ParentOK, ParentShape
  <2>6. RunRead(now)' /\ JobsRead(now)'
    BY <1>1, <2>1, <2>3, <2>4, <2>9 DEF RunRead, JobsRead
  <2>7. PartOK'
    BY <2>3, <2>5, <2>6, <2>9 DEF PartOK
  <2> QED
    BY <1>1, <2>5, <2>7, RecordsKeep DEF ParentOK
<1> QED
  BY <1>2, <1>3

LEMMA SelectArtifactKeeps ==
  ASSUME HistoryOK, ParentOK, Evolves, NEW b \in Batches, SelectArtifact(b)
  PROVE  ParentOK'
<1>1. UNCHANGED <<runs, artifacts, manifests>>
  BY DEF SelectArtifact, Outside, Written
<1>2. CASE Refuse
  BY <1>1, <1>2, RefuseKeeps
<1>3. CASE ~Refuse
  <2> DEFINE part == parent.part
             matching == {i \in DOMAIN artifacts : artifacts[i].run = part.run
                                                 /\ artifacts[i].state # "gone"}
             i == CHOOSE i \in matching : TRUE
             new == [part EXCEPT !.artifact = i, !.content = Content(artifacts[i])]
  <2>1. /\ JobsRead(part) /\ part.attempt = 1
        /\ part = [batch |-> part.batch, nonce |-> part.nonce, run |-> part.run, sha |-> part.sha,
                   attempt |-> 1, conclusion |-> part.conclusion, jobs |-> part.jobs,
                   artifact |-> None, content |-> None]
    BY DEF SelectArtifact, ParentOK, PartOK
  <2>2. /\ \E k \in matching : matching = {k}
        /\ parent' = [parent EXCEPT !.stage = "run", !.part = None, !.records = Append(@, new)]
    BY <1>3 DEF SelectArtifact
  <2>3. i \in DOMAIN artifacts
    BY <2>2
  <2>4. /\ new.run = part.run /\ new.conclusion = part.conclusion /\ new.jobs = part.jobs
        /\ new.artifact = i
    BY <2>1
  <2>5. part = parent.part
    OBVIOUS
  <2>10. PICK record : record = new
    OBVIOUS
  <2> HIDE DEF new, part, i, matching
  <2>6. /\ ParentShape(parent)' /\ parent'.phase = parent.phase
        /\ parent'.records = Append(parent.records, new) /\ parent'.stage = "run"
        /\ parent'.manifest = parent.manifest /\ parent'.archives = parent.archives
    BY <2>2 DEF ParentOK, ParentShape
  <2>7. RecordOK(record)'
    BY <1>1, <2>1, <2>3, <2>4, <2>10 DEF RecordOK, JobsRead, RunRead
  <2>8. (IsSeq(parent.records) /\ \A c \in DOMAIN parent.records : RecordOK(parent.records[c]))'
    <3>1. IsSeq(parent.records) /\ \A c \in DOMAIN parent.records : RecordOK(parent.records[c])
      BY DEF ParentOK
    <3>2. DOMAIN parent.records = 1..Len(parent.records) /\ Len(parent.records) \in Nat
      BY <3>1, SeqOK
    <3>3. /\ IsSeq(parent'.records) /\ DOMAIN parent'.records = 1..(Len(parent.records) + 1)
          /\ parent'.records[Len(parent.records) + 1] = new
          /\ \A c \in DOMAIN parent.records : parent'.records[c] = parent.records[c]
      BY <2>6, <3>1, SeqAppend
    <3>5. \A c \in 1..(Len(parent.records) + 1) :
             c \in 1..Len(parent.records) \/ c = Len(parent.records) + 1
      BY <3>2
    <3>6. ASSUME NEW c \in DOMAIN parent'.records PROVE RecordOK(parent.records[c])'
      <4>1. CASE c = Len(parent.records) + 1
        BY <2>7, <2>10, <3>3, <4>1
      <4>2. CASE c \in DOMAIN parent.records
        <5>1. PICK old : old = parent.records[c]
          OBVIOUS
        <5>2. RecordOK(old)'
          BY <3>1, <4>2, <5>1, RecordKeeps
        <5> QED
          BY <3>3, <4>2, <5>1, <5>2
      <4> QED
        BY <3>2, <3>3, <3>5, <4>1, <4>2
    <3> QED
      BY <3>3, <3>6
  <2>9. PartOK'
    BY <2>6 DEF PartOK
  <2> QED
    BY <1>1, <2>6, <2>8, <2>9 DEF ParentOK
<1> QED
  BY <1>2, <1>3

\* An aggregation is given a manifest that was written, and archives that exist.
LEMMA StartKeeps ==
  ASSUME ParentOK, Evolves, NEW m \in manifests, NEW archives, Start(m, archives),
         \A b \in DOMAIN m.records : archives[b] \in DOMAIN artifacts
  PROVE  ParentOK'
<1> DEFINE phase == IF Bound THEN "aggregate" ELSE "refused"
<1>1. /\ parent' = [parent EXCEPT !.phase = phase, !.manifest = m, !.archives = archives]
      /\ manifests' = manifests /\ artifacts' = artifacts /\ phase \in {"aggregate", "refused"}
  BY DEF Start, Written
<1> HIDE DEF phase
<1>2. /\ ParentShape(parent)' /\ parent'.phase = phase /\ parent'.records = parent.records
      /\ parent'.stage = parent.stage /\ parent'.part = parent.part
      /\ parent'.manifest = m /\ parent'.archives = archives
  BY <1>1 DEF ParentOK, ParentShape
<1> QED
  BY <1>1, <1>2, ParentSame

LEMMA ParentKeeps ==
  ASSUME WorldOK, HistoryOK, ParentOK, \A m \in manifests : ManifestOK(m), Evolves, [Next]_vars
  PROVE  ParentOK'
<1>1. CASE UNCHANGED <<parent, manifests>>
  BY <1>1, StillKeeps
<1>2. CASE KnowTopology
  <2>1. manifests' = manifests
    BY <1>2 DEF KnowTopology, Written
  <2>2. CASE Refuse
    BY <2>1, <2>2, RefuseKeeps
  <2>3. CASE parent' = [parent EXCEPT !.phase = "launch", !.topology = Topology(Scanned)]
    BY <2>1, <2>3, PhaseKeeps
  <2> QED
    BY <1>2, <2>2, <2>3 DEF KnowTopology
<1>3. CASE TouchCheckout
  BY <1>3, TouchKeeps
<1>4. CASE NewPlan
  <2>1. parent' = Idle
    BY <1>4 DEF NewPlan
  <2>2. /\ parent'.records = <<>> /\ parent'.stage = "run" /\ parent'.phase = "topology"
        /\ ParentShape(parent)'
    BY <2>1 DEF Idle, ParentShape
  <2> QED
    BY <2>2, SeqEmpty DEF ParentOK, PartOK
<1>5. ASSUME NEW b \in Batches, SelectRun(b) \/ SelectJobs(b) \/ SelectArtifact(b)
      PROVE  ParentOK'
  BY <1>5, SelectRunKeeps, SelectJobsKeeps, SelectArtifactKeeps
<1>6. CASE BuildManifest
  <2>1. parent' = [parent EXCEPT !.phase = "built"] /\ manifests \subseteq manifests'
    BY <1>6 DEF BuildManifest
  <2>2. parent' = [parent EXCEPT !.phase = "built", !.topology = parent.topology]
    BY <2>1, SetPhase
  <2> QED
    BY <2>1, <2>2, PhaseKeeps
<1>7. CASE Aggregate
  <2>1. PICK m \in manifests : Start(m, [b \in DOMAIN m.records |-> m.records[b].artifact])
    BY <1>7 DEF Aggregate
  <2> DEFINE archives == [b \in DOMAIN m.records |-> m.records[b].artifact]
  <2>2. \A b \in DOMAIN m.records : archives[b] \in DOMAIN artifacts
    BY DEF ManifestOK, RecordOK
  <2>3. Start(m, archives)
    BY <2>1
  <2> HIDE DEF archives
  <2> QED
    BY <2>2, <2>3, StartKeeps
<1>8. CASE AggregateOther
  <2>1. PICK m \in manifests : \E archives \in [DOMAIN m.records -> DOMAIN artifacts] : Start(m, archives)
    BY <1>8 DEF AggregateOther
  <2>2. PICK archives \in [DOMAIN m.records -> DOMAIN artifacts] : Start(m, archives)
    BY <2>1
  <2> QED
    BY <2>2, StartKeeps
<1>9. CASE Decide
  <2>1. manifests' = manifests
    BY <1>9 DEF Decide
  <2>2. CASE Refuse
    BY <2>1, <2>2, RefuseKeeps
  <2>3. CASE parent' = [parent EXCEPT !.phase = "done"]
    <3>1. parent' = [parent EXCEPT !.phase = "done", !.topology = parent.topology]
      BY <2>3, SetPhase
    <3> QED
      BY <2>1, <3>1, PhaseKeeps
  <2> QED
    BY <1>9, <2>2, <2>3 DEF Decide
<1>10. \/ UNCHANGED <<parent, manifests>>
       \/ KnowTopology \/ TouchCheckout \/ NewPlan \/ BuildManifest \/ Aggregate \/ AggregateOther \/ Decide
       \/ \E b \in Batches : SelectRun(b) \/ SelectJobs(b) \/ SelectArtifact(b)
  BY DEF Next, vars, Discover, VerifyVersion1, Push, Interferes, Launch, DispatchAgain, Finish, Rerun,
         Expire, Written
<1> QED
  BY <1>1, <1>2, <1>3, <1>4, <1>5, <1>6, <1>7, <1>8, <1>9, <1>10

\* A manifest holds what was read.
LEMMA ManifestsKeep ==
  ASSUME WorldOK, ParentOK, \A m \in manifests : ManifestOK(m), Evolves, [Next]_vars
  PROVE  (\A m \in manifests : ManifestOK(m))'
<1> DEFINE new == [orch |-> plan.orch, sha |-> plan.sha, topology |-> parent.topology,
                   records |-> parent.records]
<1>1. manifests' = manifests \/ (BuildManifest /\ manifests' = manifests \cup {new})
  <2> DEFINE Same == manifests' = manifests
  <2>1. ASSUME NEW b \in Batches,
               Launch(b) \/ DispatchAgain(b) \/ SelectRun(b) \/ SelectJobs(b) \/ SelectArtifact(b)
        PROVE  Same
    BY <2>1 DEF Launch, DispatchAgain, Interferes, SelectRun, SelectJobs, SelectArtifact, Written
  <2>2. ASSUME NEW r \in DOMAIN runs, Finish(r) \/ Rerun(r) PROVE Same
    BY <2>2 DEF Finish, Rerun, Interferes, Written
  <2>3. ASSUME NEW i \in DOMAIN artifacts, Expire(i) \/ VerifyVersion1(i)
        PROVE  Same
    BY <2>3 DEF Expire, VerifyVersion1, Interferes, Written
  <2>4. ASSUME Discover \/ KnowTopology \/ Decide PROVE Same
    BY <2>4 DEF Discover, KnowTopology, Decide, Written
  <2>5. ASSUME Push \/ TouchCheckout \/ NewPlan PROVE Same
    BY <2>5 DEF Push, TouchCheckout, NewPlan, Interferes, Written
  <2>6. ASSUME Aggregate \/ AggregateOther PROVE Same
    BY <2>6 DEF Aggregate, AggregateOther, Start, Written
  <2>7. ASSUME UNCHANGED vars PROVE Same
    BY <2>7 DEF vars
  <2>8. ASSUME BuildManifest PROVE manifests' = manifests \cup {new}
    BY <2>8 DEF BuildManifest
  <2> HIDE DEF new, Same
  <2>9. Same \/ BuildManifest
    BY <2>1, <2>2, <2>3, <2>4, <2>5, <2>6, <2>7 DEF Next
  <2> QED
    BY <2>8, <2>9 DEF Same
<1>2. new.sha \in Shas /\ new.records = parent.records
  BY DEF WorldOK
<1>3. ManifestOK(new)
  BY <1>2 DEF ManifestOK, ParentOK
<1> HIDE DEF new
<1>4. ASSUME NEW m \in manifests' PROVE ManifestOK(m)'
  BY <1>1, <1>3, <1>4, ManifestKeeps
<1> QED
  BY <1>4

-----------------------------------------------------------------------------
\* The two commands' discoveries

LEMMA TreesAre ==
  ASSUME WorldOK
  PROVE  \A s \in Shas : CommitOf(s) \in Commit /\ ATree(CommitOf(s))
<1>1. \A s \in Shas : CommitOf(s) \in Commit
  BY CommitsAndReports DEF WorldOK, CommitOf
<1>2. \A c \in Commit : ATree(c)
  BY DEF Commit, ATree
<1> QED
  BY <1>1, <1>2

LEMMA ScannedTree ==
  ASSUME WorldOK
  PROVE  ATree(Scanned)
<1>1. checkout.files \in Shas /\ plan.sha \in Shas
  BY DEF WorldOK
<1> QED
  BY <1>1, TreesAre DEF Scanned, Snapshot

Watched == parent.phase = "aggregate" \/ (parent.phase = "topology" /\ parent.steady)

LEMMA StillScans ==
  ASSUME DiscoveryOK, scan' = scan, Watched' => Watched, Watched' => Scanned' = Scanned,
         parent'.phase \notin {"topology", "aggregate"} => scan.verdict = "none"
  PROVE  DiscoveryOK'
<1>1. ScanTypes'
  BY DEF DiscoveryOK, ScanTypes
<1>2. ASSUME Watched' PROVE ScanInv(Scanned)'
  <2>1. PICK t : t = Scanned
    OBVIOUS
  <2>2. ScanInv(t) /\ Scanned' = t
    BY <1>2, <2>1 DEF DiscoveryOK, Watched
  <2>3. ScanInv(t)'
    BY <2>2 DEF ScanInv, ScanExact, RefusalJustified
  <2> QED
    BY <2>2, <2>3
<1> QED
  BY <1>1, <1>2 DEF DiscoveryOK, Watched

LEMMA NoScanOK ==
  ASSUME scan' = NoScan, parent'.phase \notin {"topology", "aggregate"}
  PROVE  DiscoveryOK'
<1>1. NoScan.verdict = "none"
  BY DEF NoScan
<1> QED
  BY <1>1, NoScanShape, EmptyCounts DEF DiscoveryOK, ScanTypes

LEMMA BegunOK ==
  ASSUME NEW t, ATree(t), scan' = BeginScan(t), parent'.phase \in {"topology", "aggregate"},
         Scanned' = t
  PROVE  DiscoveryOK'
<1>1. /\ Scanning(t, scan', {}) /\ scan'.verdict = "scanning"
      /\ ScanShape(scan') /\ ScanCounts(scan')
  BY BeginScanOK
<1>2. ScanInv(t)'
  BY <1>1 DEF ScanInv, ScanExact, RefusalJustified
<1>3. ScanInv(Scanned)'
  BY <1>2
<1> QED
  BY <1>1, <1>3 DEF DiscoveryOK, ScanTypes

LEMMA ScanPhases ==
  ASSUME [Next]_vars
  PROVE  \/ UNCHANGED <<parent, scan, checkout, plan>>
         \/ Discover \/ KnowTopology \/ TouchCheckout \/ NewPlan \/ BuildManifest \/ Decide
         \/ \E m, archives : Start(m, archives)
         \/ \E b \in Batches : SelectRun(b) \/ SelectJobs(b) \/ SelectArtifact(b)
<1> DEFINE Same == UNCHANGED <<parent, scan, checkout, plan>>
           Starts == \E m, archives : Start(m, archives)
<1>1. ASSUME NEW b \in Batches, Launch(b) \/ DispatchAgain(b) PROVE Same
  BY <1>1 DEF Launch, DispatchAgain, Interferes
<1>2. ASSUME NEW r \in DOMAIN runs, Finish(r) \/ Rerun(r) PROVE Same
  BY <1>2 DEF Finish, Rerun, Interferes
<1>3. ASSUME NEW i \in DOMAIN artifacts, Expire(i) \/ VerifyVersion1(i) PROVE Same
  BY <1>3 DEF Expire, VerifyVersion1, Interferes, Outside
<1>4. ASSUME Push \/ UNCHANGED vars PROVE Same
  BY <1>4 DEF Push, Interferes, vars
<1>5. ASSUME Aggregate \/ AggregateOther PROVE Starts
  BY <1>5 DEF Aggregate, AggregateOther
<1> HIDE DEF Same, Starts
<1>6. \/ Same \/ Starts
      \/ Discover \/ KnowTopology \/ TouchCheckout \/ NewPlan \/ BuildManifest \/ Decide
      \/ \E b \in Batches : SelectRun(b) \/ SelectJobs(b) \/ SelectArtifact(b)
  BY <1>1, <1>2, <1>3, <1>4, <1>5 DEF Next
<1> QED
  BY <1>6 DEF Same, Starts

LEMMA DiscoveryKeeps ==
  ASSUME WorldOK, ParentOK, DiscoveryOK, Evolves, WorldOK', [Next]_vars
  PROVE  DiscoveryOK'
<1>0. world' = world /\ \A s : CommitAt(world', s) = CommitAt(world, s)
  BY DEF Evolves
<1>1. CASE UNCHANGED <<parent, scan, checkout, plan>>
  <2>1. Scanned' = Scanned
    BY <1>0, <1>1 DEF Scanned, Snapshot, CommitOf
  <2> QED
    BY <1>1, <2>1, StillScans DEF Watched, DiscoveryOK
<1>2. CASE Discover
  <2>1. PICK t : t = Scanned
    OBVIOUS
  <2>2. ATree(t) /\ ScanStep(t) /\ parent' = parent /\ checkout' = checkout /\ plan' = plan
    BY <1>2, <2>1, ScannedTree DEF Discover, Outside
  <2>3. Scanned' = t
    BY <1>0, <2>1, <2>2 DEF Scanned, Snapshot, CommitOf
  <2>4. ScanTypes'
    BY <2>2, ScanStepTypes DEF DiscoveryOK
  <2>5. ASSUME Watched' PROVE ScanInv(Scanned)'
    <3>1. ScanInv(t)
      BY <2>1, <2>2, <2>5 DEF Watched, DiscoveryOK
    <3>2. ScanInv(t)'
      BY <2>2, <3>1, ScanKeeps
    <3> QED
      BY <2>3, <3>2
  <2>6. parent'.phase \in {"topology", "aggregate"}
    BY <1>2, <2>2 DEF Discover
  <2> QED
    BY <2>4, <2>5, <2>6 DEF DiscoveryOK, Watched
<1>3. ASSUME Refuse PROVE DiscoveryOK'
  <2>1. parent'.phase = "refused" /\ scan' = NoScan
    BY <1>3 DEF Refuse, ParentOK, ParentShape
  <2> QED
    BY <2>1, NoScanOK
<1>4. CASE KnowTopology
  <2>1. CASE ~Refuse
    <3>1. parent' = [parent EXCEPT !.phase = "launch", !.topology = Topology(Scanned)] /\ scan' = NoScan
      BY <1>4, <2>1 DEF KnowTopology
    <3>2. parent'.phase = "launch"
      BY <3>1 DEF ParentOK, ParentShape
    <3> QED
      BY <3>1, <3>2, NoScanOK
  <2> QED
    BY <1>3, <2>1
<1>5. CASE TouchCheckout
  <2>1. /\ parent' = [parent EXCEPT !.steady = @ /\ parent.phase # "topology"]
        /\ scan' = scan /\ plan' = plan
    BY <1>5 DEF TouchCheckout, Interferes
  <2>2. /\ parent'.phase = parent.phase
        /\ parent'.steady <=> (parent.steady /\ parent.phase # "topology")
    BY <2>1 DEF ParentOK, ParentShape
  <2>3. Watched' => parent.phase = "aggregate"
    BY <2>2 DEF Watched
  <2>4. Watched' => Watched /\ Scanned' = Scanned
    BY <1>0, <2>1, <2>2, <2>3 DEF Watched, Scanned, Snapshot, CommitOf
  <2> QED
    BY <2>1, <2>2, <2>4, StillScans DEF DiscoveryOK
<1>6. CASE NewPlan
  <2>1. /\ parent' = Idle /\ scan' = BeginScan(CommitOf(tip))
        /\ checkout' = [sha |-> tip, files |-> tip]
    BY <1>6 DEF NewPlan
  <2>2. PICK t : t = CommitOf(tip)
    OBVIOUS
  <2>3. ATree(t)
    BY <2>2, TreesAre DEF WorldOK
  <2>4. parent'.phase = "topology" /\ Scanned' = t
    BY <1>0, <2>1, <2>2 DEF Idle, Scanned, CommitOf
  <2> QED
    BY <2>1, <2>2, <2>3, <2>4, BegunOK
<1>7. CASE BuildManifest
  <2>1. parent' = [parent EXCEPT !.phase = "built"] /\ scan' = scan /\ parent.phase = "launch"
    BY <1>7 DEF BuildManifest
  <2>2. parent'.phase = "built"
    BY <2>1 DEF ParentOK, ParentShape
  <2> QED
    BY <2>1, <2>2, StillScans DEF DiscoveryOK, Watched
<1>8. CASE Decide
  <2>1. CASE ~Refuse
    <3>1. parent' = [parent EXCEPT !.phase = "done"] /\ scan' = NoScan
      BY <1>8, <2>1 DEF Decide
    <3>2. parent'.phase = "done"
      BY <3>1 DEF ParentOK, ParentShape
    <3> QED
      BY <3>1, <3>2, NoScanOK
  <2> QED
    BY <1>3, <2>1
<1>9. ASSUME NEW m, NEW archives, Start(m, archives) PROVE DiscoveryOK'
  <2>1. /\ parent' = [parent EXCEPT !.phase = IF Bound THEN "aggregate" ELSE "refused",
                                    !.manifest = m, !.archives = archives]
        /\ scan' = (IF Bound THEN BeginScan(Snapshot) ELSE NoScan) /\ plan' = plan
    BY <1>9 DEF Start
  <2>2. parent'.phase = IF Bound THEN "aggregate" ELSE "refused"
    BY <2>1 DEF ParentOK, ParentShape
  <2>3. CASE ~Bound
    BY <2>1, <2>2, <2>3, NoScanOK
  <2>4. CASE Bound
    <3>1. PICK t : t = Snapshot
      OBVIOUS
    <3>2. ATree(t)
      BY <3>1, TreesAre DEF WorldOK, Snapshot
    <3>3. Scanned' = t
      BY <1>0, <2>1, <2>2, <2>4, <3>1 DEF Scanned, Snapshot, CommitOf
    <3> QED
      BY <2>1, <2>2, <2>4, <3>1, <3>2, <3>3, BegunOK
  <2> QED
    BY <2>3, <2>4
<1>10. ASSUME NEW b \in Batches, SelectRun(b) \/ SelectJobs(b) \/ SelectArtifact(b)
       PROVE  DiscoveryOK'
  <2>1. parent.phase = "launch" /\ plan' = plan /\ checkout' = checkout
    BY <1>10 DEF SelectRun, SelectJobs, SelectArtifact, Current, Outside
  <2>2. CASE scan' = scan /\ parent'.phase = "launch"
    BY <2>1, <2>2, StillScans DEF DiscoveryOK, Watched
  <2>3. CASE SelectRun(b) /\ ~Refuse
    <3>1. scan' = scan /\ parent'.phase = "launch"
      BY <2>1, <2>3 DEF SelectRun, ParentOK, ParentShape
    <3> QED
      BY <2>2, <3>1
  <2>4. CASE SelectJobs(b) /\ ~Refuse
    <3>1. scan' = scan /\ parent'.phase = "launch"
      BY <2>1, <2>4 DEF SelectJobs, ParentOK, ParentShape
    <3> QED
      BY <2>2, <3>1
  <2>5. CASE SelectArtifact(b) /\ ~Refuse
    <3>1. scan' = scan /\ parent'.phase = "launch"
      BY <2>1, <2>5 DEF SelectArtifact, ParentOK, ParentShape
    <3> QED
      BY <2>2, <3>1
  <2> QED
    BY <1>3, <1>10, <2>3, <2>4, <2>5
<1> QED
  BY <1>1, <1>2, <1>4, <1>5, <1>6, <1>7, <1>8, <1>9, <1>10, ScanPhases

-----------------------------------------------------------------------------
\* What an aggregate says

LEMMA LeastIs ==
  ASSUME NEW S, S \subseteq Nat, S # {}
  PROVE  \E x \in S : \A y \in S : x <= y
<1>1. PICK x \in S : \A y \in S : ~ (<<y, x>> \in OpToRel(<, Nat))
  BY NatLessThanWellFounded, WFMin
<1>2. \A y \in S : ~ (y < x)
  BY <1>1, Zenon DEF OpToRel
<1> QED
  BY <1>2

\* Every package of a tree belongs to the last batch before it.
LEMMA PackagesAll ==
  ASSUME NEW t \in Commit, t.order # <<>> => t.order[1] \in Batches
  PROVE  UNION {PackagesOf(t, b) : b \in BatchesOf(t)} = WorkflowsOf(t) \cap Packages
<1>1. t.order \in Seq(Workflows) /\ Len(t.order) \in Nat /\ DOMAIN t.order = 1..Len(t.order)
  BY DEF Commit
<1>2. \A b : PackagesOf(t, b) \subseteq WorkflowsOf(t) \cap Packages
  BY DEF PackagesOf, WorkflowsOf
<1>3. ASSUME NEW p \in WorkflowsOf(t) \cap Packages
      PROVE  \E b \in BatchesOf(t) : p \in PackagesOf(t, b)
  <2>1. PICK i \in 1..Len(t.order) : t.order[i] = p
    BY <1>1 DEF WorkflowsOf
  <2>2. t.order[1] \in Batches /\ p \notin Batches
    BY <1>1, <2>1, EvidenceConstants
  <2> DEFINE S == {d \in Nat : d < i /\ t.order[i - d] \in Batches}
  <2>3. i - 1 \in S
    BY <2>1, <2>2
  <2>4. PICK d \in S : \A e \in S : d <= e
    BY <2>3, LeastIs
  <2>5. d \in Nat /\ d < i /\ t.order[i - d] \in Batches /\ d # 0
    BY <2>1, <2>2, <2>4
  <2>6. PICK j : j = i - d
    OBVIOUS
  <2>7. j \in 1..Len(t.order) /\ j < i /\ t.order[j] \in Batches
    BY <2>1, <2>5, <2>6
  <2>8. ASSUME NEW k \in (j + 1)..i PROVE t.order[k] \notin Batches
    <3>1. i - k \in Nat /\ i - k < d /\ i - k < i /\ i - (i - k) = k
      BY <2>1, <2>5, <2>6, <2>7
    <3>2. i - k \in S => d <= i - k
      BY <2>4
    <3>3. i - k \notin S
      <4> HIDE DEF S
      <4> QED
        BY <2>5, <3>1, <3>2
    <3> QED
      BY <3>1, <3>3
  <2> HIDE DEF S
  <2>9. Owns(t.order, j, i)
    BY <2>7, <2>8 DEF Owns
  <2>10. p \in PackagesOf(t, t.order[j])
    BY <1>1, <2>1, <2>7, <2>9 DEF PackagesOf
  <2>11. t.order[j] \in BatchesOf(t)
    BY <1>1, <2>7 DEF BatchesOf, WorkflowsOf
  <2> QED
    BY <2>10, <2>11
<1> QED
  BY <1>2, <1>3

\* Exactly one collector is reached, if one step is it and no step reaches another.
LEMMA OneReached ==
  ASSUME NEW t, ATree(t), NEW b \in Workflows, OneCollector(t, b)
  PROVE  Cardinality(ReachableFrom(t, t.uses[b]) \cap Collectors) = 1
<1> DEFINE R == t.uses[b]
<1>1. R \in SUBSET Actions
  BY UsesActions
<1>2. IsFiniteSet(Collectors)
  <2>1. Collectors = {} \cup {Legacy} \cup {Strict}
    BY DEF Collectors
  <2> QED
    BY <2>1, FS_EmptySet, FS_AddElement
<1>3. IsFiniteSet(R \cap Collectors) /\ Cardinality(R \cap Collectors) = 1
  <2>1. R \cap Collectors \in SUBSET Collectors
    OBVIOUS
  <2> QED
    BY <1>2, <2>1, FS_Subset DEF OneCollector
<1>4. PICK a : R \cap Collectors = {a}
  BY <1>3, FS_Singleton
<1>5. R \subseteq ReachableFrom(t, R)
  BY <1>1, ReachClosed
<1>6. ASSUME NEW x \in ReachableFrom(t, R) \cap Collectors PROVE x = a
  <2>1. PICK u \in R : x \in ReachableFrom(t, {u})
    BY <1>1, ReachOne
  <2>2. x = u
    BY <1>6, <2>1 DEF OneCollector
  <2> QED
    BY <1>4, <1>6, <2>1, <2>2
<1>7. ReachableFrom(t, R) \cap Collectors = {a}
  BY <1>4, <1>5, <1>6
<1> QED
  BY <1>7, FS_Singleton

\* What the aggregation has accepted, before it says so
Accepted(m, archives) ==
    /\ parent.phase = "aggregate" /\ m = parent.manifest /\ archives = parent.archives
    /\ scan.verdict = "found" /\ TopologyAccepted(Snapshot) /\ ManifestValid(m)
    /\ \A b \in DOMAIN m.records : BatchValid(m, archives, b)

\* The records are those of the batches, and the archive of each is of the run its record was
\* read from.
LEMMA AcceptedBatches ==
  ASSUME WorldOK, HistoryOK, ParentOK, NEW m, NEW archives, ManifestOK(m), Accepted(m, archives)
  PROVE  /\ DOMAIN m.records = BatchesOf(Snapshot) /\ m.sha = plan.sha /\ m.orch = plan.orch
         /\ \A b \in DOMAIN m.records :
              LET record == m.records[b]
                  r == record.run
                  archive == artifacts[archives[b]] IN
                /\ record.batch = b /\ record.attempt = 1
                /\ r \in DOMAIN runs /\ runs[r].done # <<>>
                /\ record.conclusion = runs[r].done[1].conclusion
                /\ record.jobs = runs[r].done[1].jobs
                /\ archives[b] \in DOMAIN artifacts /\ archive.run = r /\ archive.attempt = 1
                /\ runs[r].batch = b /\ runs[r].orch = m.orch /\ runs[r].sha = m.sha
                /\ \A p \in PackagesOf(Snapshot, b) :
                     /\ archive.files[p].run = r /\ archive.files[p].attempt = 1
                     /\ archive.files[p].claim.run = record.jobs[p]
                /\ DOMAIN archive.files = PackagesOf(Snapshot, b)
                /\ record.conclusion =
                     IF \E p \in PackagesOf(Snapshot, b) : archive.files[p].claim.run = "failure"
                     THEN "failure" ELSE "success"
<1>1. OfThisPlan(m) /\ \A b \in DOMAIN m.records : RecordValid(m, b)
  BY DEF Accepted, ManifestValid
<1>2. DOMAIN m.records = BatchesOf(Snapshot)
  <2>1. DOMAIN m.records = 1..Len(m.records)
    BY SeqOK DEF ManifestOK
  <2>2. Len(m.records) = Cardinality(BatchesOf(Snapshot))
    BY <1>1 DEF OfThisPlan
  <2>3. BatchesOf(Snapshot) = 1..Cardinality(BatchesOf(Snapshot))
    BY DEF Accepted, TopologyAccepted, WellRegistered
  <2> QED
    BY <2>1, <2>2, <2>3
<1>3. m.sha = plan.sha /\ m.orch = plan.orch
  BY <1>1 DEF OfThisPlan
<1>4. ASSUME NEW b \in DOMAIN m.records
      PROVE  LET record == m.records[b]
                 r == record.run
                 archive == artifacts[archives[b]] IN
                /\ record.batch = b /\ record.attempt = 1
                /\ r \in DOMAIN runs /\ runs[r].done # <<>>
                /\ record.conclusion = runs[r].done[1].conclusion
                /\ record.jobs = runs[r].done[1].jobs
                /\ archives[b] \in DOMAIN artifacts /\ archive.run = r /\ archive.attempt = 1
                /\ runs[r].batch = b /\ runs[r].orch = m.orch /\ runs[r].sha = m.sha
                /\ \A p \in PackagesOf(Snapshot, b) :
                     /\ archive.files[p].run = r /\ archive.files[p].attempt = 1
                     /\ archive.files[p].claim.run = record.jobs[p]
                /\ DOMAIN archive.files = PackagesOf(Snapshot, b)
                /\ record.conclusion =
                     IF \E p \in PackagesOf(Snapshot, b) : archive.files[p].claim.run = "failure"
                     THEN "failure" ELSE "success"
  <2> DEFINE record == m.records[b]
             archive == artifacts[archives[b]]
  <2>1. record.batch = b /\ record.attempt = 1
    BY <1>1 DEF RecordValid, OriginalAttempt
  <2>2. /\ record.run \in DOMAIN runs /\ runs[record.run].done # <<>>
        /\ record.conclusion = runs[record.run].done[1].conclusion
        /\ record.jobs = runs[record.run].done[1].jobs
    BY DEF ManifestOK, RecordOK, JobsRead, RunRead
  <2>3. archives[b] \in DOMAIN artifacts
    BY DEF Accepted, ParentOK
  <2>4. BatchValid(m, archives, b)
    BY DEF Accepted
  <2>5. SentinelValid(archive.sentinel, record, m)
    BY <2>4 DEF BatchValid
  <2>6. ArtifactOK(archives[b])
    BY <2>3 DEF HistoryOK
  <2>7. /\ archive.sentinel.batch = runs[archive.run].batch
        /\ archive.sentinel.orch = runs[archive.run].orch
        /\ archive.sentinel.sha = runs[archive.run].sha
        /\ archive.sentinel.run = archive.run /\ archive.sentinel.attempt = archive.attempt
    BY <2>6 DEF ArtifactOK
  <2>8. /\ archive.run = record.run /\ archive.attempt = 1
        /\ runs[record.run].batch = b /\ runs[record.run].orch = m.orch
        /\ runs[record.run].sha = m.sha
    BY <2>1, <2>5, <2>7 DEF SentinelValid
  <2>9. \A p \in PackagesOf(Snapshot, b) :
           /\ archive.files[p].run = record.run /\ archive.files[p].attempt = 1
           /\ archive.files[p].claim.run = record.jobs[p]
    BY <2>1, <2>4 DEF BatchValid, OwnResult, Aggregates
  <2>10. /\ DOMAIN archive.files = PackagesOf(Snapshot, b)
         /\ record.conclusion =
              IF \E p \in PackagesOf(Snapshot, b) : archive.files[p].claim.run = "failure"
              THEN "failure" ELSE "success"
    BY <2>4 DEF BatchValid, ConclusionMatches, RunStatus
  <2> QED
    BY <2>1, <2>2, <2>3, <2>8, <2>9, <2>10
<1> QED
  BY <1>2, <1>3, <1>4

LEMMA DecideOK ==
  ASSUME WorldOK, HistoryOK, ParentOK, DiscoveryOK, NEW m, NEW archives, ManifestOK(m),
         Accepted(m, archives)
  PROVE  AggregateOK(AggregateOf(m, archives))
<1> DEFINE status == [b \in DOMAIN m.records |-> [p \in PackagesOf(Snapshot, b) |->
                        RunStatus(m, archives, b, p)]]
           overall == IF \E b \in DOMAIN status : \E p \in DOMAIN status[b] : status[b][p] = "failure"
                      THEN "failure" ELSE "success"
           run == [b \in DOMAIN m.records |-> m.records[b].run]
           g == AggregateOf(m, archives)
           c == CommitOf(plan.sha)
<1>1. /\ g.orch = plan.orch /\ g.sha = m.sha /\ g.topology = m.topology /\ g.status = status
      /\ g.archives = archives /\ g.run = run /\ g.overall = overall
  BY DEF AggregateOf
<1>2. /\ DOMAIN m.records = BatchesOf(c) /\ m.sha = plan.sha /\ m.orch = plan.orch
  BY AcceptedBatches DEF Snapshot
<1>3. \A b \in DOMAIN m.records :
        /\ run[b] \in DOMAIN runs /\ runs[run[b]].done # <<>>
        /\ m.records[b].conclusion = runs[run[b]].done[1].conclusion
        /\ archives[b] \in DOMAIN artifacts
        /\ artifacts[archives[b]].run = run[b] /\ artifacts[archives[b]].attempt = 1
        /\ runs[run[b]].batch = b /\ runs[run[b]].orch = m.orch /\ runs[run[b]].sha = m.sha
  <2>1. \A b \in DOMAIN m.records : run[b] = m.records[b].run
    OBVIOUS
  <2> HIDE DEF run, status, overall, g
  <2> QED
    BY <2>1, AcceptedBatches
<1>4. \A b \in DOMAIN m.records : \A p \in PackagesOf(c, b) :
        /\ artifacts[archives[b]].files[p].run = run[b]
        /\ artifacts[archives[b]].files[p].attempt = 1
        /\ status[b][p] = artifacts[archives[b]].files[p].claim.run
        /\ status[b][p] = runs[run[b]].done[1].jobs[p]
  <2>1. ASSUME NEW b \in DOMAIN m.records, NEW p \in PackagesOf(c, b)
        PROVE  /\ artifacts[archives[b]].files[p].run = run[b]
               /\ artifacts[archives[b]].files[p].attempt = 1
               /\ status[b][p] = artifacts[archives[b]].files[p].claim.run
               /\ status[b][p] = runs[run[b]].done[1].jobs[p]
    <3>1. status[b][p] = artifacts[archives[b]].files[p].claim.run
      BY <2>1 DEF RunStatus, Snapshot
    <3>2. p \in PackagesOf(Snapshot, b)
      BY DEF Snapshot
    <3>3. /\ artifacts[archives[b]].files[p].run = m.records[b].run
          /\ artifacts[archives[b]].files[p].attempt = 1
          /\ artifacts[archives[b]].files[p].claim.run = m.records[b].jobs[p]
          /\ m.records[b].jobs = runs[m.records[b].run].done[1].jobs
      BY <3>2, AcceptedBatches
    <3> QED
      BY <3>1, <3>3
  <2> QED
    BY <2>1
<1>5. \A b \in DOMAIN m.records :
        /\ DOMAIN status[b] = PackagesOf(c, b)
        /\ m.records[b].conclusion =
             IF \E p \in PackagesOf(c, b) : artifacts[archives[b]].files[p].claim.run = "failure"
             THEN "failure" ELSE "success"
  BY AcceptedBatches DEF Snapshot
<1>6. DOMAIN status = DOMAIN m.records /\ DOMAIN run = DOMAIN m.records
  OBVIOUS
<1>7. c \in Commit /\ ATree(c) /\ (c.order # <<>> => c.order[1] \in Batches)
  <2>1. world \in Worlds /\ plan.sha \in Shas
    BY DEF WorldOK
  <2> QED
    BY <2>1, TreesAre, CommitsAndReports DEF CommitOf
<1> HIDE DEF g, status, run
<1>8. Truthful(g)
  <2>1. UNION {DOMAIN status[b] : b \in DOMAIN status} = c.files
    <3>1. UNION {PackagesOf(c, b) : b \in BatchesOf(c)} = WorkflowsOf(c) \cap Packages
      BY <1>7, PackagesAll
    <3>2. WorkflowsOf(c) \cap Packages = c.files
      BY DEF Accepted, TopologyAccepted, WellRegistered, Snapshot
    <3>3. UNION {DOMAIN status[b] : b \in DOMAIN status} = UNION {PackagesOf(c, b) : b \in BatchesOf(c)}
      BY <1>2, <1>5, <1>6
    <3> QED
      BY <3>1, <3>2, <3>3
  <2>2. \A b \in DOMAIN status : runs[run[b]].done[1].conclusion = "failure"
                                   <=> \E p \in DOMAIN status[b] : status[b][p] = "failure"
    BY <1>3, <1>4, <1>5, <1>6
  <2>3. overall = "failure" <=> \E b \in DOMAIN status : runs[run[b]].done[1].conclusion = "failure"
    BY <2>2
  <2>4. \A b \in DOMAIN status : \A p \in DOMAIN status[b] :
          status[b][p] = runs[run[b]].done[1].jobs[p]
    BY <1>4, <1>5, <1>6
  <2> HIDE DEF overall
  <2> QED
    BY <1>1, <1>2, <2>1, <2>3, <2>4 DEF Truthful
<1>9. OwnEvidence(g)
  BY <1>1, <1>2, <1>3, <1>4, <1>5, <1>6 DEF OwnEvidence
<1>10. Reviewed(g)
  <2>1. ScanExact(c) /\ scan.verdict = "found"
    BY DEF Accepted, DiscoveryOK, ScanInv, Scanned, Snapshot
  <2>2. scan.local = Reachable(c) /\ scan.external = Executed(c)
    BY <2>1 DEF ScanExact
  <2>3. TopologyMatches(m)
    BY DEF Accepted, ManifestValid
  <2>4. /\ m.topology = [order |-> c.order, external |-> Executed(c), local |-> Reachable(c)]
        /\ "mutable" \notin Executed(c)
    BY <2>2, <2>3 DEF TopologyMatches, Topology, Snapshot
  <2>5. ASSUME NEW b \in BatchesOf(c)
        PROVE  Cardinality(ReachableFrom(c, c.uses[b]) \cap Collectors) = 1
    <3>1. OneCollector(c, b)
      BY DEF Accepted, TopologyAccepted, Snapshot
    <3>2. b \in Workflows
      BY <1>7, WorkflowsAre DEF BatchesOf
    <3> QED
      BY <1>7, <3>1, <3>2, OneReached
  <2> QED
    BY <1>1, <1>2, <2>4, <2>5 DEF Reviewed
<1> QED
  BY <1>1, <1>3, <1>6, <1>8, <1>9, <1>10 DEF AggregateOK, g

\* Only the decision writes an aggregate.
LEMMA AggregatesKeep ==
  ASSUME WorldOK, HistoryOK, ParentOK, DiscoveryOK, \A m \in manifests : ManifestOK(m),
         \A g \in aggregates : AggregateOK(g), Evolves, [Next]_vars
  PROVE  (\A g \in aggregates : AggregateOK(g))'
<1> DEFINE new == AggregateOf(parent.manifest, parent.archives)
<1>1. \/ aggregates' = aggregates
      \/ aggregates' = aggregates \cup {new} /\ Accepted(parent.manifest, parent.archives)
  <2> DEFINE Same == aggregates' = aggregates
  <2>1. ASSUME NEW b \in Batches,
               Launch(b) \/ DispatchAgain(b) \/ SelectRun(b) \/ SelectJobs(b) \/ SelectArtifact(b)
        PROVE  Same
    BY <2>1 DEF Launch, DispatchAgain, Interferes, SelectRun, SelectJobs, SelectArtifact, Written
  <2>2. ASSUME NEW r \in DOMAIN runs, Finish(r) \/ Rerun(r) PROVE Same
    BY <2>2 DEF Finish, Rerun, Interferes, Written
  <2>3. ASSUME NEW i \in DOMAIN artifacts, Expire(i) \/ VerifyVersion1(i)
        PROVE  Same
    BY <2>3 DEF Expire, VerifyVersion1, Interferes, Written
  <2>4. ASSUME Discover \/ KnowTopology \/ BuildManifest PROVE Same
    BY <2>4 DEF Discover, KnowTopology, BuildManifest, Written
  <2>5. ASSUME Push \/ TouchCheckout \/ NewPlan PROVE Same
    BY <2>5 DEF Push, TouchCheckout, NewPlan, Interferes, Written
  <2>6. ASSUME Aggregate \/ AggregateOther PROVE Same
    BY <2>6 DEF Aggregate, AggregateOther, Start, Written
  <2>7. ASSUME UNCHANGED vars PROVE Same
    BY <2>7 DEF vars
  <2>8. ASSUME Decide
        PROVE  Same \/ (aggregates' = aggregates \cup {new}
                        /\ Accepted(parent.manifest, parent.archives))
    BY <2>8 DEF Decide, Accepted
  <2> HIDE DEF new, Same
  <2>9. Same \/ Decide
    BY <2>1, <2>2, <2>3, <2>4, <2>5, <2>6, <2>7 DEF Next
  <2> QED
    BY <2>8, <2>9 DEF Same
<1>2. Accepted(parent.manifest, parent.archives) => AggregateOK(new)
  <2>1. Accepted(parent.manifest, parent.archives) => ManifestOK(parent.manifest)
    BY DEF Accepted, ParentOK
  <2> QED
    BY <2>1, DecideOK
<1> HIDE DEF new
<1>3. ASSUME NEW g \in aggregates' PROVE AggregateOK(g)'
  BY <1>1, <1>2, <1>3, AggregateKeeps
<1> QED
  BY <1>3

LEMMA VerifiedAllKeep ==
  ASSUME HistoryOK, HistoryOK', \A i \in verified : i \in DOMAIN artifacts /\ VerifiedOK(i),
         Evolves, [Next]_vars
  PROVE  (\A i \in verified : i \in DOMAIN artifacts /\ VerifiedOK(i))'
<1>1. \/ verified' = verified
      \/ \E i \in DOMAIN artifacts : VerifyVersion1(i) /\ verified' = verified \cup {i}
  <2> DEFINE Same == verified' = verified
             Verifies == \E i \in DOMAIN artifacts : VerifyVersion1(i) /\ verified' = verified \cup {i}
  <2>1. ASSUME NEW b \in Batches,
               Launch(b) \/ DispatchAgain(b) \/ SelectRun(b) \/ SelectJobs(b) \/ SelectArtifact(b)
        PROVE  Same
    BY <2>1 DEF Launch, DispatchAgain, Interferes, SelectRun, SelectJobs, SelectArtifact, Written
  <2>2. ASSUME NEW r \in DOMAIN runs, Finish(r) \/ Rerun(r) PROVE Same
    BY <2>2 DEF Finish, Rerun, Interferes, Written
  <2>3. ASSUME NEW i \in DOMAIN artifacts, Expire(i) PROVE Same
    BY <2>3 DEF Expire, Interferes, Written
  <2>4. ASSUME Discover \/ KnowTopology \/ BuildManifest \/ Decide PROVE Same
    BY <2>4 DEF Discover, KnowTopology, BuildManifest, Decide, Written
  <2>5. ASSUME Push \/ TouchCheckout \/ NewPlan PROVE Same
    BY <2>5 DEF Push, TouchCheckout, NewPlan, Interferes, Written
  <2>6. ASSUME Aggregate \/ AggregateOther PROVE Same
    BY <2>6 DEF Aggregate, AggregateOther, Start, Written
  <2>7. ASSUME UNCHANGED vars PROVE Same
    BY <2>7 DEF vars
  <2>8. ASSUME NEW i \in DOMAIN artifacts, VerifyVersion1(i) PROVE Verifies
    BY <2>8 DEF VerifyVersion1
  <2> HIDE DEF Same, Verifies
  <2>9. Same \/ Verifies
    BY <2>1, <2>2, <2>3, <2>4, <2>5, <2>6, <2>7, <2>8 DEF Next
  <2> QED
    BY <2>9 DEF Same, Verifies
<1>2. \A i \in DOMAIN artifacts : i \in DOMAIN artifacts'
  BY DEF Evolves
<1>3. ASSUME NEW i \in DOMAIN artifacts, VerifiedOK(i) \/ VerifyVersion1(i)
      PROVE  VerifiedOK(i)'
  BY <1>3, VerifiedKeeps, VerifyKeeps
<1> QED
  BY <1>1, <1>2, <1>3

-----------------------------------------------------------------------------
\* The invariant

LEMMA EvidenceInit ==
  ASSUME Init
  PROVE  EvidenceInv
<1>1. WorldOK
  <2>1. /\ world \in Worlds /\ people = world.people /\ tip = 1
        /\ checkout = [sha |-> 1, files |-> 1]
        /\ plan \in [orch : {1}, sha : {1}, nonces : world.nonces]
    BY DEF Init
  <2>2. people \in 0..world.people
    BY <2>1, WorldConstants
  <2>3. 1 \in Shas /\ 1 \in 1..MaxPlans
    BY EvidenceConstants DEF Shas
  <2>4. checkout \in [sha : Shas, files : Shas]
    BY <2>1, <2>3
  <2>5. plan \in [orch : 1..MaxPlans, sha : Shas, nonces : world.nonces]
    BY <2>1, <2>3
  <2> QED
    BY <2>1, <2>2, <2>3, <2>4, <2>5 DEF WorldOK
<1>2. HistoryOK
  <2>1. runs = <<>> /\ artifacts = <<>>
    BY DEF Init
  <2>2. 0 <= MaxRuns
    BY EvidenceConstants
  <2> QED
    BY <2>1, <2>2, SeqEmpty DEF HistoryOK
<1>3. parent = Idle /\ ParentOK
  BY IdleOK DEF Init
<1>4. DiscoveryOK
  <2>1. PICK t : t = CommitOf(1)
    OBVIOUS
  <2>2. ATree(t) /\ scan = BeginScan(t)
    BY <1>1, <2>1, TreesAre DEF Init, Shas
  <2>3. Scanned = t /\ parent.phase = "topology"
    BY <1>3, <2>1 DEF Scanned, Init, Idle
  <2>4. /\ Scanning(t, scan, {}) /\ scan.verdict = "scanning"
        /\ ScanShape(scan) /\ ScanCounts(scan)
    BY <2>2, BeginScanOK
  <2>5. ScanInv(Scanned)
    BY <2>3, <2>4 DEF ScanInv, ScanExact, RefusalJustified
  <2> QED
    BY <2>3, <2>4, <2>5 DEF DiscoveryOK, ScanTypes
<1> QED
  BY <1>1, <1>2, <1>3, <1>4 DEF EvidenceInv, Init

LEMMA EvidenceNext ==
  ASSUME EvidenceInv, [Next]_vars
  PROVE  EvidenceInv'
<1>1. /\ WorldOK /\ HistoryOK /\ ParentOK /\ DiscoveryOK
      /\ \A m \in manifests : ManifestOK(m)
      /\ \A g \in aggregates : AggregateOK(g)
      /\ \A i \in verified : i \in DOMAIN artifacts /\ VerifiedOK(i)
  BY DEF EvidenceInv
<1>2. Evolves /\ HistoryOK'
  BY <1>1, HistoryKeeps
<1>3. WorldOK'
  BY <1>1, WorldKeeps
<1>4. ParentOK'
  BY <1>1, <1>2, ParentKeeps
<1>5. DiscoveryOK'
  BY <1>1, <1>2, <1>3, DiscoveryKeeps
<1>6. (\A m \in manifests : ManifestOK(m))'
  BY <1>1, <1>2, ManifestsKeep
<1>7. (\A g \in aggregates : AggregateOK(g))'
  BY <1>1, <1>2, AggregatesKeep
<1>8. (\A i \in verified : i \in DOMAIN artifacts /\ VerifiedOK(i))'
  BY <1>1, <1>2, VerifiedAllKeep
<1> QED
  BY <1>2, <1>3, <1>4, <1>5, <1>6, <1>7, <1>8 DEF EvidenceInv

\* The invariant holds throughout (exact_run_aggregation.py:1129-1637, the reading and the
\* validation of the runs, jobs and artifacts).
THEOREM EvidenceInvariant == Spec => []EvidenceInv
<1>1. Init => EvidenceInv
  BY EvidenceInit
<1>2. EvidenceInv /\ [Next]_vars => EvidenceInv'
  BY EvidenceNext
<1> QED
  BY <1>1, <1>2, PTL DEF Spec

LEMMA ClaimsOK ==
  ASSUME HistoryOK
  PROVE  ValidatorsAgree
<1>1. SUFFICES ASSUME artifacts # <<>>, NEW p \in DOMAIN Last(artifacts).files
               PROVE  Last(artifacts).files[p].claim \in Claim
  BY JudgesAgree, ProducerAgrees DEF ValidatorsAgree
<1>2. Len(artifacts) \in DOMAIN artifacts
  BY <1>1, SeqOK DEF HistoryOK
<1> QED
  BY <1>1, <1>2 DEF HistoryOK, ArtifactOK, Last

LEMMA TypesOK ==
  ASSUME EvidenceInv
  PROVE  TypeOK
<1>1. WorldOK /\ HistoryOK /\ ParentOK /\ DiscoveryOK
  BY DEF EvidenceInv
<1>2. ScanTypeOK
  BY <1>1, TypesScan DEF DiscoveryOK
<1>3. /\ people \in Nat /\ tip \in Shas /\ checkout.sha \in Shas
      /\ plan.nonces \in [Batches -> Nonces] /\ plan.orch \in 1..MaxPlans /\ plan.sha \in Shas
  <2>1. plan.nonces \in world.nonces /\ world \in Worlds /\ world.people \in Nat
    BY <1>1, WorldConstants DEF WorldOK
  <2> QED
    BY <1>1, <2>1, WorldConstants DEF WorldOK
<1>4. /\ Len(runs) <= MaxRuns
      /\ \A r \in DOMAIN runs : runs[r].batch \in Batches /\ runs[r].attempt \in 1..2
           /\ Len(runs[r].done) \in {runs[r].attempt - 1, runs[r].attempt}
  BY <1>1, RunFields DEF HistoryOK
<1>5. \A i \in DOMAIN artifacts : artifacts[i].run \in DOMAIN runs
         /\ artifacts[i].state \in {"there", "expired", "gone"}
  BY <1>1 DEF HistoryOK, ArtifactOK
<1>6. parent.phase \in {"topology", "launch", "built", "aggregate", "done", "refused"}
  BY <1>1 DEF ParentOK, ParentShape
<1>7. verified \subseteq DOMAIN artifacts
  BY DEF EvidenceInv
<1> QED
  BY <1>2, <1>3, <1>4, <1>5, <1>6, <1>7 DEF TypeOK

LEMMA ScansOK ==
  ASSUME EvidenceInv
  PROVE  ScansExact /\ RefusalsJustified
<1>1. ParentOK /\ DiscoveryOK
  BY DEF EvidenceInv
<1>2. PICK t : t = Scanned
  OBVIOUS
<1>3. CASE Watched
  BY <1>1, <1>2, <1>3 DEF Watched, DiscoveryOK, ScanInv, ScansExact, RefusalsJustified
<1>4. CASE ~Watched
  <2>1. CASE parent.phase \in {"topology", "aggregate"}
    BY <1>4, <2>1 DEF Watched, ScansExact, RefusalsJustified
  <2>2. CASE parent.phase \notin {"topology", "aggregate"}
    BY <1>1, <1>4, <2>2 DEF DiscoveryOK, ScansExact, RefusalsJustified, ScanExact, RefusalJustified
  <2> QED
    BY <2>1, <2>2
<1> QED
  BY <1>3, <1>4

\* A discovery that ends has found exactly what its tree executes, and one that is refused has
\* a cause in the tree (exact_run_aggregation.py:2276-2298, 2389-2447); all is well typed.
THEOREM DiscoveriesExact == Spec => []ScansRight
<1>1. EvidenceInv => ScansRight
  BY TypesOK, ScansOK DEF ScansRight
<1> QED
  BY <1>1, EvidenceInvariant, PTL

\* An aggregate says of every package of its commit what its own job concluded in the original
\* attempt, and fails if and only if one of the runs did (exact_run_aggregation.py:1129-1287,
\* 1519-1637).
THEOREM AggregatesTruthful == Spec => []AggregateTruthful
<1>1. EvidenceInv => AggregateTruthful
  BY DEF EvidenceInv, AggregateOK, Truthful, AggregateTruthful
<1> QED
  BY <1>1, EvidenceInvariant, PTL

\* Neither an aggregate nor the summary rests on another run, attempt, commit or orchestration
\* than its own (exact_run_aggregation.py:1129-1287, batch_artifact_attestation.py:182-303).
THEOREM EvidenceOwn == Spec => []EvidenceBelongs
<1>1. EvidenceInv => EvidenceOfThisPlan
  BY DEF EvidenceInv, AggregateOK, OwnEvidence, EvidenceOfThisPlan
<1>2. EvidenceInv => VerifiedBelongs
  BY DEF EvidenceInv, VerifiedOK, VerifiedBelongs
<1> QED
  BY <1>1, <1>2, EvidenceInvariant, PTL DEF EvidenceBelongs

\* An aggregate is accepted under the topology of its own commit, with nothing in it that may
\* change and one collector for each batch (exact_run_aggregation.py:387-526, 937-975).
THEOREM TopologiesReviewed == Spec => []TopologyReviewed
<1>1. EvidenceInv => TopologyReviewed
  BY DEF EvidenceInv, AggregateOK, Reviewed, TopologyReviewed
<1> QED
  BY <1>1, EvidenceInvariant, PTL

\* The aggregation and the promotion judge every uploaded result alike, and take what the
\* producer makes (exact_run_aggregation.py:1350-1495, promote_package_results.py:534-752).
THEOREM ClaimsJudgedAlike == Spec => []ValidatorsAgree
<1>1. EvidenceInv => ValidatorsAgree
  BY ClaimsOK DEF EvidenceInv
<1> QED
  BY <1>1, EvidenceInvariant, PTL

-----------------------------------------------------------------------------
\* An orchestration nobody interferes with

LEMMA QuietFinish ==
  ASSUME people = 0, NEW r, Finish(r)
  PROVE  \E reports, broken : ~broken /\ FinishedAs(r, reports, broken)
<1>1. PICK reports : \E broken \in IF people > 0 THEN BOOLEAN ELSE {FALSE} :
                       FinishedAs(r, reports, broken)
  BY FinishIs
<1>2. PICK broken \in IF people > 0 THEN BOOLEAN ELSE {FALSE} : FinishedAs(r, reports, broken)
  BY <1>1
<1>3. ~broken
  BY <1>2
<1> QED
  BY <1>2, <1>3

\* The only steps are then those of the programs.
LEMMA QuietSteps ==
  ASSUME people = 0, [Next]_vars
  PROVE  /\ UNCHANGED <<world, people, tip, checkout, plan>>
         /\ \/ UNCHANGED vars \/ Discover \/ KnowTopology \/ BuildManifest \/ Aggregate \/ Decide
            \/ \E b \in Batches : Launch(b) \/ SelectRun(b) \/ SelectJobs(b) \/ SelectArtifact(b)
            \/ \E r \in DOMAIN runs : Finish(r)
            \/ \E i \in DOMAIN artifacts : VerifyVersion1(i)
<1> DEFINE Same == UNCHANGED <<world, people, tip, checkout, plan>>
<1>1. ~Interferes
  BY DEF Interferes
<1>2. ASSUME NEW b \in Batches, Launch(b) \/ SelectRun(b) \/ SelectJobs(b) \/ SelectArtifact(b)
      PROVE  Same
  BY <1>2 DEF Launch, Dispatch, SelectRun, SelectJobs, SelectArtifact, Outside
<1>3. ASSUME NEW r \in DOMAIN runs, Finish(r) PROVE Same
  <2>1. UNCHANGED <<world, tip, checkout, plan>>
    BY <1>3 DEF Finish
  <2>2. PICK reports, broken : ~broken /\ FinishedAs(r, reports, broken)
    BY <1>3, QuietFinish
  <2> QED
    BY <2>1, <2>2 DEF FinishedAs
<1>4. ASSUME NEW i \in DOMAIN artifacts, VerifyVersion1(i) PROVE Same
  BY <1>4 DEF VerifyVersion1, Outside
<1>5. ASSUME Discover \/ KnowTopology \/ BuildManifest \/ Decide \/ Aggregate PROVE Same
  BY <1>5 DEF Discover, KnowTopology, BuildManifest, Decide, Aggregate, Start, Outside
<1>6. ASSUME UNCHANGED vars PROVE Same
  BY <1>6 DEF vars
<1>7. /\ ~Push /\ ~TouchCheckout /\ ~NewPlan /\ ~AggregateOther
      /\ \A b : ~DispatchAgain(b)
      /\ \A r : ~Rerun(r)
      /\ \A i : ~Expire(i)
  BY <1>1 DEF Push, TouchCheckout, NewPlan, AggregateOther, DispatchAgain, Rerun, Expire
<1>8. \/ UNCHANGED vars \/ Discover \/ KnowTopology \/ BuildManifest \/ Aggregate \/ Decide
      \/ \E b \in Batches : Launch(b) \/ SelectRun(b) \/ SelectJobs(b) \/ SelectArtifact(b)
      \/ \E r \in DOMAIN runs : Finish(r)
      \/ \E i \in DOMAIN artifacts : VerifyVersion1(i)
  BY <1>7 DEF Next
<1> HIDE DEF Same
<1>9. Same
  BY <1>2, <1>3, <1>4, <1>5, <1>6, <1>8
<1> QED
  BY <1>8, <1>9 DEF Same

\* What a sound commit is, in every state
LEMMA SoundIs ==
  ASSUME WorldOK, Sound
  PROVE  LET c == CommitOf(1) IN
         /\ c \in Commit /\ ATree(c) /\ TopologyAccepted(c)
         /\ BatchesOf(c) = 1..Cardinality(BatchesOf(c))
         /\ ~Cyclic(c) /\ Reachable(c) \cap c.malformed = {} /\ "mutable" \notin Executed(c)
         /\ Legacy \notin Reachable(c)
         /\ ~(Cardinality(Reachable(c)) > MaxActive) /\ ~(Cardinality(Reachable(c)) > MaxCached)
<1> DEFINE c == CommitOf(1)
<1>1. c \in Commit /\ ATree(c)
  BY TreesAre DEF Shas
<1> HIDE DEF c
<1>2. SoundCommit(c)
  BY DEF Sound, c
<1>3. Cardinality(Reachable(c)) \in Nat
  BY <1>1, WorkflowsAre, LocalActionsConstants, FS_Subset, FS_CardinalityType
<1>4. ~(Cardinality(Reachable(c)) > MaxActive) /\ ~(Cardinality(Reachable(c)) > MaxCached)
  BY <1>2, <1>3, LocalActionsConstants DEF SoundCommit
<1> QED
  BY <1>1, <1>2, <1>4 DEF SoundCommit, TopologyAccepted, WellRegistered, c

\* A discovery in a sound commit finds what it executes.
LEMMA SoundScan ==
  ASSUME WorldOK, Sound, ScanInv(CommitOf(1)), scan.verdict \in {"found", "refused"}
  PROVE  /\ scan.verdict = "found" /\ scan.local = Reachable(CommitOf(1))
         /\ scan.external = Executed(CommitOf(1))
BY SoundIs DEF ScanInv, ScanExact, RefusalJustified

LEMMA QuietStays ==
  ASSUME WorldOK, Calm, UNCHANGED <<world, people, tip, checkout, plan>>
  PROVE  Calm' /\ (Sound' <=> Sound) /\ FirstTopology' = FirstTopology
         /\ \A s : CommitOf(s)' = CommitOf(s)
BY DEF Calm, Sound, FirstTopology, CommitOf

\* A run stays what it was while nothing happens to it.
LEMMA HonestStays ==
  ASSUME HistoryOK, NEW r \in DOMAIN runs, HonestRun(r), Evolves, plan' = plan,
         runs'[r] = runs[r],
         \A q \in DOMAIN runs' : q \notin DOMAIN runs => runs'[q].batch # runs[r].batch,
         \A i \in DOMAIN artifacts : artifacts'[i] = artifacts[i],
         \A i \in DOMAIN artifacts' : i \notin DOMAIN artifacts => artifacts'[i].run # r
  PROVE  HonestRun(r)'
<1>1. /\ \A s : CommitOf(s)' = CommitOf(s)
      /\ Registered(r)' = Registered(r)
  BY SameCommit, SameRegistered
<1>2. \A q \in DOMAIN runs : q \in DOMAIN runs' /\ runs'[q].batch = runs[q].batch
  BY DEF Evolves
<1>3. \A i \in DOMAIN artifacts : i \in DOMAIN artifacts'
  BY DEF Evolves
<1>4. \A i \in DOMAIN artifacts : HonestArtifact(i, r) => HonestArtifact(i, r)'
  BY <1>1 DEF HonestArtifact, ResultOf
<1>5. /\ runs[r].batch \in BatchesOf(CommitOf(1))
      /\ runs[r].orch = 1 /\ runs[r].sha = 1 /\ runs[r].expected = 1
      /\ runs[r].nonce = plan.nonces[runs[r].batch] /\ runs[r].attempt = 1
      /\ \A q \in DOMAIN runs : runs[q].batch = runs[r].batch => q = r
      /\ \A i, j \in DOMAIN artifacts : artifacts[i].run = r /\ artifacts[j].run = r => i = j
      /\ runs[r].done = <<>> => \A i \in DOMAIN artifacts : artifacts[i].run # r
      /\ runs[r].done # <<>> =>
           /\ DOMAIN runs[r].done[1].jobs = Registered(r)
           /\ \A p \in Registered(r) : runs[r].done[1].jobs[p] \in Conclusions
           /\ runs[r].done[1].conclusion =
                IF \E p \in Registered(r) : runs[r].done[1].jobs[p] = "failure"
                THEN "failure" ELSE "success"
           /\ \E i \in DOMAIN artifacts : HonestArtifact(i, r)
  BY DEF HonestRun
<1>6. \A q \in DOMAIN runs' : runs'[q].batch = runs[r].batch => q = r
  BY <1>2, <1>5
<1>7. \A i, j \in DOMAIN artifacts' : artifacts'[i].run = r /\ artifacts'[j].run = r => i = j
  BY <1>5
<1>8. runs[r].done = <<>> => \A i \in DOMAIN artifacts' : artifacts'[i].run # r
  BY <1>5
<1>9. runs[r].done # <<>> => \E i \in DOMAIN artifacts' : HonestArtifact(i, r)'
  BY <1>3, <1>4, <1>5
<1> QED
  BY <1>1, <1>5, <1>6, <1>7, <1>8, <1>9 DEF HonestRun

LEMMA HonestSame ==
  ASSUME HistoryOK, Calm, UNCHANGED <<world, runs, artifacts, plan>>,
         \A r \in DOMAIN runs : HonestRun(r)
  PROVE  (\A r \in DOMAIN runs : HonestRun(r))'
<1>1. Evolves
  BY SameHistory
<1> QED
  BY <1>1, HonestStays

\* A batch is launched once.
LEMMA HonestLaunch ==
  ASSUME WorldOK, HistoryOK, Calm, NEW b \in Batches, Launch(b), Evolves,
         \A r \in DOMAIN runs : HonestRun(r)
  PROVE  (\A r \in DOMAIN runs : HonestRun(r))'
<1> DEFINE run == [batch |-> b, orch |-> plan.orch, nonce |-> plan.nonces[b], sha |-> tip,
                   expected |-> plan.sha, attempt |-> 1, done |-> <<>>]
<1>1. /\ runs' = Append(runs, run) /\ b \in BatchesOf(CommitOf(tip)) /\ Titled(b) = {}
      /\ plan' = plan /\ artifacts' = artifacts /\ IsSeq(runs)
  BY DEF Launch, Dispatch, HistoryOK
<1>2. /\ run.batch = b /\ run.orch = 1 /\ run.nonce = plan.nonces[b] /\ run.sha = 1
      /\ run.expected = 1 /\ run.attempt = 1 /\ run.done = <<>>
  BY DEF Calm
<1> HIDE DEF run
<1>3. /\ DOMAIN runs' = 1..(Len(runs) + 1) /\ runs'[Len(runs) + 1] = run
      /\ DOMAIN runs = 1..Len(runs) /\ Len(runs) \in Nat
      /\ \A r \in DOMAIN runs : r \in DOMAIN runs' /\ runs'[r] = runs[r]
  BY <1>1, SeqAppend, SeqOK
<1>4. \A r \in DOMAIN runs : runs[r].batch # b
  <2>1. ASSUME NEW r \in DOMAIN runs, runs[r].batch = b PROVE FALSE
    <3>1. runs[r].orch = plan.orch /\ runs[r].nonce = plan.nonces[b]
      BY <2>1 DEF HonestRun, Calm
    <3> QED
      BY <1>1, <2>1, <3>1 DEF Titled
  <2> QED
    BY <2>1
<1>5. \A r \in DOMAIN runs' : r \in DOMAIN runs \/ r = Len(runs) + 1
  BY <1>3
<1>6. ASSUME NEW r \in DOMAIN runs PROVE HonestRun(r)'
  <2>1. \A q \in DOMAIN runs' : q \notin DOMAIN runs => runs'[q].batch # runs[r].batch
    BY <1>2, <1>3, <1>4, <1>5
  <2> QED
    BY <1>1, <1>3, <2>1, HonestStays
<1>7. ASSUME NEW r, r = Len(runs) + 1 PROVE HonestRun(r)'
  <2>1. runs'[r] = run /\ CommitOf(1)' = CommitOf(1) /\ tip = 1
    BY <1>3, <1>7, SameCommit DEF Calm
  <2>2. \A i \in DOMAIN artifacts : artifacts[i].run # r
    <3>1. \A i \in DOMAIN artifacts : artifacts[i].run \in DOMAIN runs
      BY DEF HistoryOK, ArtifactOK
    <3>2. r \notin DOMAIN runs
      BY <1>3, <1>7
    <3> QED
      BY <3>1, <3>2
  <2>3. \A q \in DOMAIN runs' : runs'[q].batch = b => q = r
    BY <1>3, <1>4, <1>5, <1>7
  <2> QED
    BY <1>1, <1>2, <2>1, <2>2, <2>3 DEF HonestRun
<1> QED
  BY <1>5, <1>6, <1>7

\* The batches of a sound commit use the strict collector.
LEMMA SoundCollector ==
  ASSUME WorldOK, Sound, NEW r, runs[r].sha = 1, runs[r].batch \in BatchesOf(CommitOf(1))
  PROVE  CollectorOf(r) = Strict
<1> DEFINE c == CommitOf(1)
           b == runs[r].batch
<1>1. ATree(c) /\ TopologyAccepted(c) /\ Legacy \notin Reachable(c)
  BY SoundIs
<1>2. OneCollector(c, b) /\ b \in WorkflowsOf(c)
  BY <1>1 DEF TopologyAccepted, BatchesOf
<1>3. c.uses[b] \subseteq Reachable(c)
  BY <1>1, <1>2, WorkflowsAre DEF Uses
<1>4. \E a \in c.uses[b] : a \in Collectors
  <2>1. Cardinality(c.uses[b] \cap Collectors) # 0
    BY <1>2 DEF OneCollector
  <2> QED
    BY <2>1, FS_EmptySet
<1>5. CollectorOf(r) \in c.uses[b] /\ CollectorOf(r) \in Collectors
  BY <1>4 DEF CollectorOf
<1> QED
  BY <1>1, <1>3, <1>5 DEF Collectors

\* A batch uploads a result of every package, which its job's conclusion bears out.
LEMMA HonestFinish ==
  ASSUME WorldOK, HistoryOK, Calm, Sound, NEW r \in DOMAIN runs, Finish(r), Evolves,
         \A q \in DOMAIN runs : HonestRun(q)
  PROVE  (\A q \in DOMAIN runs : HonestRun(q))'
<1>1. PICK reports, broken : ~broken /\ FinishedAs(r, reports, broken)
  BY QuietFinish DEF Calm
<1> DEFINE files == GivenFiles(r, reports)
           end == Ended(r, reports, broken)
           new == Uploaded(r, files)
<1>2. /\ runs[r].batch \in BatchesOf(CommitOf(1)) /\ runs[r].sha = 1 /\ runs[r].attempt = 1
      /\ runs[r].orch = 1 /\ runs[r].expected = 1 /\ runs[r].nonce = plan.nonces[runs[r].batch]
      /\ \A q \in DOMAIN runs : runs[q].batch = runs[r].batch => q = r
      /\ runs[r].done = <<>> => \A i \in DOMAIN artifacts : artifacts[i].run # r
  BY DEF HonestRun
<1>3. CollectorOf(r) = Strict
  BY <1>2, SoundCollector
<1>4. ~Completed(r) /\ plan' = plan
  BY DEF Finish
<1>5. ASSUME NEW p \in Registered(r)
      PROVE  /\ reports[p] \in Report /\ reports[p].source = "own"
             /\ reports[p].conclusion \in Conclusions
             /\ Aggregates(reports[p].claim, reports[p].conclusion)
  <2>1. p \in Packages /\ reports[p] \in Report /\ reports[p] \in Reports(world, p)
    BY <1>1, Gives DEF FinishedAs
  <2>2. Honest(reports[p])
    BY <2>1 DEF Sound
  <2> QED
    BY <2>1, <2>2, HonestAggregates DEF Honest, Report
<1>6. /\ DOMAIN files = Registered(r)
      /\ \A p \in Registered(r) : /\ files[p].claim = reports[p].claim
                                  /\ ResultOf(files[p], r, 1)
  <2>1. {p \in Registered(r) : reports[p].source # "absent"} = Registered(r)
    BY <1>5
  <2>2. files = [p \in Registered(r) |-> ResultFrom(reports[p], r)]
    BY <2>1 DEF GivenFiles
  <2>3. \A p \in Registered(r) : /\ ResultFrom(reports[p], r).claim = reports[p].claim
                                 /\ ResultFrom(reports[p], r).run = r
                                 /\ ResultFrom(reports[p], r).attempt = 1
    BY <1>2, <1>5 DEF ResultFrom
  <2> HIDE DEF files
  <2> QED
    BY <2>2, <2>3 DEF ResultOf
<1>7. /\ DOMAIN end.jobs = Registered(r)
      /\ \A p \in Registered(r) : end.jobs[p] = reports[p].conclusion
      /\ end.conclusion = IF \E p \in Registered(r) : end.jobs[p] = "failure"
                          THEN "failure" ELSE "success"
  <2>1. /\ end.jobs = GivenJobs(r, reports)
        /\ end.conclusion = IF \A p \in Registered(r) : end.jobs[p] = "success"
                            THEN "success" ELSE "failure"
    BY <1>1, <1>3 DEF Ended, Uploads
  <2>2. DOMAIN end.jobs = Registered(r) /\ \A p \in Registered(r) : end.jobs[p] = reports[p].conclusion
    BY <2>1 DEF GivenJobs
  <2>3. \A p \in Registered(r) : end.jobs[p] \in {"success", "failure"}
    BY <1>5, <2>2 DEF Conclusions
  <2> HIDE DEF end
  <2> QED
    BY <2>1, <2>2, <2>3
<1>8. /\ runs' = [runs EXCEPT ![r].done = Append(@, end)] /\ artifacts' = Append(artifacts, new)
  BY <1>1, <1>3 DEF FinishedAs, Uploads
<1>9. end.conclusion \in Conclusions
  BY <1>7 DEF Conclusions
<1>10. /\ new.run = r /\ new.state = "there" /\ new.attempt = 1 /\ new.sentinel.version = 2
       /\ new.files = files
  BY <1>2, <1>3 DEF Uploaded, Sentinel, Version
<1> HIDE DEF files, end, new
<1>11. /\ DOMAIN runs' = DOMAIN runs
       /\ \A q \in DOMAIN runs : q # r => runs'[q] = runs[q]
       /\ runs'[r].batch = runs[r].batch /\ runs'[r].orch = runs[r].orch
       /\ runs'[r].nonce = runs[r].nonce /\ runs'[r].sha = runs[r].sha
       /\ runs'[r].expected = runs[r].expected /\ runs'[r].attempt = runs[r].attempt
       /\ runs'[r].done = Append(runs[r].done, end) /\ Len(runs[r].done) = runs[r].attempt - 1
  BY <1>4, <1>8, <1>9, EndsRun
<1>12. runs[r].done = <<>>
  BY <1>2, <1>11, RunFields, SeqOK
<1>13. runs'[r].done # <<>> /\ runs'[r].done[1] = end
  BY <1>11, <1>12, SeqAppend, SeqEmpty
<1>14. /\ DOMAIN artifacts' = 1..(Len(artifacts) + 1) /\ artifacts'[Len(artifacts) + 1] = new
       /\ DOMAIN artifacts = 1..Len(artifacts) /\ Len(artifacts) \in Nat
       /\ \A i \in DOMAIN artifacts : i \in DOMAIN artifacts' /\ artifacts'[i] = artifacts[i]
  BY <1>8, SeqAppend, SeqOK DEF HistoryOK
<1>15. \A i \in DOMAIN artifacts' : i \in DOMAIN artifacts \/ i = Len(artifacts) + 1
  BY <1>14
<1>16. ASSUME NEW q \in DOMAIN runs, q # r PROVE HonestRun(q)'
  <2>1. \A i \in DOMAIN artifacts' : i \notin DOMAIN artifacts => artifacts'[i].run # q
    BY <1>10, <1>14, <1>15, <1>16
  <2> QED
    BY <1>4, <1>11, <1>14, <1>16, <2>1, HonestStays
<1>17. HonestRun(r)'
  <2>1. Registered(r)' = Registered(r) /\ CommitOf(1)' = CommitOf(1)
    BY SameRegistered, SameCommit
  <2>2. \A q \in DOMAIN runs' : runs'[q].batch = runs'[r].batch => q = r
    BY <1>2, <1>11
  <2>3. \A i \in DOMAIN artifacts' : artifacts'[i].run = r => i = Len(artifacts) + 1
    BY <1>2, <1>12, <1>14, <1>15
  <2>4. PICK n : n = Len(artifacts) + 1
    OBVIOUS
  <2>5. n \in DOMAIN artifacts' /\ artifacts'[n] = new
    BY <1>14, <2>4
  <2>6. HonestArtifact(n, r)'
    BY <1>5, <1>6, <1>7, <1>10, <1>13, <2>1, <2>5 DEF HonestArtifact, ResultOf
  <2>7. /\ DOMAIN runs'[r].done[1].jobs = Registered(r)
        /\ \A p \in Registered(r) : runs'[r].done[1].jobs[p] \in Conclusions
        /\ runs'[r].done[1].conclusion =
             IF \E p \in Registered(r) : runs'[r].done[1].jobs[p] = "failure"
             THEN "failure" ELSE "success"
    BY <1>5, <1>7, <1>13
  <2> QED
    BY <1>2, <1>4, <1>11, <1>13, <2>1, <2>2, <2>3, <2>5, <2>6, <2>7 DEF HonestRun
<1> QED
  BY <1>11, <1>16, <1>17

LEMMA HonestRunsKeep ==
  ASSUME WorldOK, HistoryOK, Calm, Sound, \A r \in DOMAIN runs : HonestRun(r), Evolves, [Next]_vars
  PROVE  (\A r \in DOMAIN runs : HonestRun(r))'
<1>1. plan' = plan
  BY QuietSteps DEF Calm
<1>2. ASSUME NEW b \in Batches, Launch(b) PROVE (\A r \in DOMAIN runs : HonestRun(r))'
  BY <1>2, HonestLaunch
<1>3. ASSUME NEW r \in DOMAIN runs, Finish(r) PROVE (\A q \in DOMAIN runs : HonestRun(q))'
  BY <1>3, HonestFinish
<1>4. CASE UNCHANGED <<runs, artifacts>>
  BY <1>1, <1>4, HonestSame DEF Evolves
<1>5. \/ \E b \in Batches : Launch(b)
      \/ \E r \in DOMAIN runs : Finish(r)
      \/ UNCHANGED <<runs, artifacts>>
  <2> DEFINE Same == UNCHANGED <<runs, artifacts>>
  <2>1. ASSUME NEW b \in Batches, SelectRun(b) \/ SelectJobs(b) \/ SelectArtifact(b) PROVE Same
    BY <2>1 DEF SelectRun, SelectJobs, SelectArtifact, Outside
  <2>2. ASSUME NEW i \in DOMAIN artifacts, VerifyVersion1(i) PROVE Same
    BY <2>2 DEF VerifyVersion1, Outside
  <2>3. ASSUME Discover \/ KnowTopology \/ BuildManifest \/ Decide \/ Aggregate PROVE Same
    BY <2>3 DEF Discover, KnowTopology, BuildManifest, Decide, Aggregate, Start, Outside
  <2>4. ASSUME UNCHANGED vars PROVE Same
    BY <2>4 DEF vars
  <2>5. people = 0
    BY DEF Calm
  <2> HIDE DEF Same
  <2>6. Same \/ (\E b \in Batches : Launch(b)) \/ (\E r \in DOMAIN runs : Finish(r))
    BY <2>1, <2>2, <2>3, <2>4, <2>5, QuietSteps
  <2> QED
    BY <2>6 DEF Same
<1> QED
  BY <1>2, <1>3, <1>4, <1>5

LEMMA HonestReads ==
  ASSUME Evolves, plan' = plan, NEW part, NEW b
  PROVE  /\ HonestPart(part, b) => HonestPart(part, b)'
         /\ HonestRecord(part, b) => HonestRecord(part, b)'
<1>1. HonestPart(part, b) => HonestPart(part, b)'
  BY DEF HonestPart, Evolves
<1>2. HonestRecord(part, b) => HonestRecord(part, b)'
  BY <1>1 DEF HonestRecord, Content, Evolves
<1> QED
  BY <1>1, <1>2

LEMMA HonestManifestKeeps ==
  ASSUME Evolves, plan' = plan, NEW m, HonestManifest(m)
  PROVE  HonestManifest(m)'
<1>1. CommitOf(1)' = CommitOf(1) /\ FirstTopology' = FirstTopology
  BY SameCommit DEF FirstTopology
<1> QED
  BY <1>1, HonestReads DEF HonestManifest

LEMMA HonestRecordsKeep ==
  ASSUME Evolves, plan' = plan, parent'.records = parent.records, HonestParent
  PROVE  (\A b \in DOMAIN parent.records : HonestRecord(parent.records[b], b))'
<1>1. ASSUME NEW b \in DOMAIN parent.records PROVE HonestRecord(parent.records[b], b)'
  <2>1. PICK record : record = parent.records[b]
    OBVIOUS
  <2>2. HonestRecord(record, b)'
    BY <2>1, HonestReads DEF HonestParent
  <2> QED
    BY <2>1, <2>2
<1> QED
  BY <1>1

LEMMA HonestPartKeeps ==
  ASSUME Evolves, plan' = plan, parent'.records = parent.records, parent'.part = parent.part,
         parent'.stage = parent.stage, HonestParent
  PROVE  (parent.stage # "run" => HonestPart(parent.part, Len(parent.records) + 1))'
<1>1. PICK part : part = parent.part
  OBVIOUS
<1>2. PICK b : b = Len(parent.records) + 1
  OBVIOUS
<1>3. parent.stage # "run" => HonestPart(part, b)
  BY <1>1, <1>2 DEF HonestParent
<1>4. parent.stage # "run" => HonestPart(part, b)'
  BY <1>3, HonestReads
<1> QED
  BY <1>1, <1>2, <1>4

\* A step to a phase that has the topology, and reads nothing
LEMMA HonestPhase ==
  ASSUME ParentOK, Evolves, plan' = plan, HonestParent, NEW phase,
         phase \in {"launch", "built", "done"},
         parent' = [parent EXCEPT !.phase = phase, !.topology = FirstTopology]
  PROVE  HonestParent'
<1>1. /\ parent'.phase = phase /\ parent'.topology = FirstTopology /\ parent'.records = parent.records
      /\ parent'.stage = parent.stage /\ parent'.part = parent.part /\ parent'.steady = parent.steady
  BY DEF ParentOK, ParentShape
<1>2. FirstTopology' = FirstTopology
  BY SameCommit DEF FirstTopology
<1> QED
  BY <1>1, <1>2, HonestRecordsKeep, HonestPartKeeps DEF HonestParent

LEMMA HonestStill ==
  ASSUME Evolves, plan' = plan, HonestParent, parent' = parent
  PROVE  HonestParent'
<1>1. FirstTopology' = FirstTopology
  BY SameCommit DEF FirstTopology
<1> QED
  BY <1>1, HonestRecordsKeep, HonestPartKeeps DEF HonestParent

\* The run of a batch is found.
LEMMA HonestSelectRun ==
  ASSUME HistoryOK, ParentOK, Calm, HonestParent, \A r \in DOMAIN runs : HonestRun(r), Evolves,
         plan' = plan, NEW b \in Batches, SelectRun(b)
  PROVE  HonestParent'
<1>1. runs' = runs /\ Current(b) /\ \A r \in Titled(b) : runs[r].done # <<>>
  BY DEF SelectRun, Outside
<1>2. PICK r : r \in Titled(b)
  BY <1>1 DEF Current
<1>3. /\ \A q \in Titled(b) : q \in DOMAIN runs /\ runs[q].batch = b
  BY DEF Titled
<1>4. Titled(b) = {r}
  BY <1>2, <1>3 DEF HonestRun
<1>5. /\ r \in DOMAIN runs /\ runs[r].done # <<>> /\ runs[r].sha = 1 /\ runs[r].attempt = 1
      /\ runs[r].batch = b
  BY <1>1, <1>2, <1>3 DEF HonestRun
<1>6. Completed(r)
  <2>1. IsSeq(runs[r].done) /\ Len(runs[r].done) \in {runs[r].attempt - 1, runs[r].attempt}
    BY <1>5, RunFields
  <2>2. Len(runs[r].done) # 0
    BY <1>5, <2>1, SeqOK
  <2> QED
    BY <1>5, <2>1, <2>2 DEF Completed
<1> DEFINE new == [batch |-> b, nonce |-> plan.nonces[b], run |-> r, sha |-> runs[r].sha,
                   attempt |-> runs[r].attempt, conclusion |-> Last(runs[r].done).conclusion,
                   jobs |-> <<>>, artifact |-> None, content |-> None]
<1>7. (CHOOSE q \in Titled(b) : TRUE) = r
  BY <1>4
<1>8. parent' = [parent EXCEPT !.stage = "jobs", !.part = new]
  <2>1. /\ Titled(b) = {r} /\ Completed(r)
        /\ runs[r].sha = plan.sha /\ OriginalAttempt(runs[r].attempt)
    BY <1>4, <1>5, <1>6 DEF Calm, OriginalAttempt
  <2> QED
    BY <1>2, <1>7, <2>1 DEF SelectRun
<1>9. /\ new.batch = b /\ new.nonce = plan.nonces[b] /\ new.run = r /\ new.sha = 1 /\ new.attempt = 1
  BY <1>5
<1>10. PICK part : part = new
  OBVIOUS
<1> HIDE DEF new
<1>11. HonestPart(part, b)
  BY <1>5, <1>9, <1>10 DEF HonestPart
<1>12. /\ parent'.phase = parent.phase /\ parent'.topology = parent.topology
       /\ parent'.records = parent.records /\ parent'.part = part /\ parent'.steady = parent.steady
  BY <1>8, <1>10 DEF ParentOK, ParentShape
<1>13. HonestPart(part, b)'
  BY <1>11, HonestReads
<1>14. parent.phase = "launch" /\ b = Len(parent.records) + 1
  BY <1>1 DEF Current
<1>15. FirstTopology' = FirstTopology
  BY SameCommit DEF FirstTopology
<1> QED
  BY <1>12, <1>13, <1>14, <1>15, HonestRecordsKeep DEF HonestParent

\* The jobs are found, of the attempt that was read.
LEMMA HonestSelectJobs ==
  ASSUME HistoryOK, ParentOK, HonestParent, \A r \in DOMAIN runs : HonestRun(r), Evolves,
         plan' = plan, NEW b \in Batches, SelectJobs(b)
  PROVE  HonestParent'
<1> DEFINE part == parent.part
           r == part.run
           new == [part EXCEPT !.jobs = runs[r].done[1].jobs]
<1>1. Current(b) /\ parent.stage = "jobs" /\ parent.phase = "launch" /\ b = Len(parent.records) + 1
  BY DEF SelectJobs, Current
<1>2. /\ RunRead(part) /\ part.attempt = 1
      /\ part = [batch |-> part.batch, nonce |-> part.nonce, run |-> part.run, sha |-> part.sha,
                 attempt |-> 1, conclusion |-> part.conclusion, jobs |-> part.jobs,
                 artifact |-> None, content |-> None]
  BY <1>1 DEF ParentOK, PartOK
<1>3. HonestPart(part, b)
  BY <1>1 DEF HonestParent
<1>4. r \in DOMAIN runs /\ runs[r].done # <<>> /\ runs[r].attempt = 1
  BY <1>2 DEF RunRead, HonestRun
<1>5. 1 <= Len(runs[r].done)
  BY <1>4, RunFields, SeqOK
<1>6. parent' = [parent EXCEPT !.stage = "artifact", !.part = new]
  <2>1. PICK attempt \in {1, runs[r].attempt} :
          IF attempt = parent.part.attempt /\ attempt <= Len(runs[r].done)
          THEN parent' = [parent EXCEPT !.stage = "artifact", !.part.jobs = runs[r].done[attempt].jobs]
          ELSE Refuse
    BY DEF SelectJobs
  <2>2. attempt = 1
    BY <1>4, <2>1
  <2>3. parent' = [parent EXCEPT !.stage = "artifact", !.part.jobs = runs[r].done[1].jobs]
    BY <1>2, <1>5, <2>1, <2>2
  <2> QED
    BY <2>3
<1>7. /\ new.batch = part.batch /\ new.nonce = part.nonce /\ new.run = part.run
      /\ new.sha = part.sha /\ new.attempt = part.attempt
  BY <1>2
<1>8. PICK now : now = new
  OBVIOUS
<1> HIDE DEF new, r, part
<1>9. HonestPart(now, b)
  BY <1>3, <1>7, <1>8 DEF HonestPart
<1>10. /\ parent'.phase = parent.phase /\ parent'.topology = parent.topology
       /\ parent'.records = parent.records /\ parent'.part = now /\ parent'.steady = parent.steady
  BY <1>6, <1>8 DEF ParentOK, ParentShape
<1>11. HonestPart(now, b)'
  BY <1>9, HonestReads
<1>12. FirstTopology' = FirstTopology
  BY SameCommit DEF FirstTopology
<1> QED
  BY <1>1, <1>10, <1>11, <1>12, HonestRecordsKeep DEF HonestParent

\* The artifact is found, and nothing else of its name.
LEMMA HonestSelectArtifact ==
  ASSUME HistoryOK, ParentOK, HonestParent, \A r \in DOMAIN runs : HonestRun(r), Evolves,
         plan' = plan, NEW b \in Batches, SelectArtifact(b)
  PROVE  HonestParent'
<1> DEFINE part == parent.part
           r == part.run
           matching == {k \in DOMAIN artifacts : artifacts[k].run = part.run
                                               /\ artifacts[k].state # "gone"}
<1>1. /\ Current(b) /\ parent.stage = "artifact" /\ parent.phase = "launch"
      /\ b = Len(parent.records) + 1 /\ runs' = runs /\ artifacts' = artifacts
  BY DEF SelectArtifact, Current, Outside
<1>2. /\ RunRead(part) /\ part.attempt = 1
      /\ part = [batch |-> part.batch, nonce |-> part.nonce, run |-> part.run, sha |-> part.sha,
                 attempt |-> 1, conclusion |-> part.conclusion, jobs |-> part.jobs,
                 artifact |-> None, content |-> None]
  BY <1>1 DEF ParentOK, PartOK
<1>3. HonestPart(part, b)
  BY <1>1 DEF HonestParent
<1>4. r \in DOMAIN runs /\ runs[r].done # <<>> /\ HonestRun(r)
  BY <1>2 DEF RunRead
<1>5. PICK i \in DOMAIN artifacts : HonestArtifact(i, r)
  BY <1>4 DEF HonestRun
<1>6. /\ artifacts[i].run = r /\ artifacts[i].state = "there" /\ artifacts[i].attempt = 1
      /\ \A k \in DOMAIN artifacts : artifacts[k].run = r => k = i
  BY <1>4, <1>5 DEF HonestArtifact, HonestRun
<1>7. matching = {i}
  BY <1>5, <1>6
<1> DEFINE new == [part EXCEPT !.artifact = i, !.content = Content(artifacts[i])]
<1>8. parent' = [parent EXCEPT !.stage = "run", !.part = None, !.records = Append(@, new)]
  <2>1. (CHOOSE k \in matching : TRUE) = i
    BY <1>7
  <2>2. artifacts[i].attempt <= parent.part.attempt
    BY <1>2, <1>6
  <2> QED
    BY <1>6, <1>7, <2>1, <2>2 DEF SelectArtifact
<1>9. /\ new.batch = part.batch /\ new.nonce = part.nonce /\ new.run = r
      /\ new.sha = part.sha /\ new.attempt = part.attempt
      /\ new.artifact = i /\ new.content = Content(artifacts[i])
  BY <1>2
<1>10. PICK record : record = new
  OBVIOUS
<1>11. part.run = r
  OBVIOUS
<1> HIDE DEF new, matching, part, r
<1>12. HonestRecord(record, b)
  BY <1>3, <1>5, <1>6, <1>9, <1>10, <1>11 DEF HonestRecord, HonestPart
<1>13. /\ parent'.phase = parent.phase /\ parent'.topology = parent.topology
       /\ parent'.records = Append(parent.records, record) /\ parent'.stage = "run"
       /\ parent'.steady = parent.steady
  BY <1>8, <1>10 DEF ParentOK, ParentShape
<1>14. HonestRecord(record, b)'
  BY <1>12, HonestReads
<1>15. /\ IsSeq(parent.records) /\ DOMAIN parent.records = 1..Len(parent.records)
       /\ Len(parent.records) \in Nat
  BY SeqOK DEF ParentOK
<1>16. /\ DOMAIN parent'.records = 1..(Len(parent.records) + 1)
       /\ parent'.records[Len(parent.records) + 1] = record
       /\ \A c \in DOMAIN parent.records : parent'.records[c] = parent.records[c]
  BY <1>13, <1>15, SeqAppend
<1>17. \A c \in 1..(Len(parent.records) + 1) :
         c \in 1..Len(parent.records) \/ c = Len(parent.records) + 1
  BY <1>15
<1>18. ASSUME NEW c \in DOMAIN parent'.records PROVE HonestRecord(parent.records[c], c)'
  <2>1. CASE c = Len(parent.records) + 1
    BY <1>1, <1>14, <1>16, <2>1
  <2>2. CASE c \in DOMAIN parent.records
    <3>1. PICK old : old = parent.records[c]
      OBVIOUS
    <3>2. HonestRecord(old, c)'
      BY <2>2, <3>1, HonestReads DEF HonestParent
    <3> QED
      BY <1>16, <2>2, <3>1, <3>2
  <2> QED
    BY <1>15, <1>16, <1>17, <2>1, <2>2
<1>19. FirstTopology' = FirstTopology
  BY SameCommit DEF FirstTopology
<1> QED
  BY <1>1, <1>13, <1>18, <1>19 DEF HonestParent

\* A sound commit's topology is accepted, and is what the parent then knows.
LEMMA HonestKnow ==
  ASSUME WorldOK, ParentOK, DiscoveryOK, Calm, Sound, HonestParent, Evolves, plan' = plan, KnowTopology
  PROVE  HonestParent'
<1>1. Scanned = CommitOf(1) /\ ScanInv(CommitOf(1))
  BY DEF KnowTopology, DiscoveryOK, HonestParent, Scanned, Calm
<1>2. /\ scan.verdict = "found" /\ scan.local = Reachable(CommitOf(1))
      /\ scan.external = Executed(CommitOf(1))
  BY <1>1, SoundScan DEF KnowTopology
<1>3. TopologyAccepted(CommitOf(1))
  BY SoundIs
<1>4. Topology(Scanned) = FirstTopology
  BY <1>1, <1>2 DEF Topology, FirstTopology
<1>5. parent' = [parent EXCEPT !.phase = "launch", !.topology = FirstTopology]
  BY <1>1, <1>2, <1>3, <1>4 DEF KnowTopology
<1>6. PICK phase : phase = "launch"
  OBVIOUS
<1> QED
  BY <1>5, <1>6, HonestPhase

\* A manifest is built of a record of each batch.
LEMMA HonestBuild ==
  ASSUME WorldOK, ParentOK, Calm, HonestParent, Evolves, plan' = plan, BuildManifest,
         \A m \in manifests : HonestManifest(m)
  PROVE  HonestParent' /\ (\A m \in manifests : HonestManifest(m))'
<1> DEFINE new == [orch |-> plan.orch, sha |-> plan.sha, topology |-> parent.topology,
                   records |-> parent.records]
           c == CommitOf(1)
<1>1. /\ parent' = [parent EXCEPT !.phase = "built"] /\ manifests' = manifests \cup {new}
      /\ Len(parent.records) = Cardinality(PlanBatches) /\ parent.phase = "launch"
  BY DEF BuildManifest
<1>2. parent.topology = FirstTopology
  BY <1>1 DEF HonestParent
<1>3. PlanBatches = BatchesOf(c)
  <2>1. parent.topology.order = c.order
    BY <1>2 DEF FirstTopology
  <2> QED
    BY <2>1 DEF PlanBatches, BatchesOf, WorkflowsOf
<1>4. /\ new.orch = 1 /\ new.sha = 1 /\ new.topology = FirstTopology /\ new.records = parent.records
  BY <1>2 DEF Calm
<1>5. HonestManifest(new)
  BY <1>1, <1>3, <1>4 DEF HonestManifest, HonestParent
<1> HIDE DEF new
<1>6. ASSUME NEW m \in manifests' PROVE HonestManifest(m)'
  BY <1>1, <1>5, <1>6, HonestManifestKeeps
<1>7. HonestParent'
  <2>1. parent' = [parent EXCEPT !.phase = "built", !.topology = parent.topology]
    BY <1>1, SetPhase
  <2>2. PICK phase : phase = "built"
    OBVIOUS
  <2> QED
    BY <1>2, <2>1, <2>2, HonestPhase
<1> QED
  BY <1>6, <1>7

\* The aggregation starts in the checkout it was launched from.
LEMMA HonestStart ==
  ASSUME ParentOK, Calm, HonestParent, Evolves, plan' = plan, Aggregate
  PROVE  HonestParent'
<1>1. PICK m \in manifests :
        /\ parent.phase = "built"
        /\ parent' = [parent EXCEPT !.phase = IF Bound THEN "aggregate" ELSE "refused",
             !.manifest = m, !.archives = [b \in DOMAIN m.records |-> m.records[b].artifact]]
  BY DEF Aggregate, Start
<1>2. Bound
  BY DEF Bound, Calm
<1> DEFINE archives == [b \in DOMAIN m.records |-> m.records[b].artifact]
<1>3. parent' = [parent EXCEPT !.phase = "aggregate", !.manifest = m, !.archives = archives]
  BY <1>1, <1>2
<1>4. \A b \in DOMAIN m.records : archives[b] = m.records[b].artifact
  OBVIOUS
<1> HIDE DEF archives
<1>5. /\ parent'.phase = "aggregate" /\ parent'.topology = parent.topology
      /\ parent'.records = parent.records /\ parent'.stage = parent.stage
      /\ parent'.part = parent.part /\ parent'.steady = parent.steady
      /\ parent'.manifest = m /\ parent'.archives = archives
  BY <1>3 DEF ParentOK, ParentShape
<1>6. FirstTopology' = FirstTopology /\ parent.topology = FirstTopology
  BY <1>1, SameCommit DEF FirstTopology, HonestParent
<1> QED
  BY <1>4, <1>5, <1>6, HonestRecordsKeep, HonestPartKeeps DEF HonestParent

\* An honest record and its archive are what the aggregation asks for.
LEMMA HonestBatch ==
  ASSUME WorldOK, HistoryOK, Calm, NEW m, ManifestOK(m), HonestManifest(m), NEW archives,
         NEW b \in DOMAIN m.records, archives[b] = m.records[b].artifact,
         \A r \in DOMAIN runs : HonestRun(r)
  PROVE  /\ RecordValid(m, b) /\ BatchValid(m, archives, b)
         /\ runs[m.records[b].run].batch = b
         /\ artifacts[m.records[b].artifact].run = m.records[b].run
<1> DEFINE record == m.records[b]
           r == record.run
           archive == artifacts[archives[b]]
           files == archive.files
           done == runs[r].done[1]
<1>1. m.orch = 1 /\ m.sha = 1 /\ HonestRecord(record, b) /\ RecordOK(record)
  BY DEF HonestManifest, ManifestOK
<1>2. /\ record.batch = b /\ record.nonce = plan.nonces[b] /\ record.sha = 1 /\ record.attempt = 1
      /\ r \in DOMAIN runs /\ runs[r].batch = b
      /\ record.artifact \in DOMAIN artifacts /\ archive.run = r
      /\ record.content = Content(archive)
  BY <1>1 DEF HonestRecord, HonestPart
<1>3. /\ runs[r].done # <<>> /\ record.conclusion = done.conclusion /\ record.jobs = done.jobs
  BY <1>1 DEF RecordOK, JobsRead, RunRead
<1>4. /\ DOMAIN done.jobs = Registered(r)
      /\ \A p \in Registered(r) : done.jobs[p] \in Conclusions
      /\ done.conclusion = IF \E p \in Registered(r) : done.jobs[p] = "failure"
                           THEN "failure" ELSE "success"
      /\ runs[r].orch = 1 /\ runs[r].sha = 1 /\ runs[r].attempt = 1
      /\ runs[r].nonce = plan.nonces[runs[r].batch]
  BY <1>2, <1>3 DEF HonestRun
<1>5. HonestArtifact(archives[b], r)
  <2>1. PICK i \in DOMAIN artifacts : HonestArtifact(i, r)
    BY <1>2, <1>3 DEF HonestRun
  <2>2. i = archives[b]
    BY <1>2, <2>1 DEF HonestRun, HonestArtifact
  <2> QED
    BY <2>1, <2>2
<1>6. Registered(r) = PackagesOf(Snapshot, b)
  BY <1>2, <1>4 DEF Registered, Snapshot, Calm
<1>7. /\ archive.sentinel.version = 2 /\ archive.attempt = 1
      /\ DOMAIN files = PackagesOf(Snapshot, b)
      /\ \A p \in PackagesOf(Snapshot, b) : /\ ResultOf(files[p], r, 1)
                                            /\ Aggregates(files[p].claim, done.jobs[p])
  BY <1>5, <1>6 DEF HonestArtifact
<1>8. /\ archive.sentinel.batch = b /\ archive.sentinel.orch = 1
      /\ archive.sentinel.nonce = plan.nonces[b] /\ archive.sentinel.sha = 1
      /\ archive.sentinel.run = r /\ archive.sentinel.attempt = 1
      /\ archive.sentinel.files = files
  <2>1. ArtifactOK(archives[b])
    BY <1>2 DEF HistoryOK
  <2>2. /\ archive.sentinel.batch = runs[archive.run].batch
        /\ archive.sentinel.orch = runs[archive.run].orch
        /\ archive.sentinel.nonce = runs[archive.run].nonce
        /\ archive.sentinel.sha = runs[archive.run].sha
        /\ archive.sentinel.run = archive.run /\ archive.sentinel.attempt = archive.attempt
        /\ archive.sentinel.files = files
    <3>1. PICK i : i = archives[b]
      OBVIOUS
    <3>2. LET s == artifacts[i].sentinel
              run == runs[artifacts[i].run] IN
            /\ s.batch = run.batch /\ s.orch = run.orch /\ s.nonce = run.nonce /\ s.sha = run.sha
            /\ s.run = artifacts[i].run /\ s.attempt = artifacts[i].attempt
            /\ s.files = artifacts[i].files
      <4>1. PICK v : artifacts[i].sentinel =
              [version |-> v, batch |-> runs[artifacts[i].run].batch,
               orch |-> runs[artifacts[i].run].orch, nonce |-> runs[artifacts[i].run].nonce,
               sha |-> runs[artifacts[i].run].sha, run |-> artifacts[i].run,
               attempt |-> artifacts[i].attempt, files |-> artifacts[i].files]
        BY <2>1, <3>1 DEF ArtifactOK
      <4> QED
        BY ONLY <4>1
    <3> QED
      BY <3>1, <3>2
  <2> QED
    BY <1>2, <1>4, <1>7, <2>2
<1>10. \A p \in PackagesOf(Snapshot, b) : files[p].claim.run = done.jobs[p]
  BY <1>7 DEF Aggregates
<1> HIDE DEF record, r, archive, files, done
<1>11. RecordValid(m, b)
  <2>1. JobsValid(record, b)
    BY <1>3, <1>4, <1>6 DEF JobsValid
  <2>2. record.conclusion \in Conclusions
    BY <1>3, <1>4 DEF Conclusions
  <2> QED
    BY <1>1, <1>2, <2>1, <2>2 DEF RecordValid, OriginalAttempt, record
<1>12. BatchValid(m, archives, b)
  <2>1. SentinelValid(archive.sentinel, record, m)
    BY <1>1, <1>2, <1>7, <1>8 DEF SentinelValid, r
  <2>2. \A p \in PackagesOf(Snapshot, b) :
          OwnResult(files[p], record) /\ Aggregates(files[p].claim, record.jobs[p])
    BY <1>2, <1>3, <1>7 DEF OwnResult, ResultOf, r
  <2>3. ConclusionMatches(m, archives, b)
    <3>1. \A p \in PackagesOf(Snapshot, b) : RunStatus(m, archives, b, p) = done.jobs[p]
      BY <1>10 DEF RunStatus, archive, files
    <3>2. DOMAIN artifacts[archives[b]].files = PackagesOf(Snapshot, b)
      BY <1>7 DEF archive, files
    <3>3. record.conclusion = IF \E p \in PackagesOf(Snapshot, b) : RunStatus(m, archives, b, p) = "failure"
                              THEN "failure" ELSE "success"
      BY <1>3, <1>4, <1>6, <3>1
    <3> QED
      BY <3>2, <3>3 DEF ConclusionMatches, record
  <2> QED
    BY <1>2, <1>7, <1>8, <2>1, <2>2, <2>3 DEF BatchValid, record, archive, files
<1> QED
  BY <1>2, <1>11, <1>12 DEF record, r, archive

\* What is honest is accepted.
LEMMA HonestDecide ==
  ASSUME WorldOK, HistoryOK, ParentOK, DiscoveryOK, \A m \in manifests : ManifestOK(m), Calm, Sound,
         HonestParent, \A r \in DOMAIN runs : HonestRun(r), \A m \in manifests : HonestManifest(m),
         Evolves, plan' = plan, Decide
  PROVE  HonestParent'
<1> DEFINE m == parent.manifest
           c == CommitOf(1)
<1>1. /\ parent.phase = "aggregate" /\ scan.verdict \in {"found", "refused"}
      /\ Snapshot = c /\ ScanInv(c)
  <2>1. parent.phase = "aggregate" /\ scan.verdict \in {"found", "refused"}
    BY DEF Decide
  <2>2. Snapshot = c
    BY DEF Snapshot, Calm
  <2> QED
    BY <2>1, <2>2 DEF DiscoveryOK, Scanned
<1>2. m \in manifests /\ \A b \in DOMAIN m.records : parent.archives[b] = m.records[b].artifact
  BY <1>1 DEF ParentOK, HonestParent
<1> HIDE DEF m, c
<1>3. /\ scan.verdict = "found" /\ scan.local = Reachable(c) /\ scan.external = Executed(c)
  BY <1>1, SoundScan DEF c
<1>4. /\ TopologyAccepted(c) /\ "mutable" \notin Executed(c)
  BY SoundIs DEF c
<1>5. ManifestOK(m) /\ HonestManifest(m)
  BY <1>2
<1>6. TopologyMatches(m)
  <2>1. m.topology = [order |-> c.order, external |-> Executed(c), local |-> Reachable(c)]
    BY <1>5 DEF HonestManifest, FirstTopology, c
  <2> QED
    BY <1>1, <1>3, <1>4, <2>1 DEF TopologyMatches, Topology
<1>7. OfThisPlan(m)
  <2>1. m.orch = plan.orch /\ m.sha = plan.sha /\ Len(m.records) = Cardinality(BatchesOf(Snapshot))
    BY <1>1, <1>5 DEF HonestManifest, Calm, c
  <2>2. \A b, d \in BatchesOf(Snapshot) : b # d => plan.nonces[b] # plan.nonces[d]
    BY DEF Sound, BatchesOf
  <2> QED
    BY <2>1, <2>2 DEF OfThisPlan
<1>8. \A b \in DOMAIN m.records :
        /\ RecordValid(m, b) /\ BatchValid(m, parent.archives, b)
        /\ runs[m.records[b].run].batch = b
        /\ artifacts[m.records[b].artifact].run = m.records[b].run
  BY <1>2, <1>5, HonestBatch
<1>9. \A b, d \in DOMAIN m.records : b # d =>
        m.records[b].run # m.records[d].run /\ m.records[b].artifact # m.records[d].artifact
  BY <1>8
<1>10. ManifestValid(m)
  BY <1>6, <1>7, <1>8, <1>9 DEF ManifestValid
<1>11. parent' = [parent EXCEPT !.phase = "done"]
  BY <1>1, <1>3, <1>4, <1>8, <1>10 DEF Decide, m
<1>12. parent' = [parent EXCEPT !.phase = "done", !.topology = parent.topology]
  BY <1>11, SetPhase
<1>13. parent.topology = FirstTopology
  BY <1>1 DEF HonestParent
<1>14. PICK phase : phase = "done"
  OBVIOUS
<1> QED
  BY <1>12, <1>13, <1>14, HonestPhase

LEMMA SoundKeeps ==
  ASSUME EvidenceInv, EvidenceInv', SoundInv, [Next]_vars
  PROVE  SoundInv'
<1>1. /\ WorldOK /\ HistoryOK /\ ParentOK /\ DiscoveryOK /\ \A m \in manifests : ManifestOK(m)
  BY DEF EvidenceInv
<1>2. Evolves
  BY <1>1, HistoryKeeps
<1>3. SUFFICES ASSUME Sound'
               PROVE  /\ Calm' /\ (\A r \in DOMAIN runs : HonestRun(r))'
                      /\ HonestParent' /\ (\A m \in manifests : HonestManifest(m))'
  BY DEF SoundInv
<1>4. people = 0
  <2>1. world'.people = 0 /\ world' = world
    BY <1>2, <1>3 DEF Sound, Evolves
  <2> QED
    BY <1>1, <2>1 DEF WorldOK
<1>5. UNCHANGED <<world, people, tip, checkout, plan>>
  BY <1>4, QuietSteps
<1>6. Sound
  BY <1>3, <1>5 DEF Sound, CommitOf
<1>7. /\ Calm /\ (\A r \in DOMAIN runs : HonestRun(r)) /\ HonestParent
      /\ \A m \in manifests : HonestManifest(m)
  BY <1>6 DEF SoundInv
<1>8. Calm' /\ plan' = plan
  BY <1>1, <1>5, <1>7, QuietStays
<1>9. (\A r \in DOMAIN runs : HonestRun(r))'
  BY <1>1, <1>2, <1>6, <1>7, HonestRunsKeep
<1>10. ASSUME manifests' = manifests PROVE (\A m \in manifests : HonestManifest(m))'
  BY <1>2, <1>7, <1>8, <1>10, HonestManifestKeeps
<1> DEFINE Goal == HonestParent' /\ (\A m \in manifests : HonestManifest(m))'
<1>11. ASSUME UNCHANGED <<parent, manifests>> PROVE Goal
  BY <1>2, <1>7, <1>8, <1>10, <1>11, HonestStill
<1>12. ASSUME KnowTopology PROVE Goal
  <2>1. manifests' = manifests
    BY <1>12 DEF KnowTopology, Written
  <2> QED
    BY <1>1, <1>2, <1>6, <1>7, <1>8, <1>10, <1>12, <2>1, HonestKnow
<1>13. ASSUME NEW b \in Batches, SelectRun(b) \/ SelectJobs(b) \/ SelectArtifact(b) PROVE Goal
  <2>1. manifests' = manifests
    BY <1>13 DEF SelectRun, SelectJobs, SelectArtifact, Written
  <2>2. HonestParent'
    BY <1>1, <1>2, <1>7, <1>8, <1>13, HonestSelectRun, HonestSelectJobs, HonestSelectArtifact
  <2> QED
    BY <1>10, <2>1, <2>2
<1>14. ASSUME BuildManifest PROVE Goal
  BY <1>1, <1>2, <1>7, <1>8, <1>14, HonestBuild
<1>15. ASSUME Aggregate PROVE Goal
  <2>1. manifests' = manifests
    BY <1>15 DEF Aggregate, Start, Written
  <2> QED
    BY <1>1, <1>2, <1>7, <1>8, <1>10, <1>15, <2>1, HonestStart
<1>16. ASSUME Decide PROVE Goal
  <2>1. manifests' = manifests
    BY <1>16 DEF Decide
  <2> QED
    BY <1>1, <1>2, <1>6, <1>7, <1>8, <1>10, <1>16, <2>1, HonestDecide
<1>17. \/ UNCHANGED <<parent, manifests>>
       \/ KnowTopology \/ BuildManifest \/ Aggregate \/ Decide
       \/ \E b \in Batches : SelectRun(b) \/ SelectJobs(b) \/ SelectArtifact(b)
  BY <1>4, QuietSteps DEF vars, Discover, Launch, Finish, VerifyVersion1, Written
<1> HIDE DEF Goal
<1>18. Goal
  BY <1>11, <1>12, <1>13, <1>14, <1>15, <1>16, <1>17
<1> QED
  BY <1>8, <1>9, <1>18 DEF Goal

LEMMA SoundInit ==
  ASSUME Init
  PROVE  SoundInv
<1>1. SUFFICES ASSUME Sound
               PROVE  /\ Calm /\ (\A r \in DOMAIN runs : HonestRun(r))
                      /\ HonestParent /\ (\A m \in manifests : HonestManifest(m))
  BY DEF SoundInv
<1>2. Calm
  BY <1>1 DEF Init, Sound, Calm
<1>3. /\ parent.steady /\ parent.phase = "topology" /\ parent.records = <<>> /\ parent.stage = "run"
  BY DEF Init, Idle
<1>4. HonestParent
  BY <1>3, SeqEmpty DEF HonestParent
<1>5. runs = <<>> /\ manifests = {}
  BY DEF Init
<1> QED
  BY <1>2, <1>4, <1>5, SeqEmpty

\* An orchestration of a sound commit and honest packages, with which nobody interferes, is
\* never refused: neither the topology, nor a read of the parent, nor the aggregation finds
\* fault (exact_run_aggregation.py:937-975, 1129-1287, 1519-1637).
THEOREM HonestEvidenceAccepted == Spec => []HonestAccepted
<1> DEFINE Inv == EvidenceInv /\ SoundInv
<1>1. Init => Inv
  BY EvidenceInit, SoundInit
<1>2. Inv /\ [Next]_vars => Inv'
  BY EvidenceNext, SoundKeeps
<1>3. Inv => HonestAccepted
  <2>1. SoundInv /\ parent.phase = "refused" => ~Sound
    BY DEF SoundInv, HonestParent
  <2> QED
    BY <2>1 DEF HonestAccepted, Sound
<1> QED
  BY <1>1, <1>2, <1>3, PTL DEF Spec
=============================================================================
