----------------------------- MODULE MCBatchEvidence -----------------------------
(* One or two batches of one package each, or one of two: evidence explores   *)
(* commits of any shape, claims of any kind, results left by other runs, and  *)
(* people who interfere, each in worlds of their own.                         *)
EXTENDS BatchEvidence, TLC

CONSTANTS p, q, legacy, strict, other

MCDecisions == [group : Groups \cup {"unapproved"}, id : {1}]
MCWorkflows == {1, 2, p, q}
MCPackages == {p, q}
MCActions == {legacy, strict, other}

\* A result that keeps the policy, for tests of that status
Decided(group) == [group |-> group, id |-> 1]
Fair(status) ==
    LET baseline == Cardinality({t \in BaselineTests : status[t] = "failed"})
        group == IF baseline > 0 THEN "baseline" ELSE
                 IF status[Sixth] = "skipped" THEN "deferred" ELSE status[Sixth]
        run == IF baseline > 0 \/ status[Sixth] = "failed" THEN "failure" ELSE "success"
    IN [names |-> [t \in BaselineTests |-> t], sixthName |-> "test6", status |-> status,
        passed |-> Cardinality({t \in Tests : status[t] = "passed"}),
        failed |-> Cardinality({t \in Tests : status[t] = "failed"}),
        skipped |-> Cardinality({t \in Tests : status[t] = "skipped"}),
        core |-> baseline, stray |-> FALSE, told |-> TRUE,
        decision |-> Decided(group), metaDecision |-> Decided(group),
        regression |-> IF group = "baseline" THEN "skipped" ELSE group,
        applicability |-> IF group = "baseline" THEN "not_applicable" ELSE "applicable",
        reason |-> IF group = "passed" THEN Validated ELSE Decided(group),
        run |-> run, badge |-> BadgeOf(run)]

\* A fair result, or one with one field wrong
NotApplicable(c) ==
    IF c.decision.group # "deferred" THEN {}
    ELSE {[c EXCEPT !.decision.group = "not_applicable", !.metaDecision.group = "not_applicable",
            !.regression = "not_applicable", !.applicability = "not_applicable",
            !.reason.group = "not_applicable"]}
FairClaims == UNION {{Fair(s)} \cup NotApplicable(Fair(s)) : s \in [Tests -> {"passed", "failed", "skipped"}]}
Names == {[t \in BaselineTests |-> IF t = 1 THEN 2 ELSE 1], [t \in BaselineTests |-> 1]}
Variants(c) ==
    {c} \cup {[c EXCEPT !.names = n] : n \in Names}
    \cup {[c EXCEPT !.sixthName = n] : n \in {"applicability", "regression", "mention"}}
    \cup {[c EXCEPT !.passed = n] : n \in 0..Sixth} \cup {[c EXCEPT !.failed = n] : n \in 0..Sixth}
    \cup {[c EXCEPT !.skipped = n] : n \in 0..Sixth} \cup {[c EXCEPT !.core = n] : n \in 0..Sixth}
    \cup {[c EXCEPT !.stray = TRUE], [c EXCEPT !.told = FALSE]}
    \cup {[c EXCEPT !.decision = d] : d \in Decisions \cup {NoDecision}}
    \cup {[c EXCEPT !.metaDecision = d] : d \in Decisions \cup {NoDecision}}
    \cup {[c EXCEPT !.decision = d, !.metaDecision = d] : d \in Decisions \cup {NoDecision}}
    \cup {[c EXCEPT !.regression = r] :
            r \in {"passed", "failed", "skipped", "deferred", "not_applicable", "none"}}
    \cup {[c EXCEPT !.applicability = a] : a \in {"applicable", "not_applicable"}}
    \cup {[c EXCEPT !.reason = r] : r \in Decisions \cup {Validated, NoDecision}}
    \cup {[c EXCEPT !.run = r, !.badge = b] : r \in Conclusions, b \in {"passing", "failing"}}

AllPassed == Fair([t \in Tests |-> "passed"])
SixthFailed == Fair([t \in Tests |-> IF t = Sixth THEN "failed" ELSE "passed"])
Own(c, conclusion) == [claim |-> c, conclusion |-> conclusion, source |-> "own"]
Passing == Own(AllPassed, "success")

\* Package p is given a prefetch in batch 1.
MCPrefetching(b) == IF b = 1 THEN {p} ELSE {}
\* The reviewed contract of a batch with that collector
Attesting == [steps |-> <<"collect", "attest", "upload">>, upload |-> "attested",
              lenient |-> FALSE, reviewed |-> TRUE]
Uploading == [steps |-> <<"collect", "upload">>, upload |-> "always", lenient |-> FALSE, reviewed |-> TRUE]
Contract(collector) ==
    [summary |-> [b \in {1, 2} |-> IF collector = legacy THEN Attesting ELSE Uploading],
     strictAction |-> TRUE, triggers |-> [b \in {1, 2} |-> IF b = 1 THEN "prefetch" ELSE "launch"],
     given |-> {p}]

\* Two batches of one package each; the second commit has a reference that may change.
TwoBatches(collector, external) ==
    Contract(collector) @@
    [order |-> <<1, p, 2, q>>,
     uses |-> [x \in MCWorkflows \cup MCActions |-> IF x \in {1, 2} THEN {collector} ELSE {}],
     external |-> [x \in MCWorkflows \cup MCActions |->
                     IF x = q THEN external ELSE IF x \in MCActions THEN {} ELSE {"pinned"}],
     malformed |-> {}, files |-> MCPackages]
Distinct == [b \in {1, 2} |-> b]
AlikeToo == {Distinct, [b \in {1, 2} |-> 1]}

\* One batch of one package, with what its summary, its package and the actions use
OneBatch(w) ==
    Contract(IF legacy \in w.summary THEN legacy ELSE strict) @@
    [order |-> w.order,
     uses |-> [x \in MCWorkflows \cup MCActions |->
        CASE x = 1 -> w.summary [] x = p -> w.package [] x = legacy -> w.legacy
          [] x = strict -> w.strict [] x = other -> w.other [] OTHER -> {}],
     external |-> [x \in MCWorkflows \cup MCActions |-> IF x \in w.mutable THEN {"mutable"} ELSE {"pinned"}],
     malformed |-> w.malformed, files |-> {p}]

\* One batch of both packages
Pair(w) == [TwoBatches(w.collector, {"pinned"}) EXCEPT !.order = <<1, p, q>>]

\* "changes" is where the commits of a world depart from the contract.
MCCommitAt(w, s) ==
    w.changes @@
    IF w.kind = "tree" THEN OneBatch(w)
    ELSE IF w.kind = "pair" THEN Pair(w)
    ELSE TwoBatches(w.collector, IF s = 1 THEN {"pinned"} ELSE {"mutable"})

MCReports(w, x) ==
    CASE x = p /\ w.kind = "claim" -> {Own(w.claim, w.conclusion)}
      [] x = p /\ w.kind = "source" ->
           {[claim |-> c, conclusion |-> c.run, source |-> s] :
              c \in {AllPassed, SixthFailed}, s \in {"own", "stale", "absent"}}
      [] x = p /\ w.kind = "busy" -> {Own(SixthFailed, "failure"), Passing}
      [] w.kind = "pair" -> {Own(c, conclusion) : c \in {AllPassed, SixthFailed}, conclusion \in Conclusions}
      [] OTHER -> {Passing}

\* Commits of any shape
TreeWorlds ==
    [kind : {"tree"}, changes : {<<>>}, people : {0}, nonces : {{Distinct}}, order : {<<1, p>>},
     summary : SUBSET MCActions, package : {{}, {other}}, legacy : SUBSET {strict, other},
     strict : SUBSET {legacy, other}, other : SUBSET MCActions, mutable : {{}, {other}},
     malformed : {{}, {other}}]
\* Summaries that depart from the contract in one thing
Summaries ==
    UNION {{[c EXCEPT !.steps = t] : t \in {Attesting.steps, Uploading.steps, <<"upload", "collect">>,
                                            <<"attest", "collect", "upload">>, <<"collect">>}}
             \cup {[c EXCEPT !.upload = u] : u \in {"always", "attested", "other"}}
             \cup {[c EXCEPT !.lenient = TRUE], [c EXCEPT !.reviewed = FALSE]} :
           c \in {Attesting, Uploading}}
Changes ==
    {[summary |-> [b \in {1, 2} |-> c]] : c \in Summaries}
      \cup {[triggers |-> [b \in {1, 2} |-> t]] : t \in {"launch", "prefetch", "other"}}
      \cup {[given |-> g] : g \in {{}, {q}, {p, q}}} \cup {[strictAction |-> FALSE]}
ContractWorlds ==
    [kind : {"tree"}, changes : Changes, people : {0}, nonces : {{Distinct}}, order : {<<1, p>>},
     summary : {{legacy}, {strict}}, package : {{}}, legacy : {{}}, strict : {{}}, other : {{}},
     mutable : {{}}, malformed : {{}}]
OrderWorlds ==
    [kind : {"tree"}, changes : {<<>>}, people : {0}, nonces : {{Distinct}}, summary : {{strict}}, package : {{}},
     legacy : {{}}, strict : {{}}, other : {{}}, mutable : {{}}, malformed : {{}},
     order : {<<1, p, p>>, <<1, q>>, <<2, p>>, <<1, p, 2>>, <<1, p, 2, p>>}]
\* Results of any kind
ClaimWorlds ==
    [kind : {"claim"}, changes : {<<>>}, people : {0}, nonces : {{Distinct}}, collector : {strict},
     claim : UNION {Variants(f) : f \in FairClaims}, conclusion : Conclusions]
\* Results of earlier runs, or none, under both collectors, attested or not
SourceWorlds ==
    [kind : {"source"}, changes : {<<>>}, people : {0}, nonces : {AlikeToo}, collector : {legacy, strict}]
      \cup [kind : {"source"}, changes : {<<>>}, people : {1}, nonces : {{Distinct}},
            collector : {legacy, strict}]
      \cup [kind : {"source"}, changes : {[summary |-> [b \in {1, 2} |-> Uploading]]}, people : {0},
            nonces : {{Distinct}}, collector : {legacy}]
\* Jobs of one batch that may not conclude as their results say
PairWorlds == [kind : {"pair"}, changes : {<<>>}, people : {0}, nonces : {{Distinct}}, collector : {legacy, strict}]
\* People who interfere
BusyWorlds == [kind : {"busy"}, changes : {<<>>}, people : {2}, nonces : {{Distinct}}, collector : {strict}]
MCWorlds == TreeWorlds \cup ContractWorlds \cup OrderWorlds \cup ClaimWorlds \cup SourceWorlds
              \cup PairWorlds \cup BusyWorlds
=============================================================================
