--------------------- MODULE GeneratedDataPublisher_proofs ---------------------
(***************************************************************************)
(* What holds of publish_generated_data for every repository, every number  *)
(* of runs and every behaviour of GitHub and of people.                     *)
(*                                                                         *)
(* Runs disturb each other through GitHub only, so the inductive invariant  *)
(* has a part about GitHub and a part about one run at a time.              *)
(***************************************************************************)
EXTENDS GeneratedDataPublisher, FiniteSetTheorems, TLAPS

\* The base branch is never empty, and every open pull request has a head.
GitHubOK ==
    /\ history \in Seq(Tree) /\ Len(history) > 0
    /\ headRef \in Commit \cup {NoCommit}
    /\ prs \in [PRNums -> PullRequest]
    /\ listed \in [PRNums -> PullRequest]
    /\ edits \in Nat /\ faults \in Nat
    /\ \A n \in PRNums : prs[n].state = "open" => prs[n].head # NoCommit

BeforePrepare == {"idle", "prepare"}
Closing == {"obsolete", "relistObsolete", "close"}
AfterVerify == Closing \cup {"relist", "push"}

\* From Prepare on, the candidate has passed the worktree checks; before, the run
\* has no head yet.
CandidateChecked(s) ==
    /\ s.pc \in BeforePrepare => s.head = NoCommit
    /\ s.pc \notin BeforePrepare \cup {"done", "failed"}
         => CandidateOK(history[s.base], s.work)

HeadIsCandidate(s) ==
    s.head # NoCommit =>
        /\ s.head.owned
        /\ s.head.tree = s.work
        /\ s.head.base = s.base
        /\ CandidateOK(history[s.base], s.head.tree)

\* After VerifyHead, the remembered remote head is automation's own.
RemoteVerified(s) ==
    s.pc \in AfterVerify /\ s.remote # NoCommit => s.remote.owned

\* A run that closes has nothing to publish, and the draft it saw sits on the
\* remote head it verified.
SeenOnRemote(s) ==
    /\ (s.pc \in Closing \cup {"verify"} /\ s.seen # NoPR) =>
         s.remote # NoCommit /\ s.seen.pr.head = s.remote
    /\ s.pc \in Closing => Changed(history[s.base], s.work) = {}
    /\ s.pc = "close" => s.seen # NoPR

RunOK(s) ==
    /\ s \in RunState /\ s.base \in 1..Len(history)
    /\ CandidateChecked(s) /\ HeadIsCandidate(s)
    /\ RemoteVerified(s) /\ SeenOnRemote(s)

PublisherInv ==
    /\ GitHubOK
    /\ run \in [Runs -> RunState]
    /\ \A r \in Runs : RunOK(run[r])

-----------------------------------------------------------------------------
\* One run changes, and GitHub stays well formed

\* A step of run r keeps the invariant when its new state is a good one.
LEMMA OneRunChanges ==
    ASSUME PublisherInv, NEW r \in Runs, NEW s, RunOK(s),
           run' = [run EXCEPT ![r] = s], history' = history, GitHubOK'
    PROVE  PublisherInv'
<1>1. s \in RunState
  BY DEF RunOK
<1>2. run' \in [Runs -> RunState]
  BY <1>1 DEF PublisherInv
<1>3. ASSUME NEW q \in Runs PROVE RunOK(run[q])'
  <2>1. RunOK(run'[q])
    BY DEF PublisherInv
  <2>2. QED
    BY <2>1 DEF RunOK, CandidateChecked, HeadIsCandidate, RemoteVerified, SeenOnRemote
<1>4. QED
  BY <1>2, <1>3 DEF PublisherInv

\* A step of GitHub or of people keeps the invariant when the base branch only grows.
LEMMA OnlyGitHubChanges ==
    ASSUME PublisherInv, run' = run, GitHubOK',
           Len(history') >= Len(history),
           \A i \in 1..Len(history) : history'[i] = history[i]
    PROVE  PublisherInv'
<1>1. run' \in [Runs -> RunState]
  BY DEF PublisherInv
<1>2. ASSUME NEW q \in Runs PROVE RunOK(run[q])'
  <2>1. /\ RunOK(run[q])
        /\ Len(history) \in Nat /\ Len(history') \in Nat
    BY DEF PublisherInv, GitHubOK
  <2>2. history'[run[q].base] = history[run[q].base]
    BY <2>1 DEF RunOK
  <2>3. run[q].base \in 1..Len(history')
    BY <2>1 DEF RunOK
  <2>4. run'[q] = run[q]
    OBVIOUS
  <2>5. QED
    BY <2>1, <2>2, <2>3, <2>4
    DEF RunOK, CandidateChecked, HeadIsCandidate, RemoteVerified, SeenOnRemote
<1>3. QED
  BY <1>1, <1>2 DEF PublisherInv

\* What the list endpoint answers is well formed.
LEMMA OpenPRType ==
    ASSUME GitHubOK
    PROVE  OpenPR = NoPR \/ OpenPR \in Snapshot
<1>1. View \in [PRNums -> PullRequest]
  BY DEF GitHubOK, View
<1>2. CASE OpenNums(View) = {}
  BY <1>2 DEF OpenPR
<1>3. CASE OpenNums(View) # {}
  <2> DEFINE n == CHOOSE m \in OpenNums(View) : TRUE
  <2>1. n \in OpenNums(View)
    BY <1>3
  <2>2. n \in PRNums
    BY <2>1 DEF OpenNums
  <2>3. OpenPR = [num |-> n, pr |-> View[n]]
    BY <1>3 DEF OpenPR
  <2>4. QED
    BY <1>1, <2>2, <2>3 DEF Snapshot
<1>4. QED
  BY <1>2, <1>3

\* A run may fail anywhere.
LEMMA FailedIsOK ==
    ASSUME PublisherInv, NEW r \in Runs
    PROVE  RunOK([run[r] EXCEPT !.pc = "failed"])
<1>1. RunOK(run[r])
  BY DEF PublisherInv
<1>2. QED
  BY <1>1 DEF RunOK, RunState, PCs, CandidateChecked, HeadIsCandidate, RemoteVerified,
              SeenOnRemote, BeforePrepare, AfterVerify, Closing

\* Steps of a run that only read GitHub: the new state is all there is to check.
LEMMA ReadingKeepsInv ==
    ASSUME PublisherInv, NEW r \in Runs, NEW s, RunOK(s),
           run' = [run EXCEPT ![r] = s], ReadOnly
    PROVE  PublisherInv'
<1>1. GitHubOK' /\ history' = history
  BY DEF PublisherInv, GitHubOK, ReadOnly, github
<1>2. QED
  BY <1>1, OneRunChanges

\* A failing step of a run keeps the invariant.
LEMMA FailKeepsInv ==
    ASSUME PublisherInv, NEW r \in Runs, Fail(r), GitHubOK', history' = history
    PROVE  PublisherInv'
<1>1. run' = [run EXCEPT ![r] = [run[r] EXCEPT !.pc = "failed"]]
  BY DEF PublisherInv, Fail, Goto
<1>2. QED
  BY <1>1, FailedIsOK, OneRunChanges

\* Going on to another pc keeps the invariant when the new state is a good one.
LEMMA GotoKeepsInv ==
    ASSUME PublisherInv, NEW r \in Runs, NEW pc, Goto(r, pc), GitHubOK', history' = history,
           RunOK([run[r] EXCEPT !.pc = pc])
    PROVE  PublisherInv'
<1>1. run' = [run EXCEPT ![r] = [run[r] EXCEPT !.pc = pc]]
  BY DEF PublisherInv, Goto
<1>2. QED
  BY <1>1, OneRunChanges

\* A run that polls again, or gives up, is as good as it was.
LEMMA PolledIsOK ==
    ASSUME NEW s, RunOK(s), NEW k \in Nat, NEW pc \in {s.pc, "failed"}
    PROVE  RunOK([s EXCEPT !.polls = k, !.pc = pc])
<1> DEFINE t == [s EXCEPT !.polls = k, !.pc = pc]
<1>1. s \in RunState
  BY DEF RunOK
<1>2. /\ t.pc = pc /\ t.base = s.base /\ t.work = s.work /\ t.seen = s.seen
      /\ t.remote = s.remote /\ t.head = s.head
  BY <1>1 DEF RunState
<1>3. t \in RunState
  BY <1>1 DEF RunState, PCs
<1>4. QED
  BY <1>2, <1>3 DEF RunOK, CandidateChecked, HeadIsCandidate, RemoteVerified, SeenOnRemote,
                    BeforePrepare, AfterVerify, Closing

\* A polling loop goes on or fails.
LEMMA PollKeepsInv ==
    ASSUME PublisherInv, NEW r \in Runs, PollAgain(r), ReadOnly
    PROVE  PublisherInv'
<1> DEFINE k == run[r].polls + 1
           pc == IF k < MaxPolls THEN run[r].pc ELSE "failed"
<1>1. RunOK(run[r]) /\ run[r] \in RunState
  BY DEF PublisherInv, RunOK
<1>2. run' = [run EXCEPT ![r] = [run[r] EXCEPT !.polls = k, !.pc = pc]]
  BY <1>1 DEF PublisherInv, PollAgain
<1>3. k \in Nat /\ pc \in {run[r].pc, "failed"}
  BY <1>1 DEF RunState
<1> HIDE DEF k, pc
<1>4. RunOK([run[r] EXCEPT !.polls = k, !.pc = pc])
  BY <1>1, <1>3, PolledIsOK
<1>5. QED
  BY <1>2, <1>4, ReadingKeepsInv

-----------------------------------------------------------------------------
\* The actions

LEMMA InitKeepsInv == Init => PublisherInv
<1>1. SUFFICES ASSUME Init PROVE PublisherInv
  OBVIOUS
<1>2. PICK tree \in BaseTrees :
        /\ history = <<tree>>
        /\ \/ InitFresh(tree)
           \/ \E s \in Runs, n \in PRNums, seed \in Seeds : InitSeeded(tree, s, n, seed)
  BY <1>1 DEF Init
<1>3. tree \in Tree /\ history \in Seq(Tree) /\ Len(history) = 1 /\ history[1] = tree
  BY <1>2, PublisherConstants
<1>4. RunOK(Idle(tree))
  BY <1>3 DEF Idle, RunOK, RunState, PCs, Statuses, CandidateChecked, HeadIsCandidate,
              RemoteVerified, SeenOnRemote, BeforePrepare, AfterVerify, Closing
<1>5. Unused \in PullRequest
  BY DEF Unused, PullRequest, Author
<1>6. CASE InitFresh(tree)
  <2>1. run \in [Runs -> RunState] /\ \A r \in Runs : RunOK(run[r])
    BY <1>4, <1>6 DEF InitFresh, RunOK
  <2>2. /\ prs \in [PRNums -> PullRequest] /\ listed = prs
        /\ \A n \in PRNums : prs[n].state = "none"
    BY <1>1, <1>5, <1>6 DEF Init, InitFresh, Unused
  <2>3. headRef = NoCommit /\ edits = 0 /\ faults = 0
    BY <1>1, <1>6 DEF Init, InitFresh
  <2>4. GitHubOK
    BY <1>3, <2>2, <2>3 DEF GitHubOK
  <2>5. QED
    BY <2>1, <2>4 DEF PublisherInv
<1>7. ASSUME NEW s \in Runs, NEW n \in PRNums, NEW seed \in Seeds, InitSeeded(tree, s, n, seed)
      PROVE  PublisherInv
  <2> DEFINE commit == [base |-> 1, tree |-> seed, owned |-> TRUE, by |-> s]
             seeded == [pc |-> "done", base |-> 1, work |-> seed, seen |-> NoPR,
                        remote |-> NoCommit, head |-> commit, num |-> n, polls |-> 0,
                        status |-> "created"]
             draft == [state |-> "open", draft |-> TRUE, marker |-> TRUE, target |-> TRUE,
                       text |-> s, author |-> s, head |-> commit, base |-> 1]
  <2>1. seed \in Tree /\ CandidateOK(tree, seed)
    BY <1>7, PublisherConstants DEF InitSeeded
  <2>2. commit \in Commit /\ commit # NoCommit
    <3>1. commit \in Commit
      BY <2>1 DEF Commit, Author
    <3>2. QED
      BY <3>1, NoCommitIsNoCommit
  <2>3. RunOK(seeded)
    <3>1. seeded \in RunState
      BY <2>1, <2>2 DEF RunState, PCs, Statuses
    <3>2. QED
      BY <1>3, <2>1, <3>1
      DEF RunOK, CandidateChecked, HeadIsCandidate, RemoteVerified, SeenOnRemote,
          BeforePrepare, AfterVerify, Closing
  <2>4. run = [[r \in Runs |-> Idle(tree)] EXCEPT ![s] = seeded]
    BY <1>7 DEF InitSeeded
  <2>5. run \in [Runs -> RunState] /\ \A r \in Runs : RunOK(run[r])
    BY <1>4, <2>3, <2>4 DEF RunOK
  <2>6. draft \in PullRequest
    BY <2>2 DEF PullRequest, Author
  <2>7. /\ headRef = commit
        /\ prs = [[m \in PRNums |-> Unused] EXCEPT ![n] = draft]
    BY <1>7 DEF InitSeeded
  <2>8. prs \in [PRNums -> PullRequest]
    BY <1>5, <2>6, <2>7
  <2>9. \A m \in PRNums : prs[m].state = "open" => prs[m].head # NoCommit
    BY <2>2, <2>7 DEF Unused
  <2>10. GitHubOK
    BY <1>1, <1>3, <2>2, <2>7, <2>8, <2>9 DEF Init, GitHubOK
  <2>11. QED
    BY <2>5, <2>10 DEF PublisherInv
<1>8. QED
  BY <1>2, <1>6, <1>7

LEMMA StartKeepsInv ==
    ASSUME PublisherInv, NEW r \in Runs, Start(r)
    PROVE  PublisherInv'
<1>1. PICK work \in Worktrees :
        run' = [run EXCEPT ![r].pc = "prepare", ![r].base = Main, ![r].work = work]
  BY DEF Start
<1>2. RunOK(run[r]) /\ run[r] \in RunState /\ run[r].pc = "idle" /\ ReadOnly
  BY DEF PublisherInv, RunOK, Start, At
<1> DEFINE s == [run[r] EXCEPT !.pc = "prepare", !.base = Main, !.work = work]
<1>3. run' = [run EXCEPT ![r] = s]
  BY <1>1, <1>2 DEF PublisherInv
<1>4. Main \in Nat /\ Main \in 1..Len(history)
  BY DEF PublisherInv, GitHubOK, Main
<1>5. work \in Tree
  BY PublisherConstants
<1>6. /\ s.pc = "prepare" /\ s.base = Main /\ s.work = work /\ s.seen = run[r].seen
      /\ s.remote = run[r].remote /\ s.head = run[r].head
  BY <1>2 DEF RunState
<1>7. s \in RunState
  BY <1>2, <1>4, <1>5 DEF RunState, PCs
<1>8. RunOK(s)
  BY <1>2, <1>4, <1>6, <1>7
  DEF RunOK, CandidateChecked, HeadIsCandidate, RemoteVerified, SeenOnRemote,
      BeforePrepare, AfterVerify, Closing
<1>9. QED
  BY <1>2, <1>3, <1>8, ReadingKeepsInv

\* Going on to a pc that asks no more of a run than the one it leaves, whatever
\* number, poll count and status it then holds
LEMMA GoneOnIsOK ==
    ASSUME NEW s, RunOK(s), s.pc \notin BeforePrepare \cup {"done", "failed"},
           NEW t \in RunState, t.pc \notin BeforePrepare \cup {"verify"},
           t.base = s.base, t.work = s.work, t.seen = s.seen, t.remote = s.remote,
           t.head = s.head,
           t.pc \in AfterVerify => s.pc \in AfterVerify,
           t.pc \in Closing => s.pc \in Closing,
           t.pc = "close" => s.seen # NoPR
    PROVE  RunOK(t)
  BY DEF RunOK, CandidateChecked, HeadIsCandidate, RemoteVerified, SeenOnRemote,
         BeforePrepare, AfterVerify, Closing

\* The same, for a step that changes the pc alone
LEMMA GoingOnKeepsInv ==
    ASSUME PublisherInv, NEW r \in Runs, NEW pc \in PCs, Goto(r, pc),
           GitHubOK', history' = history,
           run[r].pc \notin BeforePrepare \cup {"done", "failed"},
           pc \notin BeforePrepare \cup {"verify"},
           pc \in AfterVerify => run[r].pc \in AfterVerify,
           pc \in Closing => run[r].pc \in Closing,
           pc = "close" => run[r].seen # NoPR
    PROVE  PublisherInv'
<1> DEFINE t == [run[r] EXCEPT !.pc = pc]
<1>1. RunOK(run[r]) /\ run[r] \in RunState
  BY DEF PublisherInv, RunOK
<1>2. /\ t \in RunState /\ t.pc = pc /\ t.base = run[r].base /\ t.work = run[r].work
      /\ t.seen = run[r].seen /\ t.remote = run[r].remote /\ t.head = run[r].head
  BY <1>1 DEF RunState
<1> HIDE DEF t
<1>3. RunOK(t)
  BY <1>1, <1>2, GoneOnIsOK
<1>4. QED
  BY <1>3, GotoKeepsInv DEF t

LEMMA FinishKeepsInv ==
    ASSUME PublisherInv, NEW r \in Runs, NEW status \in Statuses, Finish(r, status), ReadOnly,
           run[r].pc \notin BeforePrepare \cup {"done", "failed"}
    PROVE  PublisherInv'
<1> DEFINE t == [run[r] EXCEPT !.pc = "done", !.status = status]
<1>1. RunOK(run[r]) /\ run[r] \in RunState
  BY DEF PublisherInv, RunOK
<1>2. run' = [run EXCEPT ![r] = t]
  BY <1>1 DEF PublisherInv, Finish
<1>3. /\ t \in RunState /\ t.pc = "done" /\ t.base = run[r].base /\ t.work = run[r].work
      /\ t.seen = run[r].seen /\ t.remote = run[r].remote /\ t.head = run[r].head
  BY <1>1 DEF RunState, PCs
<1> HIDE DEF t
<1>4. RunOK(t)
  BY <1>1, <1>3, GoneOnIsOK DEF BeforePrepare, AfterVerify, Closing
<1>5. QED
  BY <1>2, <1>4, ReadingKeepsInv

LEMMA PrepareKeepsInv ==
    ASSUME PublisherInv, NEW r \in Runs, Prepare(r)
    PROVE  PublisherInv'
<1>1. RunOK(run[r]) /\ run[r] \in RunState /\ run[r].pc = "prepare" /\ ReadOnly
  BY DEF PublisherInv, RunOK, Prepare, At
<1>2. GitHubOK' /\ history' = history
  BY <1>1 DEF PublisherInv, GitHubOK, ReadOnly, github
<1>3. CASE Fail(r)
  BY <1>2, <1>3, FailKeepsInv
<1>4. CASE CandidateOK(history[run[r].base], run[r].work) /\ Goto(r, "list")
  <2> DEFINE s == [run[r] EXCEPT !.pc = "list"]
  <2>1. /\ s.pc = "list" /\ s.base = run[r].base /\ s.work = run[r].work
        /\ s.seen = run[r].seen /\ s.remote = run[r].remote /\ s.head = run[r].head
    BY <1>1 DEF RunState
  <2>2. s \in RunState
    BY <1>1 DEF RunState, PCs
  <2>3. RunOK(s)
    BY <1>1, <1>4, <2>1, <2>2
    DEF RunOK, CandidateChecked, HeadIsCandidate, RemoteVerified, SeenOnRemote,
        BeforePrepare, AfterVerify, Closing
  <2>4. QED
    BY <1>2, <1>4, <2>3, GotoKeepsInv
<1>5. QED
  BY <1>3, <1>4 DEF Prepare

LEMMA ListOpenKeepsInv ==
    ASSUME PublisherInv, NEW r \in Runs, ListOpen(r)
    PROVE  PublisherInv'
<1>1. RunOK(run[r]) /\ run[r] \in RunState /\ run[r].pc = "list" /\ ReadOnly
  BY DEF PublisherInv, RunOK, ListOpen, At
<1>2. GitHubOK' /\ history' = history
  BY <1>1 DEF PublisherInv, GitHubOK, ReadOnly, github
<1>3. CASE Fail(r)
  BY <1>2, <1>3, FailKeepsInv
<1>4. CASE run' = [run EXCEPT ![r].pc = "head", ![r].seen = OpenPR]
  <2> DEFINE s == [run[r] EXCEPT !.pc = "head", !.seen = OpenPR]
  <2>1. run' = [run EXCEPT ![r] = s]
    BY <1>1, <1>4 DEF PublisherInv
  <2>2. OpenPR \in Snapshot \cup {NoPR}
    BY OpenPRType DEF PublisherInv
  <2>3. /\ s.pc = "head" /\ s.base = run[r].base /\ s.work = run[r].work
        /\ s.remote = run[r].remote /\ s.head = run[r].head
    BY <1>1 DEF RunState
  <2>4. s \in RunState
    BY <1>1, <2>2 DEF RunState, PCs
  <2>5. RunOK(s)
    BY <1>1, <2>3, <2>4
    DEF RunOK, CandidateChecked, HeadIsCandidate, RemoteVerified, SeenOnRemote,
        BeforePrepare, AfterVerify, Closing
  <2>6. QED
    BY <1>1, <2>1, <2>5, ReadingKeepsInv
<1>5. QED
  BY <1>3, <1>4 DEF ListOpen

LEMMA CheckBaseKeepsInv ==
    ASSUME PublisherInv, NEW r \in Runs,
           NEW from \in PCs, NEW to \in PCs, CheckBase(r, from, to),
           <<from, to>> \in {<<"obsolete", "relistObsolete">>, <<"confirmBase", "confirmPR">>}
    PROVE  PublisherInv'
<1>1. RunOK(run[r]) /\ run[r] \in RunState /\ run[r].pc = from /\ ReadOnly
  BY DEF PublisherInv, RunOK, CheckBase, At
<1>2. GitHubOK' /\ history' = history
  BY <1>1 DEF PublisherInv, GitHubOK, ReadOnly, github
<1>3. CASE Fail(r)
  BY <1>2, <1>3, FailKeepsInv
<1>4. CASE Goto(r, to)
  BY <1>1, <1>2, <1>4, GoingOnKeepsInv DEF BeforePrepare, AfterVerify, Closing
<1>5. QED
  BY <1>3, <1>4 DEF CheckBase

LEMMA ReadHeadKeepsInv ==
    ASSUME PublisherInv, NEW r \in Runs, ReadHead(r)
    PROVE  PublisherInv'
<1>1. RunOK(run[r]) /\ run[r] \in RunState /\ run[r].pc = "head" /\ ReadOnly
  BY DEF PublisherInv, RunOK, ReadHead, At
<1>2. GitHubOK' /\ history' = history
  BY <1>1 DEF PublisherInv, GitHubOK, ReadOnly, github
<1>3. CASE Fail(r)
  BY <1>2, <1>3, FailKeepsInv
<1>4. CASE /\ HeadMatchesPR(r)
           /\ run' = [run EXCEPT ![r].pc = IF headRef = NoCommit
                                           THEN StagedPC(r, NoCommit) ELSE "verify",
                                 ![r].remote = headRef]
  <2> DEFINE pc == IF headRef = NoCommit THEN StagedPC(r, NoCommit) ELSE "verify"
             t == [run[r] EXCEPT !.pc = pc, !.remote = headRef]
  <2>1. /\ headRef = NoCommit => pc \in {"obsolete", "relist"}
        /\ pc = "obsolete" => Changed(history[run[r].base], run[r].work) = {}
        /\ headRef # NoCommit => pc = "verify"
    BY DEF StagedPC, Reusable
  <2>2. /\ run[r].seen # NoPR => headRef # NoCommit /\ run[r].seen.pr.head = headRef
        /\ headRef \in Commit \cup {NoCommit}
    BY <1>4 DEF HeadMatchesPR, PublisherInv, GitHubOK
  <2>3. run' = [run EXCEPT ![r] = t]
    BY <1>1, <1>4 DEF PublisherInv
  <2> HIDE DEF pc
  <2>4. /\ t.pc = pc /\ t.base = run[r].base /\ t.work = run[r].work
        /\ t.seen = run[r].seen /\ t.remote = headRef /\ t.head = run[r].head
    BY <1>1 DEF RunState
  <2>5. t \in RunState
    BY <1>1, <2>1, <2>2 DEF RunState, PCs
  <2>6. RunOK(t)
    BY <1>1, <2>1, <2>2, <2>4, <2>5
    DEF RunOK, CandidateChecked, HeadIsCandidate, RemoteVerified, SeenOnRemote,
        BeforePrepare, AfterVerify, Closing
  <2>7. QED
    BY <1>1, <2>3, <2>6, ReadingKeepsInv
<1>5. QED
  BY <1>3, <1>4 DEF ReadHead

LEMMA VerifyHeadKeepsInv ==
    ASSUME PublisherInv, NEW r \in Runs, VerifyHead(r)
    PROVE  PublisherInv'
<1>1. RunOK(run[r]) /\ run[r] \in RunState /\ run[r].pc = "verify" /\ ReadOnly
  BY DEF PublisherInv, RunOK, VerifyHead, At
<1>2. GitHubOK' /\ history' = history
  BY <1>1 DEF PublisherInv, GitHubOK, ReadOnly, github
<1>3. CASE Fail(r)
  BY <1>2, <1>3, FailKeepsInv
<1>4. CASE /\ OwnsHead(r)
           /\ run' = [run EXCEPT ![r].pc = StagedPC(r, headRef),
                                 ![r].head = StagedHead(r, headRef)]
  <2> DEFINE pc == StagedPC(r, headRef)
             h == StagedHead(r, headRef)
             t == [run[r] EXCEPT !.pc = pc, !.head = h]
  <2>1. headRef \in Commit /\ headRef = run[r].remote /\ headRef.owned
    BY <1>4 DEF OwnsHead, PublisherInv, GitHubOK
  <2>2. /\ pc \in {"obsolete", "relist", "confirmBase"}
        /\ pc = "obsolete" => Changed(history[run[r].base], run[r].work) = {}
        /\ h # NoCommit => h = headRef /\ Reusable(r, headRef)
        /\ h \in Commit \cup {NoCommit}
    BY <2>1 DEF StagedPC, StagedHead
  <2>3. run' = [run EXCEPT ![r] = t]
    BY <1>1, <1>4 DEF PublisherInv
  <2> HIDE DEF pc, h
  <2>4. /\ t.pc = pc /\ t.base = run[r].base /\ t.work = run[r].work
        /\ t.seen = run[r].seen /\ t.remote = run[r].remote /\ t.head = h
    BY <1>1 DEF RunState
  <2>5. t \in RunState
    BY <1>1, <2>2 DEF RunState, PCs
  <2>6. RunOK(t)
    BY <1>1, <2>1, <2>2, <2>4, <2>5
    DEF RunOK, CandidateChecked, HeadIsCandidate, RemoteVerified, SeenOnRemote, Reusable,
        BeforePrepare, AfterVerify, Closing
  <2>7. QED
    BY <1>1, <2>3, <2>6, ReadingKeepsInv
<1>5. QED
  BY <1>3, <1>4 DEF VerifyHead

LEMMA RelistObsoleteKeepsInv ==
    ASSUME PublisherInv, NEW r \in Runs, RelistObsolete(r)
    PROVE  PublisherInv'
<1>1. RunOK(run[r]) /\ run[r] \in RunState /\ run[r].pc = "relistObsolete" /\ ReadOnly
  BY DEF PublisherInv, RunOK, RelistObsolete, At
<1>2. GitHubOK' /\ history' = history
  BY <1>1 DEF PublisherInv, GitHubOK, ReadOnly, github
<1>3. CASE Fail(r)
  BY <1>2, <1>3, FailKeepsInv
<1>4. CASE Finish(r, "no_changes")
  BY <1>1, <1>4, FinishKeepsInv DEF Statuses, BeforePrepare
<1>5. CASE run[r].seen # NoPR /\ Goto(r, "close")
  BY <1>1, <1>2, <1>5, GoingOnKeepsInv DEF PCs, BeforePrepare, AfterVerify, Closing
<1>6. QED
  BY <1>3, <1>4, <1>5 DEF RelistObsolete

LEMMA WaitClosedKeepsInv ==
    ASSUME PublisherInv, NEW r \in Runs, WaitClosed(r)
    PROVE  PublisherInv'
<1>1. RunOK(run[r]) /\ run[r] \in RunState /\ run[r].pc = "waitClosed" /\ ReadOnly
  BY DEF PublisherInv, RunOK, WaitClosed, At
<1>2. GitHubOK' /\ history' = history
  BY <1>1 DEF PublisherInv, GitHubOK, ReadOnly, github
<1>3. CASE Fail(r)
  BY <1>2, <1>3, FailKeepsInv
<1>4. CASE Goto(r, "confirmClosed")
  BY <1>1, <1>2, <1>4, GoingOnKeepsInv DEF PCs, BeforePrepare, AfterVerify, Closing
<1>5. CASE PollAgain(r)
  BY <1>1, <1>5, PollKeepsInv
<1>6. QED
  BY <1>3, <1>4, <1>5 DEF WaitClosed

LEMMA ConfirmClosedKeepsInv ==
    ASSUME PublisherInv, NEW r \in Runs, ConfirmClosed(r)
    PROVE  PublisherInv'
<1>1. RunOK(run[r]) /\ run[r] \in RunState /\ run[r].pc = "confirmClosed" /\ ReadOnly
  BY DEF PublisherInv, RunOK, ConfirmClosed, At
<1>2. GitHubOK' /\ history' = history
  BY <1>1 DEF PublisherInv, GitHubOK, ReadOnly, github
<1>3. CASE Fail(r)
  BY <1>2, <1>3, FailKeepsInv
<1>4. CASE Finish(r, "closed_stale")
  BY <1>1, <1>4, FinishKeepsInv DEF Statuses, BeforePrepare
<1>5. QED
  BY <1>3, <1>4 DEF ConfirmClosed

LEMMA RelistKeepsInv ==
    ASSUME PublisherInv, NEW r \in Runs, Relist(r)
    PROVE  PublisherInv'
<1>1. RunOK(run[r]) /\ run[r] \in RunState /\ run[r].pc = "relist" /\ ReadOnly
  BY DEF PublisherInv, RunOK, Relist, At
<1>2. GitHubOK' /\ history' = history
  BY <1>1 DEF PublisherInv, GitHubOK, ReadOnly, github
<1>3. CASE Fail(r)
  BY <1>2, <1>3, FailKeepsInv
<1>4. CASE Goto(r, "push")
  BY <1>1, <1>2, <1>4, GoingOnKeepsInv DEF PCs, BeforePrepare, AfterVerify, Closing
<1>5. QED
  BY <1>3, <1>4 DEF Relist

LEMMA CheckPushedKeepsInv ==
    ASSUME PublisherInv, NEW r \in Runs, CheckPushed(r)
    PROVE  PublisherInv'
<1>1. RunOK(run[r]) /\ run[r] \in RunState /\ run[r].pc = "pushed" /\ ReadOnly
  BY DEF PublisherInv, RunOK, CheckPushed, At
<1>2. GitHubOK' /\ history' = history
  BY <1>1 DEF PublisherInv, GitHubOK, ReadOnly, github
<1>3. CASE Fail(r)
  BY <1>2, <1>3, FailKeepsInv
<1>4. CASE Goto(r, "confirmBase")
  BY <1>1, <1>2, <1>4, GoingOnKeepsInv DEF PCs, BeforePrepare, AfterVerify, Closing
<1>5. QED
  BY <1>3, <1>4 DEF CheckPushed

\* A step that sets the pc and the number of the pull request
LEMMA NumberedKeepsInv ==
    ASSUME PublisherInv, NEW r \in Runs, NEW pc \in {"update", "await"}, NEW n \in PRNums,
           run[r].pc \notin BeforePrepare \cup {"done", "failed"},
           run' = [run EXCEPT ![r].pc = pc, ![r].num = n],
           GitHubOK', history' = history
    PROVE  PublisherInv'
<1> DEFINE t == [run[r] EXCEPT !.pc = pc, !.num = n]
<1>1. RunOK(run[r]) /\ run[r] \in RunState
  BY DEF PublisherInv, RunOK
<1>2. run' = [run EXCEPT ![r] = t]
  BY <1>1 DEF PublisherInv
<1>3. /\ t \in RunState /\ t.pc = pc /\ t.base = run[r].base /\ t.work = run[r].work
      /\ t.seen = run[r].seen /\ t.remote = run[r].remote /\ t.head = run[r].head
  BY <1>1 DEF RunState, PCs
<1> HIDE DEF t
<1>4. RunOK(t)
  BY <1>1, <1>3, GoneOnIsOK DEF BeforePrepare, AfterVerify, Closing
<1>5. QED
  BY <1>2, <1>4, OneRunChanges

LEMMA ConfirmPRKeepsInv ==
    ASSUME PublisherInv, NEW r \in Runs, ConfirmPR(r)
    PROVE  PublisherInv'
<1>1. RunOK(run[r]) /\ run[r] \in RunState /\ run[r].pc = "confirmPR" /\ ReadOnly
  BY DEF PublisherInv, RunOK, ConfirmPR, At
<1>2. GitHubOK' /\ history' = history
  BY <1>1 DEF PublisherInv, GitHubOK, ReadOnly, github
<1>3. CASE Fail(r)
  BY <1>2, <1>3, FailKeepsInv
<1>4. CASE Goto(r, "create")
  BY <1>1, <1>2, <1>4, GoingOnKeepsInv DEF PCs, BeforePrepare, AfterVerify, Closing
<1>5. CASE /\ run[r].seen # NoPR
           /\ run' = [run EXCEPT ![r].pc = "update", ![r].num = run[r].seen.num]
  <2>1. run[r].seen.num \in PRNums
    BY <1>1, <1>5 DEF RunState, Snapshot
  <2>2. QED
    BY <1>1, <1>2, <1>5, <2>1, NumberedKeepsInv DEF BeforePrepare
<1>6. QED
  BY <1>3, <1>4, <1>5 DEF ConfirmPR

LEMMA AwaitExactKeepsInv ==
    ASSUME PublisherInv, NEW r \in Runs, AwaitExact(r)
    PROVE  PublisherInv'
<1>1. RunOK(run[r]) /\ run[r] \in RunState /\ run[r].pc = "await" /\ ReadOnly
  BY DEF PublisherInv, RunOK, AwaitExact, At
<1>2. GitHubOK' /\ history' = history
  BY <1>1 DEF PublisherInv, GitHubOK, ReadOnly, github
<1>3. CASE Fail(r)
  BY <1>2, <1>3, FailKeepsInv
<1>4. CASE Goto(r, "confirmFinal")
  BY <1>1, <1>2, <1>4, GoingOnKeepsInv DEF PCs, BeforePrepare, AfterVerify, Closing
<1>5. CASE PollAgain(r)
  BY <1>1, <1>5, PollKeepsInv
<1>6. QED
  BY <1>3, <1>4, <1>5 DEF AwaitExact

LEMMA ConfirmFinalKeepsInv ==
    ASSUME PublisherInv, NEW r \in Runs, ConfirmFinal(r)
    PROVE  PublisherInv'
<1>1. RunOK(run[r]) /\ run[r] \in RunState /\ run[r].pc = "confirmFinal" /\ ReadOnly
  BY DEF PublisherInv, RunOK, ConfirmFinal, At
<1>2. GitHubOK' /\ history' = history
  BY <1>1 DEF PublisherInv, GitHubOK, ReadOnly, github
<1>3. CASE Fail(r)
  BY <1>2, <1>3, FailKeepsInv
<1>4. CASE Finish(r, ReviewStatus(r))
  <2>1. ReviewStatus(r) \in Statuses
    BY DEF ReviewStatus, Statuses
  <2>2. QED
    BY <1>1, <1>4, <2>1, FinishKeepsInv DEF BeforePrepare
<1>5. QED
  BY <1>3, <1>4 DEF ConfirmFinal

LEMMA RecoverKeepsInv ==
    ASSUME PublisherInv, NEW r \in Runs, Recover(r)
    PROVE  PublisherInv'
<1>1. RunOK(run[r]) /\ run[r] \in RunState /\ run[r].pc = "recover" /\ ReadOnly
  BY DEF PublisherInv, RunOK, Recover, At
<1>2. GitHubOK' /\ history' = history
  BY <1>1 DEF PublisherInv, GitHubOK, ReadOnly, github
<1>3. CASE Fail(r)
  BY <1>2, <1>3, FailKeepsInv
<1>4. CASE /\ OpenPR # NoPR
           /\ run' = [run EXCEPT ![r].pc = "await", ![r].num = OpenPR.num, ![r].polls = 0]
  <2> DEFINE t == [run[r] EXCEPT !.pc = "await", !.num = OpenPR.num, !.polls = 0]
  <2>1. OpenPR.num \in PRNums
    BY <1>4, OpenPRType DEF PublisherInv, Snapshot
  <2>2. run' = [run EXCEPT ![r] = t]
    BY <1>1, <1>4 DEF PublisherInv
  <2>3. /\ t.pc = "await" /\ t.base = run[r].base /\ t.work = run[r].work
        /\ t.seen = run[r].seen /\ t.remote = run[r].remote /\ t.head = run[r].head
    BY <1>1 DEF RunState
  <2>4. t \in RunState
    BY <1>1, <2>1 DEF RunState, PCs
  <2> HIDE DEF t
  <2>5. RunOK(t)
    BY <1>1, <2>3, <2>4, GoneOnIsOK DEF BeforePrepare, AfterVerify, Closing
  <2>6. QED
    BY <1>1, <2>2, <2>5, ReadingKeepsInv
<1>5. CASE PollAgain(r)
  BY <1>1, <1>5, PollKeepsInv
<1>6. QED
  BY <1>3, <1>4, <1>5 DEF Recover

LEMMA ClosePRKeepsInv ==
    ASSUME PublisherInv, NEW r \in Runs, ClosePR(r)
    PROVE  PublisherInv'
<1> DEFINE n == run[r].seen.num
           closed == [prs[n] EXCEPT !.state = IF @ = "open" THEN "closed" ELSE @]
<1>1. RunOK(run[r]) /\ run[r].pc = "close" /\ prs' = [prs EXCEPT ![n] = closed]
  BY DEF PublisherInv, RunOK, ClosePR, At
<1>2. n \in PRNums
  BY <1>1 DEF RunOK, SeenOnRemote, RunState, Snapshot
<1>3. prs[n] \in PullRequest
  BY <1>2 DEF PublisherInv, GitHubOK
<1>4. closed \in PullRequest /\ closed.state # "open"
  BY <1>3 DEF PullRequest
<1> HIDE DEF n, closed
<1>5. GitHubOK' /\ history' = history
  BY <1>1, <1>2, <1>4 DEF PublisherInv, GitHubOK, ClosePR, remoteRefs
<1>6. CASE Fail(r)
  BY <1>5, <1>6, FailKeepsInv
<1>7. CASE Goto(r, "waitClosed")
  BY <1>1, <1>5, <1>7, GoingOnKeepsInv DEF PCs, BeforePrepare, AfterVerify, Closing
<1>8. QED
  BY <1>6, <1>7 DEF ClosePR

\* A new head of the branch leaves the pull requests well formed.
LEMMA FollowedHeads ==
    ASSUME GitHubOK, NEW commit \in Commit, NEW refresh \in BOOLEAN
    PROVE  /\ FollowHead(commit, refresh) \in [PRNums -> PullRequest]
           /\ \A n \in PRNums : FollowHead(commit, refresh)[n].state = "open" =>
                                  FollowHead(commit, refresh)[n].head # NoCommit
<1> DEFINE follow(n) == IF prs[n].state = "open"
                        THEN [prs[n] EXCEPT !.head = commit, !.base = IF refresh THEN Main ELSE @]
                        ELSE prs[n]
<1>1. Main \in Nat
  BY DEF GitHubOK, Main
<1>2. ASSUME NEW n \in PRNums
      PROVE  follow(n) \in PullRequest /\ (follow(n).state = "open" => follow(n).head # NoCommit)
  <2>1. prs[n] \in PullRequest
    BY DEF GitHubOK
  <2>2. CASE prs[n].state = "open"
    BY <1>1, <2>1, <2>2, NoCommitIsNoCommit DEF PullRequest
  <2>3. CASE prs[n].state # "open"
    BY <2>1, <2>3
  <2>4. QED
    BY <2>2, <2>3
<1>3. FollowHead(commit, refresh) = [n \in PRNums |-> follow(n)]
  BY DEF FollowHead
<1> HIDE DEF follow
<1>4. QED
  BY <1>2, <1>3

LEMMA PushKeepsInv ==
    ASSUME PublisherInv, NEW r \in Runs, Push(r)
    PROVE  PublisherInv'
<1>1. /\ RunOK(run[r]) /\ run[r] \in RunState /\ run[r].pc = "push"
      /\ UNCHANGED <<history, listed, edits, faults>>
  BY DEF PublisherInv, RunOK, Push, At
<1>2. CASE Fail(r) /\ UNCHANGED <<headRef, prs>>
  BY <1>1, <1>2, FailKeepsInv DEF PublisherInv, GitHubOK
<1>3. CASE LeaseHolds(r)
  <2> DEFINE c == NewCommit(r)
             t == [run[r] EXCEPT !.pc = "pushed", !.head = c]
  <2>1. /\ c \in Commit /\ c # NoCommit
        /\ c.owned /\ c.tree = run[r].work /\ c.base = run[r].base
    <3>1. c \in Commit
      BY <1>1 DEF NewCommit, Commit, Author, RunState
    <3>2. QED
      BY <3>1, NoCommitIsNoCommit DEF NewCommit
  <2>2. PICK refresh \in BOOLEAN : prs' = FollowHead(c, refresh)
    BY <1>3 DEF Push
  <2>3. headRef' = c /\ run' = [run EXCEPT ![r] = t]
    BY <1>1, <1>3 DEF PublisherInv, Push
  <2> HIDE DEF c
  <2>4. GitHubOK'
    BY <1>1, <2>1, <2>2, <2>3, FollowedHeads DEF PublisherInv, GitHubOK
  <2>5. /\ t.pc = "pushed" /\ t.base = run[r].base /\ t.work = run[r].work
        /\ t.seen = run[r].seen /\ t.remote = run[r].remote /\ t.head = c
    BY <1>1 DEF RunState
  <2>6. t \in RunState
    BY <1>1, <2>1 DEF RunState, PCs
  <2>7. RunOK(t)
    BY <1>1, <2>1, <2>5, <2>6
    DEF RunOK, CandidateChecked, HeadIsCandidate, RemoteVerified, SeenOnRemote,
        BeforePrepare, AfterVerify, Closing
  <2>8. QED
    BY <1>1, <2>3, <2>4, <2>7, OneRunChanges
<1>4. QED
  BY <1>2, <1>3 DEF Push

LEMMA CreateKeepsInv ==
    ASSUME PublisherInv, NEW r \in Runs, Create(r)
    PROVE  PublisherInv'
<1>1. /\ RunOK(run[r]) /\ run[r] \in RunState /\ run[r].pc = "create"
      /\ UNCHANGED <<history, headRef, listed, edits>>
  BY DEF PublisherInv, RunOK, Create, At, remoteRefs
<1>2. CASE Goto(r, "recover") /\ faults' \in Nat /\ prs' = prs
  <2>1. GitHubOK'
    BY <1>1, <1>2 DEF PublisherInv, GitHubOK
  <2>2. QED
    BY <1>1, <1>2, <2>1, GoingOnKeepsInv DEF PCs, BeforePrepare, AfterVerify, Closing
<1>3. ASSUME NEW n \in PRNums, CanCreate, prs' = [prs EXCEPT ![n] = NewPR(r)],
             \/ /\ run' = [run EXCEPT ![r].pc = "await", ![r].num = n]
                /\ UNCHANGED faults
             \/ /\ faults' = faults + 1
                /\ Goto(r, "recover")
      PROVE  PublisherInv'
  <2>1. NewPR(r) \in PullRequest /\ NewPR(r).head # NoCommit
    BY <1>3 DEF NewPR, PullRequest, Author, CanCreate, PublisherInv, GitHubOK, Main
  <2>2. GitHubOK'
    BY <1>1, <1>3, <2>1 DEF PublisherInv, GitHubOK
  <2>3. CASE Goto(r, "recover")
    BY <1>1, <2>2, <2>3, GoingOnKeepsInv DEF PCs, BeforePrepare, AfterVerify, Closing
  <2>4. CASE run' = [run EXCEPT ![r].pc = "await", ![r].num = n]
    BY <1>1, <2>2, <2>4, NumberedKeepsInv DEF BeforePrepare
  <2>5. QED
    BY <1>3, <2>3, <2>4
<1>4. QED
  BY <1>2, <1>3 DEF Create, PublisherInv, GitHubOK

LEMMA UpdateKeepsInv ==
    ASSUME PublisherInv, NEW r \in Runs, Update(r)
    PROVE  PublisherInv'
<1>1. /\ RunOK(run[r]) /\ run[r].pc = "update"
      /\ UNCHANGED <<history, headRef, listed, edits, faults>>
      /\ prs' = [prs EXCEPT ![run[r].num].text = r, ![run[r].num].marker = TRUE]
  BY DEF PublisherInv, RunOK, Update, At, remoteRefs
<1>2. ASSUME NEW n \in PRNums
      PROVE  /\ prs'[n] \in PullRequest
             /\ prs'[n].state = "open" => prs'[n].head # NoCommit
  <2>1. prs[n] \in PullRequest /\ (prs[n].state = "open" => prs[n].head # NoCommit)
    BY DEF PublisherInv, GitHubOK
  <2>2. CASE n = run[r].num
    <3> DEFINE pr == [prs[n] EXCEPT !.text = r, !.marker = TRUE]
    <3>1. prs'[n] = pr
      BY <1>1, <2>1, <2>2 DEF PublisherInv, GitHubOK
    <3>2. pr \in PullRequest /\ pr.state = prs[n].state /\ pr.head = prs[n].head
      BY <2>1 DEF PullRequest, Author
    <3>3. QED
      BY <2>1, <3>1, <3>2
  <2>3. CASE n # run[r].num
    BY <1>1, <2>1, <2>3 DEF PublisherInv, GitHubOK
  <2>4. QED
    BY <2>2, <2>3
<1>3. prs' \in [PRNums -> PullRequest]
  BY <1>1, <1>2 DEF PublisherInv, GitHubOK
<1>4. GitHubOK'
  BY <1>1, <1>2, <1>3 DEF PublisherInv, GitHubOK
<1>5. QED
  BY <1>1, <1>4, GoingOnKeepsInv DEF Update, PCs, BeforePrepare, AfterVerify, Closing

LEMMA CrashKeepsInv ==
    ASSUME PublisherInv, NEW r \in Runs, Crash(r)
    PROVE  PublisherInv'
  BY FailKeepsInv DEF Crash, github, PublisherInv, GitHubOK

LEMMA IndexKeepsInv ==
    ASSUME PublisherInv, NEW n \in PRNums, Index(n)
    PROVE  PublisherInv'
<1>1. GitHubOK' /\ run' = run /\ history' = history
  BY DEF Index, PublisherInv, GitHubOK
<1>2. QED
  BY <1>1, OnlyGitHubChanges DEF PublisherInv, GitHubOK

\* What a person does keeps the invariant if pull requests and head stay well formed
\* and the base branch is appended to at most.
LEMMA PersonKeepsInv ==
    ASSUME PublisherInv, Edit,
           \/ history' = history
           \/ \E tree \in Tree : history' = Append(history, tree),
           headRef' \in Commit \cup {NoCommit},
           prs' \in [PRNums -> PullRequest],
           \A n \in PRNums : prs'[n].state = "open" => prs'[n].head # NoCommit
    PROVE  PublisherInv'
<1>1. /\ history \in Seq(Tree) /\ Len(history) \in Nat /\ Len(history) > 0
      /\ run' = run /\ listed' = listed /\ faults' = faults /\ edits' = edits + 1
  BY DEF PublisherInv, GitHubOK, Edit
<1>2. /\ history' \in Seq(Tree) /\ Len(history') >= Len(history)
      /\ \A i \in 1..Len(history) : history'[i] = history[i]
  <2>1. CASE history' = history
    BY <1>1, <2>1
  <2>2. ASSUME NEW tree \in Tree, history' = Append(history, tree)
        PROVE  /\ history' \in Seq(Tree) /\ Len(history') >= Len(history)
               /\ \A i \in 1..Len(history) : history'[i] = history[i]
    BY <1>1, <2>2
  <2>3. QED
    BY <2>1, <2>2
<1>3. GitHubOK'
  BY <1>1, <1>2 DEF PublisherInv, GitHubOK
<1>4. QED
  BY <1>1, <1>2, <1>3, OnlyGitHubChanges

\* The same, for a person who changes one pull request to pr
LEMMA PersonChangesPR ==
    ASSUME PublisherInv, Edit, UNCHANGED remoteRefs, NEW n \in PRNums, NEW pr \in PullRequest,
           pr.state = "open" => pr.head # NoCommit, prs' = [prs EXCEPT ![n] = pr]
    PROVE  PublisherInv'
<1>1. /\ history' = history /\ headRef' \in Commit \cup {NoCommit}
      /\ prs' \in [PRNums -> PullRequest]
      /\ \A m \in PRNums : prs'[m].state = "open" => prs'[m].head # NoCommit
  BY DEF PublisherInv, GitHubOK, remoteRefs
<1>2. QED
  BY <1>1, PersonKeepsInv

LEMMA PeopleKeepInv == ASSUME PublisherInv, People PROVE PublisherInv'
<1> USE DEF GitHubOK
<1>1. Main \in Nat /\ edits \in Nat /\ headRef \in Commit \cup {NoCommit}
  BY DEF PublisherInv, Main
<1>2. ASSUME NEW n \in PRNums, MarkReady(n)
      PROVE  PublisherInv'
  <2> DEFINE pr == [prs[n] EXCEPT !.draft = FALSE]
  <2>1. prs[n] \in PullRequest /\ (prs[n].state = "open" => prs[n].head # NoCommit)
    BY DEF PublisherInv, GitHubOK
  <2>2. pr \in PullRequest /\ (pr.state = "open" => pr.head # NoCommit)
    BY <1>2, <2>1 DEF MarkReady, PullRequest, PublisherInv, GitHubOK
  <2>3. Edit /\ UNCHANGED remoteRefs /\ prs' = [prs EXCEPT ![n] = pr]
    BY <1>2 DEF MarkReady, PublisherInv, GitHubOK
  <2> HIDE DEF pr
  <2>4. QED
    BY <2>2, <2>3, PersonChangesPR
<1>3. ASSUME NEW n \in PRNums, CloseByHand(n)
      PROVE  PublisherInv'
  <2> DEFINE pr == [prs[n] EXCEPT !.state = "closed"]
  <2>1. prs[n] \in PullRequest /\ (prs[n].state = "open" => prs[n].head # NoCommit)
    BY DEF PublisherInv, GitHubOK
  <2>2. pr \in PullRequest /\ (pr.state = "open" => pr.head # NoCommit)
    BY <1>3, <2>1 DEF CloseByHand, PullRequest, PublisherInv, GitHubOK
  <2>3. Edit /\ UNCHANGED remoteRefs /\ prs' = [prs EXCEPT ![n] = pr]
    BY <1>3 DEF CloseByHand, PublisherInv, GitHubOK
  <2> HIDE DEF pr
  <2>4. QED
    BY <2>2, <2>3, PersonChangesPR
<1>4. ASSUME NEW n \in PRNums, Reopen(n)
      PROVE  PublisherInv'
  <2> DEFINE pr == [prs[n] EXCEPT !.state = "open", !.head = headRef]
  <2>1. prs[n] \in PullRequest /\ (prs[n].state = "open" => prs[n].head # NoCommit)
    BY DEF PublisherInv, GitHubOK
  <2>2. pr \in PullRequest /\ (pr.state = "open" => pr.head # NoCommit)
    BY <1>4, <2>1 DEF Reopen, PullRequest, PublisherInv, GitHubOK
  <2>3. Edit /\ UNCHANGED remoteRefs /\ prs' = [prs EXCEPT ![n] = pr]
    BY <1>4 DEF Reopen, PublisherInv, GitHubOK
  <2> HIDE DEF pr
  <2>4. QED
    BY <2>2, <2>3, PersonChangesPR
<1>5. ASSUME NEW n \in PRNums, NEW keepMarker \in BOOLEAN, EditText(n, keepMarker)
      PROVE  PublisherInv'
  <2> DEFINE pr == [prs[n] EXCEPT !.text = edits + 1, !.marker = @ /\ keepMarker]
  <2>1. prs[n] \in PullRequest /\ (prs[n].state = "open" => prs[n].head # NoCommit)
    BY DEF PublisherInv, GitHubOK
  <2>2. pr \in PullRequest /\ (pr.state = "open" => pr.head # NoCommit)
    <3>1. prs[n].marker \in BOOLEAN /\ edits + 1 \in Author
      BY <1>1, <2>1 DEF PullRequest, Author
    <3>2. (prs[n].marker /\ keepMarker) \in BOOLEAN
      BY <3>1
    <3>3. QED
      BY <2>1, <3>1, <3>2 DEF PullRequest
  <2>3. Edit /\ UNCHANGED remoteRefs /\ prs' = [prs EXCEPT ![n] = pr]
    BY <1>5 DEF EditText, PublisherInv, GitHubOK
  <2> HIDE DEF pr
  <2>4. QED
    BY <2>2, <2>3, PersonChangesPR
<1>6. ASSUME NEW n \in PRNums, Retarget(n)
      PROVE  PublisherInv'
  <2> DEFINE pr == [prs[n] EXCEPT !.target = FALSE]
  <2>1. prs[n] \in PullRequest /\ (prs[n].state = "open" => prs[n].head # NoCommit)
    BY DEF PublisherInv, GitHubOK
  <2>2. pr \in PullRequest /\ (pr.state = "open" => pr.head # NoCommit)
    BY <1>6, <2>1 DEF Retarget, PullRequest, PublisherInv, GitHubOK
  <2>3. Edit /\ UNCHANGED remoteRefs /\ prs' = [prs EXCEPT ![n] = pr]
    BY <1>6 DEF Retarget, PublisherInv, GitHubOK
  <2> HIDE DEF pr
  <2>4. QED
    BY <2>2, <2>3, PersonChangesPR
<1>7. ASSUME NEW n \in PRNums, OpenByHand(n)
      PROVE  PublisherInv'
  <2> DEFINE pr == [state |-> "open", draft |-> FALSE, marker |-> FALSE, target |-> TRUE,
                    text |-> edits + 1, author |-> edits + 1, head |-> headRef,
                    base |-> Main]
  <2>1. prs[n] \in PullRequest /\ (prs[n].state = "open" => prs[n].head # NoCommit)
    BY DEF PublisherInv, GitHubOK
  <2>2. pr \in PullRequest /\ (pr.state = "open" => pr.head # NoCommit)
    BY <1>7, <2>1 DEF OpenByHand, PullRequest, PublisherInv, GitHubOK, Author, CanCreate, Main
  <2>3. Edit /\ UNCHANGED remoteRefs /\ prs' = [prs EXCEPT ![n] = pr]
    BY <1>7 DEF OpenByHand, PublisherInv, GitHubOK
  <2> HIDE DEF pr
  <2>4. QED
    BY <2>2, <2>3, PersonChangesPR
<1>8. ASSUME NEW tree \in BaseTrees, AdvanceMain(tree)
      PROVE  PublisherInv'
  BY <1>8, PersonKeepsInv, PublisherConstants DEF AdvanceMain, PublisherInv
<1>9. ASSUME NEW n \in PRNums, MergePR(n)
      PROVE  PublisherInv'
  <2> DEFINE from == history[prs[n].head.base]
             tree == prs[n].head.tree
             merged == [p \in Paths |-> IF tree[p] # from[p] THEN tree[p] ELSE history[Main][p]]
             pr == [prs[n] EXCEPT !.state = "merged"]
  <2>1. prs[n] \in PullRequest /\ prs[n].head \in Commit
    BY <1>9 DEF MergePR, PublisherInv, PullRequest
  <2>2. tree \in Tree /\ history[Main] \in Tree
    BY <2>1 DEF Commit, PublisherInv, Main
  <2>3. merged \in Tree
    BY <2>2 DEF Tree
  <2>4. pr \in PullRequest /\ pr.state # "open"
    BY <2>1 DEF PullRequest
  <2>5. /\ Edit /\ headRef' = headRef /\ history' = Append(history, merged)
        /\ prs' = [prs EXCEPT ![n] = pr]
    BY <1>9 DEF MergePR, PublisherInv
  <2> HIDE DEF merged, pr
  <2>6. /\ prs' \in [PRNums -> PullRequest]
        /\ \A m \in PRNums : prs'[m].state = "open" => prs'[m].head # NoCommit
    BY <2>4, <2>5 DEF PublisherInv
  <2>7. QED
    BY <1>1, <2>3, <2>5, <2>6, PersonKeepsInv
<1>10. ASSUME NEW commit \in Commit, Edit, history' = history, headRef' = commit,
              \E refresh \in BOOLEAN : prs' = FollowHead(commit, refresh)
       PROVE  PublisherInv'
  BY <1>10, FollowedHeads, PersonKeepsInv DEF PublisherInv
<1>11. ASSUME NEW tree \in Worktrees, PushByHand(tree)
       PROVE  PublisherInv'
  <2> DEFINE commit == [base |-> Main, tree |-> tree, owned |-> FALSE, by |-> edits + 1]
  <2>1. commit \in Commit
    BY <1>1, PublisherConstants DEF Commit, Author
  <2>2. /\ Edit /\ history' = history /\ headRef' = commit
        /\ \E refresh \in BOOLEAN : prs' = FollowHead(commit, refresh)
    BY <1>11 DEF PushByHand
  <2> HIDE DEF commit
  <2>3. QED
    BY <1>10, <2>1, <2>2
<1>12. ASSUME NEW tree \in Worktrees, AmendByHand(tree)
       PROVE  PublisherInv'
  <2> DEFINE commit == [headRef EXCEPT !.tree = tree, !.by = edits + 1]
  <2>1. headRef \in Commit
    BY <1>1, <1>12 DEF AmendByHand
  <2>2. commit \in Commit
    <3>1. tree \in Tree /\ edits + 1 \in Author
      BY <1>1, PublisherConstants DEF Author
    <3>2. QED
      BY <2>1, <3>1 DEF Commit
  <2>3. /\ Edit /\ history' = history /\ headRef' = commit
        /\ \E refresh \in BOOLEAN : prs' = FollowHead(commit, refresh)
    BY <1>12 DEF AmendByHand
  <2> HIDE DEF commit
  <2>4. QED
    BY <1>10, <2>2, <2>3
<1>13. CASE DeleteBranch
  <2> DEFINE left(n) == IF prs[n].state = "open" THEN [prs[n] EXCEPT !.state = "closed"]
                        ELSE prs[n]
  <2>1. ASSUME NEW n \in PRNums PROVE left(n) \in PullRequest /\ left(n).state # "open"
    <3>1. prs[n] \in PullRequest
      BY DEF PublisherInv
    <3>2. QED
      BY <3>1 DEF PullRequest
  <2>2. /\ Edit /\ history' = history /\ headRef' = NoCommit
        /\ prs' = [n \in PRNums |-> left(n)]
    BY <1>13 DEF DeleteBranch
  <2> HIDE DEF left
  <2>3. QED
    BY <2>1, <2>2, PersonKeepsInv
<1>14. QED
  BY <1>2, <1>3, <1>4, <1>5, <1>6, <1>7, <1>8, <1>9, <1>11, <1>12, <1>13 DEF People

LEMMA StepKeepsInv == ASSUME PublisherInv, NEW r \in Runs, Step(r) PROVE PublisherInv'
<1>1. ASSUME CheckBase(r, "obsolete", "relistObsolete") PROVE PublisherInv'
  BY <1>1, CheckBaseKeepsInv DEF PCs
<1>2. ASSUME CheckBase(r, "confirmBase", "confirmPR") PROVE PublisherInv'
  BY <1>2, CheckBaseKeepsInv DEF PCs
<1>3. QED
  BY <1>1, <1>2, PrepareKeepsInv, ListOpenKeepsInv, ReadHeadKeepsInv, VerifyHeadKeepsInv,
     RelistObsoleteKeepsInv, ClosePRKeepsInv, WaitClosedKeepsInv, ConfirmClosedKeepsInv,
     RelistKeepsInv, PushKeepsInv, CheckPushedKeepsInv, ConfirmPRKeepsInv, CreateKeepsInv,
     RecoverKeepsInv, UpdateKeepsInv, AwaitExactKeepsInv, ConfirmFinalKeepsInv
  DEF Step

LEMMA NextKeepsInv == PublisherInv /\ [Next]_vars => PublisherInv'
<1>1. SUFFICES ASSUME PublisherInv, [Next]_vars PROVE PublisherInv'
  OBVIOUS
<1>2. CASE UNCHANGED vars
  <2>1. GitHubOK' /\ run' = run /\ history' = history
    BY <1>1, <1>2 DEF vars, PublisherInv, GitHubOK
  <2>2. QED
    BY <1>1, <2>1, OnlyGitHubChanges DEF PublisherInv, GitHubOK
<1>3. QED
  BY <1>1, <1>2, StartKeepsInv, StepKeepsInv, CrashKeepsInv, IndexKeepsInv, PeopleKeepInv
  DEF Next

-----------------------------------------------------------------------------
\* The theorems

\* Every reachable state satisfies the inductive invariant of publish_generated_data.
THEOREM Invariance == Spec => []PublisherInv
  BY InitKeepsInv, NextKeepsInv, PTL DEF Spec

\* Branch heads, pull requests and run records stay well formed, whatever people do
\* between the remote calls of publish_generated_data.
THEOREM TypeCorrect == Spec => []TypeOK
<1>1. PublisherInv => TypeOK
  BY DEF PublisherInv, GitHubOK, TypeOK
<1>2. QED
  BY <1>1, Invariance, PTL

\* A run of publish_generated_data reports nothing but an owned commit of exactly its
\* candidate on exactly its reviewed base, allowlisted regular files only.
THEOREM ReportsOnlyTheCandidate == Spec => []ReportedHeadIsCandidate
<1>1. PublisherInv => ReportedHeadIsCandidate
  BY DEF PublisherInv, RunOK, HeadIsCandidate, ReportedHeadIsCandidate
<1>2. QED
  BY <1>1, Invariance, PTL

\* Only a push, by a run or by hand, and a deletion move the branch.
LEMMA WhoMovesTheHead ==
    ASSUME Next, headRef' # headRef
    PROVE  \/ \E r \in Runs : Push(r)
           \/ \E tree \in Worktrees : PushByHand(tree) \/ AmendByHand(tree)
           \/ DeleteBranch
<1>1. ASSUME NEW r \in Runs, Start(r) \/ Step(r) \/ Crash(r)
      PROVE  Push(r)
  BY <1>1 DEF Start, Step, Crash, ReadOnly, github, remoteRefs, Prepare, ListOpen, ReadHead,
              VerifyHead, CheckBase, RelistObsolete, ClosePR, WaitClosed, ConfirmClosed, Relist,
              CheckPushed, ConfirmPR, Create, Recover, Update, AwaitExact, ConfirmFinal
<1>2. ASSUME NEW n \in PRNums, Index(n)
      PROVE  FALSE
  BY <1>2 DEF Index
<1>3. CASE People
  BY <1>3 DEF People, AdvanceMain, MergePR, MarkReady, CloseByHand, Reopen, EditText, Retarget,
              OpenByHand, remoteRefs
<1>4. QED
  BY <1>1, <1>2, <1>3 DEF Next

\* A run never overwrites a commit that automation does not own, however the push of a
\* person interleaves with the steps of the run.
THEOREM HandPushesSurvive == Spec => HandPushSurvives
<1>1. ASSUME PublisherInv, Next, NEW r \in Runs, headRef' # headRef, headRef' = NewCommit(r),
             headRef # NoCommit
      PROVE  headRef.owned
  <2>1. /\ NewCommit(r).owned /\ NewCommit(r).by = r /\ NewCommit(r) \in Commit
        /\ r \notin Nat /\ edits + 1 \in Nat
    BY <1>1, PublisherConstants
    DEF NewCommit, PublisherInv, GitHubOK, RunState, Commit, Author
  <2>2. ASSUME NEW q \in Runs, Push(q) PROVE headRef.owned
    <3>1. run[q].pc = "push" /\ headRef = run[q].remote
      BY <1>1, <2>2 DEF Push, At, LeaseHolds
    <3>2. RunOK(run[q])
      BY <1>1 DEF PublisherInv
    <3>3. QED
      BY <1>1, <3>1, <3>2 DEF RunOK, RemoteVerified, AfterVerify
  <2>3. ASSUME NEW tree \in Worktrees, PushByHand(tree) PROVE headRef.owned
    BY <1>1, <2>1, <2>3 DEF PushByHand
  <2>4. ASSUME NEW tree \in Worktrees, AmendByHand(tree) PROVE headRef.owned
    BY <2>4 DEF AmendByHand
  <2>5. CASE DeleteBranch
    BY <1>1, <2>1, <2>5, NoCommitIsNoCommit DEF DeleteBranch
  <2>6. QED
    BY <1>1, <2>2, <2>3, <2>4, <2>5, WhoMovesTheHead
<1>2. PublisherInv /\ [Next]_vars =>
        [\A r \in Runs :
           headRef' # headRef /\ headRef' = NewCommit(r) /\ headRef # NoCommit
           => headRef.owned]_vars
  BY <1>1
<1>3. QED
  BY <1>2, Invariance, PTL DEF Spec, HandPushSurvives

\* A step of one run leaves the others alone.
LEMMA OthersStay ==
    ASSUME PublisherInv, NEW q \in Runs, NEW r \in Runs, q # r, Start(q) \/ Step(q) \/ Crash(q)
    PROVE  run'[r] = run[r]
  BY DEF PublisherInv, Start, Step, Crash, Prepare, ListOpen, ReadHead, VerifyHead, CheckBase,
         RelistObsolete, ClosePR, WaitClosed, ConfirmClosed, Relist, Push, CheckPushed,
         ConfirmPR, Create, Recover, Update, AwaitExact, ConfirmFinal, Goto, Fail, Finish,
         PollAgain

\* Only ClosePR takes a run from "close" to "waitClosed".
LEMMA WhoCloses ==
    ASSUME PublisherInv, Next, NEW r \in Runs, At(r, "close"), run'[r].pc = "waitClosed"
    PROVE  ClosePR(r)
<1>1. ASSUME NEW q \in Runs, q # r, Start(q) \/ Step(q) \/ Crash(q) PROVE FALSE
  BY <1>1, OthersStay DEF At
<1>2. CASE Start(r) \/ Crash(r)
  BY <1>2 DEF PublisherInv, RunState, Start, Crash, Fail, Goto, At
<1>3. CASE Step(r)
  BY <1>3 DEF Step, At, Prepare, ListOpen, ReadHead, VerifyHead, CheckBase, RelistObsolete,
              WaitClosed, ConfirmClosed, Relist, Push, CheckPushed, ConfirmPR, Create,
              Recover, Update, AwaitExact, ConfirmFinal
<1>4. CASE (\E n \in PRNums : Index(n)) \/ People
  BY <1>4 DEF Index, People, AdvanceMain, MergePR, MarkReady, CloseByHand, Reopen, EditText,
              Retarget, OpenByHand, PushByHand, AmendByHand, DeleteBranch, Edit, At
<1>5. QED
  BY <1>1, <1>2, <1>3, <1>4 DEF Next

\* A run that goes on after closing a pull request has closed exactly the draft it saw,
\* on exactly the head it verified, and had nothing to publish.
THEOREM ClosesExactly == Spec => ClosesOnlySeenDraft
<1>1. ASSUME PublisherInv, Next, NEW r \in Runs, At(r, "close"), run'[r].pc = "waitClosed"
      PROVE  /\ run[r].seen.pr.head = run[r].remote
             /\ run[r].remote.owned
             /\ Changed(history[run[r].base], run[r].work) = {}
             /\ prs'[run[r].seen.num] = [run[r].seen.pr EXCEPT !.state = "closed"]
  <2> DEFINE n == run[r].seen.num
             closed == [prs[n] EXCEPT !.state = IF @ = "open" THEN "closed" ELSE @]
  <2>1. RunOK(run[r]) /\ run[r] \in RunState /\ run[r].pc = "close"
    BY <1>1 DEF PublisherInv, RunOK, At
  <2>2. /\ run[r].seen.pr.head = run[r].remote /\ run[r].remote # NoCommit
        /\ run[r].remote.owned /\ Changed(history[run[r].base], run[r].work) = {}
    BY <2>1 DEF RunOK, RemoteVerified, SeenOnRemote, AfterVerify, Closing
  <2>3. run[r].seen \in Snapshot
    BY <2>1 DEF RunOK, SeenOnRemote, RunState
  <2>4. n \in PRNums /\ run[r].seen.pr \in PullRequest
    BY <2>3 DEF Snapshot
  <2>5. ClosePR(r)
    BY <1>1, WhoCloses
  <2>6. CloseAccepted(r, closed)
    <3>1. Fail(r) => run'[r].pc = "failed"
      BY <2>1, <1>1 DEF Fail, Goto, PublisherInv, RunState
    <3>2. QED
      BY <1>1, <2>5, <3>1 DEF ClosePR
  <2>7. prs' = [prs EXCEPT ![n] = closed]
    BY <2>5 DEF ClosePR
  <2>8. closed \in PullRequest
    BY <1>1, <2>4 DEF PublisherInv, GitHubOK, PullRequest
  <2> HIDE DEF closed, n
  <2>9. prs'[n] = closed
    BY <1>1, <2>4, <2>7 DEF PublisherInv, GitHubOK
  <2>10. closed = [run[r].seen.pr EXCEPT !.state = "closed"]
    BY <2>4, <2>6, <2>8 DEF CloseAccepted, PullRequest
  <2>11. QED
    BY <2>2, <2>9, <2>10 DEF n
<1>2. PublisherInv /\ [Next]_vars =>
        [\A r \in Runs : At(r, "close") /\ run'[r].pc = "waitClosed" =>
            /\ run[r].seen.pr.head = run[r].remote
            /\ run[r].remote.owned
            /\ Changed(history[run[r].base], run[r].work) = {}
            /\ prs'[run[r].seen.num] = [run[r].seen.pr EXCEPT !.state = "closed"]]_vars
  BY <1>1
<1>3. QED
  BY <1>2, Invariance, PTL DEF Spec, ClosesOnlySeenDraft

-----------------------------------------------------------------------------
\* How far a run is.  No branch of publish_generated_data leads back.
Stage(pc) ==
    CASE pc = "idle" -> 0 [] pc = "prepare" -> 1 [] pc = "list" -> 2 [] pc = "head" -> 3
      [] pc = "verify" -> 4 [] pc = "obsolete" -> 5 [] pc = "relistObsolete" -> 6
      [] pc = "close" -> 7 [] pc = "waitClosed" -> 8 [] pc = "confirmClosed" -> 9
      [] pc = "relist" -> 10 [] pc = "push" -> 11 [] pc = "pushed" -> 12
      [] pc = "confirmBase" -> 13 [] pc = "confirmPR" -> 14 [] pc = "create" -> 15
      [] pc = "recover" -> 16 [] pc = "update" -> 17 [] pc = "await" -> 18
      [] pc = "confirmFinal" -> 19 [] pc \in {"done", "failed"} -> 20

\* A later stage, or one more of the MaxPolls attempts of the stage it is in
Advances(r) ==
    \/ Stage(run[r].pc) < Stage(run'[r].pc)
    \/ /\ run'[r].pc = run[r].pc
       /\ run[r].polls < run'[r].polls /\ run'[r].polls < MaxPolls

\* Every step of a run, and everything else that changes it, brings it further, so that it
\* has at most 20 * MaxPolls steps whatever the listings show.
RunAdvances ==
    [][ \A r \in Runs : Step(r) \/ run'[r] # run[r] => Advances(r) ]_vars

\* To fail is to advance, too.
LEMMA FailAdvances ==
    ASSUME PublisherInv, NEW r \in Runs, Active(r), run'[r].pc = "failed"
    PROVE  Advances(r)
<1>1. run[r].pc \in PCs \ {"done", "failed"}
  BY DEF PublisherInv, RunState, Active, At
<1>2. QED
  BY <1>1 DEF Advances, Stage, PCs

LEMMA PollAdvances ==
    ASSUME PublisherInv, NEW r \in Runs, Active(r), PollAgain(r)
    PROVE  Advances(r)
<1>1. run[r] \in RunState /\ run[r].polls \in Nat /\ MaxPolls \in Nat
  BY PublisherConstants DEF PublisherInv, RunState
<1>2. /\ run'[r].polls = run[r].polls + 1
      /\ run'[r].pc = IF run[r].polls + 1 < MaxPolls THEN run[r].pc ELSE "failed"
  BY <1>1 DEF PublisherInv, PollAgain, RunState
<1>3. QED
  BY <1>1, <1>2, FailAdvances DEF Advances

\* The steps that go on or fail
LEMMA ChecksAdvance ==
    ASSUME PublisherInv, NEW r \in Runs,
           \/ Prepare(r) \/ ListOpen(r) \/ ReadHead(r) \/ VerifyHead(r)
           \/ CheckBase(r, "obsolete", "relistObsolete") \/ RelistObsolete(r) \/ ClosePR(r)
           \/ ConfirmClosed(r) \/ Relist(r) \/ Push(r) \/ CheckPushed(r)
           \/ CheckBase(r, "confirmBase", "confirmPR") \/ ConfirmPR(r) \/ Create(r)
           \/ Update(r) \/ ConfirmFinal(r)
    PROVE  Advances(r)
<1>1. \A commit : StagedPC(r, commit) \in {"obsolete", "confirmBase", "relist"}
  BY DEF StagedPC
<1>. USE DEF PublisherInv, RunState, At, Goto, Fail, Finish, Advances, Stage
<1>2. CASE Prepare(r) \/ ListOpen(r)
  BY <1>2 DEF Prepare, ListOpen
<1>3. CASE CheckBase(r, "obsolete", "relistObsolete") \/ CheckBase(r, "confirmBase", "confirmPR")
  BY <1>3 DEF CheckBase
<1>4. CASE RelistObsolete(r) \/ ConfirmClosed(r)
  BY <1>4 DEF RelistObsolete, ConfirmClosed
<1>5. CASE ClosePR(r)
  <2>1. run[r].pc = "close" /\ run'[r].pc \in {"waitClosed", "failed"}
    BY <1>5 DEF ClosePR
  <2>2. QED
    BY <2>1
<1>6. CASE ReadHead(r)
  <2>1. run[r].pc = "head"
        /\ run'[r].pc \in {"verify", "failed", "obsolete", "confirmBase", "relist"}
    BY <1>1, <1>6 DEF ReadHead
  <2>2. QED
    BY <2>1
<1>7. CASE VerifyHead(r)
  <2>1. run[r].pc = "verify" /\ run'[r].pc \in {"failed", "obsolete", "confirmBase", "relist"}
    BY <1>1, <1>7 DEF VerifyHead
  <2>2. QED
    BY <2>1
<1>8. CASE Relist(r) \/ Push(r) \/ CheckPushed(r) \/ ConfirmPR(r)
  BY <1>8 DEF Relist, Push, CheckPushed, ConfirmPR
<1>9. CASE Create(r) \/ Update(r) \/ ConfirmFinal(r)
  BY <1>9 DEF Create, Update, ConfirmFinal
<1>10. QED
  BY <1>2, <1>3, <1>4, <1>5, <1>6, <1>7, <1>8, <1>9

\* The polling loops
LEMMA LoopsAdvance ==
    ASSUME PublisherInv, NEW r \in Runs, WaitClosed(r) \/ Recover(r) \/ AwaitExact(r)
    PROVE  Advances(r)
<1>1. Active(r)
  BY DEF WaitClosed, Recover, AwaitExact, At, Active
<1>2. CASE PollAgain(r)
  BY <1>1, <1>2, PollAdvances
<1>3. CASE ~PollAgain(r)
  BY <1>3 DEF PublisherInv, RunState, WaitClosed, Recover, AwaitExact, At, Goto, Fail,
              Advances, Stage
<1>4. QED
  BY <1>2, <1>3

\* No run goes round in a circle, however the listing lags, whatever GitHub answers and people
\* do: all polling loops are bounded, and nothing leads back to an earlier place
\* (generated_data_pr.py:1053-1065, 1106-1150).
THEOREM EveryStepAdvances == Spec => RunAdvances
<1>1. ASSUME PublisherInv, NEW r \in Runs, Step(r) PROVE Advances(r)
  BY <1>1, ChecksAdvance, LoopsAdvance DEF Step
<1>2. ASSUME PublisherInv, NEW r \in Runs, Start(r) \/ Crash(r) PROVE Advances(r)
  <2>1. CASE Start(r)
    <3>1. run[r].pc = "idle"
      BY <2>1 DEF Start, At
    <3>2. PICK work \in Worktrees :
            run' = [run EXCEPT ![r].pc = "prepare", ![r].base = Main, ![r].work = work]
      BY <2>1 DEF Start
    <3>3. run'[r].pc = "prepare"
      BY <1>2, <3>2 DEF PublisherInv, RunState
    <3>4. QED
      BY <3>1, <3>3 DEF Advances, Stage
  <2>2. CASE Crash(r)
    <3>1. Active(r) /\ run'[r].pc = "failed"
      BY <2>2, <1>2 DEF PublisherInv, RunState, Crash, Fail, Goto
    <3>2. QED
      BY <3>1, <1>2, FailAdvances
  <2>3. QED
    BY <1>2, <2>1, <2>2
<1>3. ASSUME PublisherInv, Next, NEW r \in Runs, run'[r] # run[r] PROVE Advances(r)
  <2>1. PICK q \in Runs : Start(q) \/ Step(q) \/ Crash(q)
    BY <1>3 DEF Next, Index, People, AdvanceMain, MergePR, MarkReady, CloseByHand, Reopen,
                EditText, Retarget, OpenByHand, PushByHand, AmendByHand, DeleteBranch, Edit
  <2>2. q = r
    BY <1>3, <2>1, OthersStay
  <2>3. QED
    BY <1>1, <1>2, <1>3, <2>1, <2>2
<1>4. PublisherInv /\ [Next]_vars =>
        [\A r \in Runs : Step(r) \/ run'[r] # run[r] => Advances(r)]_vars
  BY <1>1, <1>3
<1>5. QED
  BY <1>4, Invariance, PTL DEF Spec, RunAdvances

-----------------------------------------------------------------------------
\* What a draft says about its head, when runs come one at a time
(***************************************************************************)
(* DraftDescribesItsHead needs the workflows' concurrency group: with two   *)
(* runs at once and a listing that lags behind, one run may confirm a draft *)
(* that the other is rewriting.  Under the group, what makes it true is     *)
(* that nothing of a run is to be seen before the run put it there.         *)
(***************************************************************************)

\* A run that has not pushed yet
Unpushed == {"idle", "prepare", "list", "head", "verify", "relist", "push"} \cup Closing
                \cup {"waitClosed", "confirmClosed"}
\* ... that has not yet written its text into a pull request
Textless == Unpushed \cup {"pushed", "confirmBase", "confirmPR", "create", "update"}
\* ... that waits for the listing to show what it wrote
Waiting == {"recover", "await", "confirmFinal"}
\* ... whose commit is the branch, pushed or reused
OnHead == {"pushed", "confirmBase", "confirmPR", "create", "update"} \cup Waiting

\* Nobody has a commit of a run that has not pushed.
NoCommitYet(r) ==
    /\ headRef # NoCommit => headRef.by # r
    /\ \A q \in Runs : run[q].head # NoCommit => run[q].head.by # r

\* No pull request has the text of a run that has not written one.
NoTextYet(r) == \A n \in PRNums : prs[n].text # r /\ listed[n].text # r

\* A listing that shows a run's text shows a head the pull request still has.
ListedIsCurrent(r) ==
    \A n \in PRNums : listed[n].text = r =>
        prs[n].text = r /\ prs[n].head = listed[n].head

\* The pull request that a run is about to report, or has reported
Confirmed(r) ==
    /\ run[r].num \in PRNums
    /\ prs[run[r].num].head = headRef
    /\ prs[run[r].num].text = r

Described(r) ==
    /\ run[r].num \in PRNums
    /\ headRef = run[r].head =>
         /\ prs[run[r].num].head = headRef
         /\ prs[run[r].num].text \in Runs
         /\ run[prs[run[r].num].text].head = headRef

RunDraft(r) ==
    /\ run[r].pc \in Unpushed => NoCommitYet(r)
    /\ run[r].pc \in Textless => NoTextYet(r)
    /\ run[r].pc \in OnHead => run[r].head = headRef
    /\ run[r].pc \in Waiting => ListedIsCurrent(r)
    /\ run[r].pc = "confirmFinal" => Confirmed(r)
    /\ run[r].status \in ReviewStatuses => run[r].pc = "done" /\ Described(r)

OneActive == \A q, r \in Runs : Active(q) /\ Active(r) => q = r

UnusedHeadless == \A n \in PRNums : prs[n].state = "none" => prs[n].head = NoCommit

DraftInv ==
    /\ OneActive
    /\ edits = 0 => UnusedHeadless /\ \A r \in Runs : RunDraft(r)

Alone(r) == \A q \in Runs : q # r => ~Active(q)

DraftOK == UnusedHeadless /\ \A r \in Runs : RunDraft(r)

\* What a step that writes nothing into a pull request may do to its run
Progress(r) ==
    /\ run'[r].pc \in Unpushed => run[r].pc \in Unpushed
    /\ run'[r].pc \in Textless => run[r].pc \in Textless
    /\ \/ run'[r].head = run[r].head
       \/ run'[r].head \in {NoCommit, headRef} /\ run[r].pc = "verify"
    /\ run'[r].pc \in OnHead => run'[r].head = headRef
    /\ run'[r].pc \in Waiting => run[r].pc \in Waiting \/ NoTextYet(r)
    /\ run'[r].pc = "confirmFinal" => run'[r].num = run[r].num /\ Confirmed(r)
    /\ run'[r].status \in ReviewStatuses =>
         /\ run'[r].pc = "done" /\ run'[r].num = run[r].num
         /\ run'[r].head = run[r].head /\ run[r].head = headRef /\ Confirmed(r)

\* Nobody else moves, and a run that is alone leaves at most itself active.
LEMMA AloneKeepsOne ==
    ASSUME NEW r \in Runs, Alone(r), \A q \in Runs : q # r => run'[q] = run[q]
    PROVE  OneActive'
  BY DEF Alone, OneActive, Active

\* A step that leaves heads and texts alone keeps the invariant.
LEMMA ReadingKeepsDraft ==
    ASSUME DraftOK, NEW r \in Runs, Alone(r), \A q \in Runs : q # r => run'[q] = run[q],
           headRef' = headRef, listed' = listed,
           \A n \in PRNums : /\ prs'[n].text = prs[n].text /\ prs'[n].head = prs[n].head
                             /\ prs'[n].state = "none" => prs[n].state = "none",
           Progress(r)
    PROVE  DraftOK'
<1>1. UnusedHeadless'
  BY DEF DraftOK, UnusedHeadless
<1>2. ASSUME NEW q \in Runs, NoCommitYet(q) PROVE NoCommitYet(q)'
  BY <1>2 DEF NoCommitYet, Progress
<1>3. ASSUME NEW q \in Runs, NoTextYet(q) PROVE NoTextYet(q)'
  BY <1>3 DEF NoTextYet
<1>4. ASSUME NEW q \in Runs, ListedIsCurrent(q) \/ NoTextYet(q) PROVE ListedIsCurrent(q)'
  BY <1>4 DEF ListedIsCurrent, NoTextYet
<1>5. RunDraft(r)'
  <2>1. RunDraft(r)
    BY DEF DraftOK
  <2>2. run'[r].pc = "confirmFinal" => Confirmed(r)'
    BY DEF Progress, Confirmed
  <2>3. run'[r].status \in ReviewStatuses => run'[r].pc = "done" /\ Described(r)'
    BY DEF Progress, Confirmed, Described
  <2>4. QED
    BY <1>2, <1>3, <1>4, <2>1, <2>2, <2>3 DEF Progress, RunDraft
<1>6. ASSUME NEW q \in Runs, q # r PROVE RunDraft(q)'
  <2>1. RunDraft(q) /\ RunDraft(r) /\ ~Active(q) /\ run'[q] = run[q]
    BY <1>6 DEF DraftOK, Alone
  <2>2. run[q].pc \notin OnHead /\ run[q].pc \notin Waiting
    BY <2>1 DEF Active, OnHead, Waiting
  <2>3. ASSUME Described(q) PROVE Described(q)'
    <3>1. ASSUME headRef = run[q].head, prs[run[q].num].text = r PROVE run'[r].head = run[r].head
      <4>1. run[r].pc \notin Textless
        BY <2>1, <2>3, <3>1 DEF RunDraft, NoTextYet, Described
      <4>2. QED
        BY <4>1 DEF Progress, Textless, Unpushed
    <3>2. QED
      BY <2>1, <2>3, <3>1 DEF Described
  <2>4. QED
    BY <1>2, <1>3, <2>1, <2>2, <2>3 DEF RunDraft, Waiting
<1>7. QED
  BY <1>1, <1>5, <1>6 DEF DraftOK

\* Writing its text into one pull request: Create and Update.
LEMMA WritingKeepsDraft ==
    ASSUME DraftOK, NEW r \in Runs, Alone(r), \A q \in Runs : q # r => run'[q] = run[q],
           headRef' = headRef, listed' = listed, run[r].pc \in {"create", "update"},
           run'[r].pc \in {"recover", "await"}, run'[r].head = run[r].head,
           run'[r].status = run[r].status,
           NEW n \in PRNums, prs'[n].text = r, \A m \in PRNums : m # n => prs'[m] = prs[m],
           \/ prs'[n].head = prs[n].head /\ prs'[n].state = prs[n].state
           \/ prs[n].state = "none" /\ headRef # NoCommit /\ prs'[n].state = "open"
    PROVE  DraftOK'
<1>1. UnusedHeadless'
  BY DEF DraftOK, UnusedHeadless
<1>2. /\ RunDraft(r) /\ run[r].pc \in Textless /\ run[r].pc \in OnHead
      /\ run'[r].pc \notin Textless /\ run'[r].pc \notin Unpushed
      /\ run'[r].pc \notin {"done", "confirmFinal"} /\ run[r].pc # "done"
  BY DEF DraftOK, Textless, Unpushed, Closing, OnHead
<1>3. NoTextYet(r) /\ run[r].head = headRef /\ run[r].status \notin ReviewStatuses
  BY <1>2 DEF RunDraft
<1>4. RunDraft(r)'
  <2>1. ListedIsCurrent(r)'
    BY <1>3 DEF ListedIsCurrent, NoTextYet
  <2>2. QED
    BY <1>2, <1>3, <2>1 DEF RunDraft
<1>5. ASSUME NEW q \in Runs, q # r PROVE RunDraft(q)'
  <2>1. RunDraft(q) /\ ~Active(q) /\ run'[q] = run[q]
    BY <1>5 DEF DraftOK, Alone
  <2>2. run[q].pc \notin OnHead /\ run[q].pc \notin Waiting /\ run[q].pc # "confirmFinal"
    BY <2>1 DEF Active, OnHead, Waiting
  <2>3. NoCommitYet(q) => NoCommitYet(q)'
    BY DEF NoCommitYet
  <2>4. NoTextYet(q) => NoTextYet(q)'
    BY <1>5 DEF NoTextYet
  <2>5. ASSUME Described(q) PROVE Described(q)'
    <3>1. ASSUME headRef = run[q].head
          PROVE  /\ prs'[run[q].num].head = headRef
                 /\ prs'[run[q].num].text \in Runs
                 /\ run'[prs'[run[q].num].text].head = headRef
      <4>1. run[q].num \in PRNums /\ prs[run[q].num].head = headRef
        BY <2>5, <3>1 DEF Described
      <4>2. CASE run[q].num = n
        BY <1>3, <4>1, <4>2 DEF DraftOK, UnusedHeadless
      <4>3. CASE run[q].num # n
        BY <2>5, <3>1, <4>1, <4>3 DEF Described
      <4>4. QED
        BY <4>2, <4>3
    <3>2. QED
      BY <2>1, <2>5, <3>1 DEF Described
  <2>6. QED
    BY <2>1, <2>2, <2>3, <2>4, <2>5 DEF RunDraft
<1>6. QED
  BY <1>1, <1>4, <1>5 DEF DraftOK

\* A push, which carries every open pull request along
LEMMA PushKeepsDraft ==
    ASSUME PublisherInv, DraftOK, NEW r \in Runs, Alone(r), Push(r),
           \A q \in Runs : q # r => run'[q] = run[q], LeaseHolds(r)
    PROVE  DraftOK'
<1> DEFINE commit == NewCommit(r)
<1>1. run[r] \in RunState /\ run[r].pc = "push" /\ RunDraft(r)
  BY DEF PublisherInv, Push, At, DraftOK
<1>2. commit \in Commit /\ commit # NoCommit /\ commit.by = r
  <2>1. run[r].base \in Nat /\ run[r].work \in Tree /\ r \in Author
    BY <1>1 DEF RunState, Author
  <2>2. commit \in Commit
    BY <2>1 DEF NewCommit, Commit
  <2>3. QED
    BY <2>2, NoCommitIsNoCommit DEF NewCommit
<1>3. /\ headRef' = commit /\ listed' = listed
      /\ run'[r].pc = "pushed" /\ run'[r].head = commit /\ run'[r].status = run[r].status
  BY <1>1 DEF Push, PublisherInv, RunState
<1>4. PICK refresh \in BOOLEAN : prs' = FollowHead(commit, refresh)
  BY DEF Push
<1>5. \A n \in PRNums : /\ prs'[n].text = prs[n].text /\ prs'[n].state = prs[n].state
                        /\ prs[n].state # "open" => prs'[n].head = prs[n].head
  <2>1. SUFFICES ASSUME NEW n \in PRNums
                 PROVE  /\ prs'[n].text = prs[n].text /\ prs'[n].state = prs[n].state
                        /\ prs[n].state # "open" => prs'[n].head = prs[n].head
    OBVIOUS
  <2>2. prs[n] \in PullRequest
    BY DEF PublisherInv, GitHubOK
  <2> HIDE DEF commit
  <2>3. QED
    BY <1>4, <2>2 DEF FollowHead, PullRequest
<1> HIDE DEF commit
<1>6. UnusedHeadless'
  BY <1>5 DEF DraftOK, UnusedHeadless
<1>7. NoCommitYet(r) /\ NoTextYet(r) /\ run[r].status \notin ReviewStatuses
  BY <1>1 DEF RunDraft, Unpushed, Textless
<1>8. ASSUME NEW q \in Runs, NoTextYet(q) PROVE NoTextYet(q)'
  BY <1>3, <1>5, <1>8 DEF NoTextYet
<1>9. RunDraft(r)'
  BY <1>3, <1>7, <1>8 DEF RunDraft, Unpushed, Closing, Waiting
<1>10. ASSUME NEW q \in Runs, q # r PROVE RunDraft(q)'
  <2>1. RunDraft(q) /\ ~Active(q) /\ run'[q] = run[q]
    BY <1>10 DEF DraftOK, Alone
  <2>2. run[q].pc \notin OnHead /\ run[q].pc \notin Waiting /\ run[q].pc # "confirmFinal"
    BY <2>1 DEF Active, OnHead, Waiting
  <2>3. NoCommitYet(q) => NoCommitYet(q)'
    BY <1>2, <1>3, <1>10 DEF NoCommitYet
  <2>4. headRef' # run[q].head
    BY <1>2, <1>3, <1>7 DEF NoCommitYet
  <2>5. Described(q) => Described(q)'
    BY <2>1, <2>4 DEF Described
  <2>6. QED
    BY <1>8, <2>1, <2>2, <2>3, <2>5 DEF RunDraft
<1>11. QED
  BY <1>6, <1>9, <1>10 DEF DraftOK

\* The list endpoint catching up
LEMMA IndexKeepsDraft ==
    ASSUME PublisherInv, DraftOK, NEW n \in PRNums, Index(n)
    PROVE  DraftOK'
<1>1. /\ headRef' = headRef /\ prs' = prs /\ run' = run
      /\ listed' = [listed EXCEPT ![n] = prs[n]] /\ listed \in [PRNums -> PullRequest]
  BY DEF Index, PublisherInv, GitHubOK
<1>2. \A m \in PRNums : listed'[m] = listed[m] \/ listed'[m] = prs[m]
  BY <1>1
<1>3. ASSUME NEW q \in Runs PROVE RunDraft(q)'
  <2>1. RunDraft(q)
    BY DEF DraftOK
  <2>2. NoCommitYet(q) => NoCommitYet(q)'
    BY <1>1 DEF NoCommitYet
  <2>3. NoTextYet(q) => NoTextYet(q)'
    BY <1>1, <1>2 DEF NoTextYet
  <2>4. ListedIsCurrent(q) => ListedIsCurrent(q)'
    BY <1>1, <1>2 DEF ListedIsCurrent
  <2>5. (Confirmed(q) => Confirmed(q)') /\ (Described(q) => Described(q)')
    BY <1>1 DEF Confirmed, Described
  <2>6. QED
    BY <1>1, <2>1, <2>2, <2>3, <2>4, <2>5 DEF RunDraft
<1>4. QED
  BY <1>1, <1>3 DEF DraftOK, UnusedHeadless

-----------------------------------------------------------------------------
\* The steps of a run

\* A step that changes neither the head nor the status of its run
LEMMA PlainProgress ==
    ASSUME NEW r \in Runs, RunDraft(r), run[r].pc \in PCs \ {"done"},
           run'[r].head = run[r].head, run'[r].status = run[r].status,
           run'[r].pc \in Unpushed => run[r].pc \in Unpushed,
           run'[r].pc \in Textless => run[r].pc \in Textless,
           run'[r].pc \in OnHead => run[r].pc \in OnHead,
           run'[r].pc \in Waiting => run[r].pc \in Waiting \/ NoTextYet(r),
           run'[r].pc = "confirmFinal" => run'[r].num = run[r].num /\ Confirmed(r)
    PROVE  Progress(r)
  BY DEF Progress, RunDraft

\* A failing step, and another attempt of a polling loop
LEMMA StoppedProgress ==
    ASSUME NEW r \in Runs, RunDraft(r), run \in [Runs -> RunState], run[r].pc # "done",
           Fail(r) \/ (PollAgain(r) /\ run[r].pc # "confirmFinal")
    PROVE  Progress(r)
<1>1. run[r] \in RunState
  OBVIOUS
<1>2. /\ run'[r].head = run[r].head /\ run'[r].status = run[r].status
      /\ run'[r].pc \in {run[r].pc, "failed"}
      /\ run'[r].pc = "confirmFinal" => run[r].pc = "confirmFinal" /\ Fail(r)
  BY <1>1 DEF Fail, Goto, PollAgain, RunState
<1>3. run'[r].pc # "confirmFinal"
  BY <1>1, <1>2 DEF Fail, Goto, RunState
<1>4. QED
  BY <1>1, <1>2, <1>3, PlainProgress DEF RunState, Unpushed, Textless, Waiting, OnHead, Closing

\* Going from one pc to a later one
LEMMA GoingProgress ==
    ASSUME NEW r \in Runs, RunDraft(r), run \in [Runs -> RunState], NEW pc \in PCs, Goto(r, pc),
           run[r].pc # "done", pc # "confirmFinal",
           pc \in Unpushed => run[r].pc \in Unpushed,
           pc \in Textless => run[r].pc \in Textless,
           pc \in OnHead => run[r].pc \in OnHead,
           pc \in Waiting => run[r].pc \in Waiting \/ NoTextYet(r)
    PROVE  Progress(r)
<1>1. run[r] \in RunState
  OBVIOUS
<1>2. run'[r].head = run[r].head /\ run'[r].status = run[r].status /\ run'[r].pc = pc
  BY <1>1 DEF Goto, RunState
<1>3. QED
  BY <1>1, <1>2, PlainProgress DEF RunState

\* Ending with a status that reports nothing for review
LEMMA EndingProgress ==
    ASSUME NEW r \in Runs, RunDraft(r), run \in [Runs -> RunState], run[r].pc # "done",
           NEW status \in Statuses \ ReviewStatuses, Finish(r, status)
    PROVE  Progress(r)
<1>1. run[r] \in RunState
  OBVIOUS
<1>2. run'[r].head = run[r].head /\ run'[r].status = status /\ run'[r].pc = "done"
  BY <1>1 DEF Finish, RunState
<1>3. QED
  BY <1>2 DEF Progress, Unpushed, Textless, Waiting, OnHead, Closing

\* The steps before the push that only read
LEMMA EarlyProgress ==
    ASSUME PublisherInv, NEW r \in Runs, RunDraft(r),
           \/ Prepare(r) \/ ListOpen(r) \/ CheckBase(r, "obsolete", "relistObsolete")
           \/ RelistObsolete(r) \/ WaitClosed(r) \/ ConfirmClosed(r) \/ Relist(r)
    PROVE  Progress(r)
<1> USE DEF Unpushed, Textless, Waiting, OnHead, Closing, PCs
<1>1. run \in [Runs -> RunState] /\ run[r] \in RunState
  BY DEF PublisherInv
<1>2. CASE Prepare(r)
  BY <1>1, <1>2, StoppedProgress, GoingProgress DEF Prepare, At
<1>3. CASE ListOpen(r)
  <2>1. CASE run' = [run EXCEPT ![r].pc = "head", ![r].seen = OpenPR]
    <3>1. /\ run'[r].head = run[r].head /\ run'[r].status = run[r].status
          /\ run'[r].pc = "head" /\ run[r].pc = "list"
      BY <1>1, <1>3, <2>1 DEF ListOpen, At, RunState
    <3>2. QED
      BY <3>1, PlainProgress
  <2>2. QED
    BY <1>1, <1>3, <2>1, StoppedProgress DEF ListOpen, At
<1>4. CASE CheckBase(r, "obsolete", "relistObsolete")
  BY <1>1, <1>4, StoppedProgress, GoingProgress DEF CheckBase, At
<1>5. CASE RelistObsolete(r)
  BY <1>1, <1>5, StoppedProgress, GoingProgress, EndingProgress
  DEF RelistObsolete, At, Statuses, ReviewStatuses
<1>6. CASE WaitClosed(r)
  BY <1>1, <1>6, StoppedProgress, GoingProgress DEF WaitClosed, At
<1>7. CASE ConfirmClosed(r)
  BY <1>1, <1>7, StoppedProgress, EndingProgress DEF ConfirmClosed, At, Statuses, ReviewStatuses
<1>8. CASE Relist(r)
  BY <1>1, <1>8, StoppedProgress, GoingProgress DEF Relist, At
<1>9. QED
  BY <1>2, <1>3, <1>4, <1>5, <1>6, <1>7, <1>8

\* Starting, and reading the branch: only a reused commit becomes the run's head.
LEMMA HeadProgress ==
    ASSUME PublisherInv, NEW r \in Runs, RunDraft(r), Start(r) \/ ReadHead(r) \/ VerifyHead(r)
    PROVE  Progress(r)
<1> USE DEF Unpushed, Textless, Waiting, OnHead, Closing, PCs
<1>1. run \in [Runs -> RunState] /\ run[r] \in RunState
  BY DEF PublisherInv
<1>2. CASE Start(r)
  <2>1. /\ run'[r].head = run[r].head /\ run'[r].status = run[r].status
        /\ run'[r].pc = "prepare" /\ run[r].pc = "idle"
    <3>1. PICK work \in Worktrees :
            run' = [run EXCEPT ![r].pc = "prepare", ![r].base = Main, ![r].work = work]
      BY <1>2 DEF Start
    <3>2. QED
      BY <1>1, <1>2, <3>1 DEF Start, At, RunState
  <2>2. QED
    BY <2>1, PlainProgress
<1>3. CASE ReadHead(r)
  <2>1. StagedPC(r, NoCommit) \in {"obsolete", "relist"}
    BY DEF StagedPC, Reusable
  <2>2. CASE Fail(r)
    BY <1>1, <1>3, <2>2, StoppedProgress DEF ReadHead, At
  <2>3. CASE ~Fail(r)
    <3>1. /\ run'[r].head = run[r].head /\ run'[r].status = run[r].status
          /\ run'[r].pc \in {"obsolete", "relist", "verify"} /\ run[r].pc = "head"
      BY <1>1, <1>3, <2>1, <2>3 DEF ReadHead, At, RunState
    <3>2. QED
      BY <3>1, PlainProgress
  <2>4. QED
    BY <2>2, <2>3
<1>4. CASE VerifyHead(r)
  <2>1. /\ StagedPC(r, headRef) \in {"obsolete", "relist", "confirmBase"}
        /\ StagedHead(r, headRef) \in {NoCommit, headRef}
        /\ StagedPC(r, headRef) = "confirmBase" => StagedHead(r, headRef) = headRef
    BY DEF StagedPC, StagedHead
  <2>2. CASE Fail(r)
    BY <1>1, <1>4, <2>2, StoppedProgress DEF VerifyHead, At
  <2>3. CASE ~Fail(r)
    <3>1. /\ run'[r].head = StagedHead(r, headRef) /\ run'[r].status = run[r].status
          /\ run'[r].pc = StagedPC(r, headRef) /\ run[r].pc = "verify"
      BY <1>1, <1>4, <2>3 DEF VerifyHead, At, RunState
    <3>2. run'[r].status \notin ReviewStatuses
      BY <3>1 DEF RunDraft
    <3>3. QED
      BY <2>1, <3>1, <3>2 DEF Progress
  <2>4. QED
    BY <2>2, <2>3
<1>5. QED
  BY <1>2, <1>3, <1>4

\* What AwaitExact accepts in the listing is what the pull request still is.
LEMMA ExactIsConfirmed ==
    ASSUME PublisherInv, NEW r \in Runs, RunDraft(r), At(r, "await"), ExactPR(r)
    PROVE  Confirmed(r)
<1>1. ListedIsCurrent(r) /\ run[r].head = headRef
  BY DEF At, RunDraft, Waiting, OnHead
<1>2. OpenNums(View) # {}
  BY DEF ExactPR, OpenPR
<1>3. PICK n \in OpenNums(View) : OpenPR = [num |-> n, pr |-> View[n]]
  BY <1>2 DEF OpenPR
<1>4. n \in PRNums /\ run[r].num = n /\ View[n].head = headRef /\ View[n].text = r
  BY <1>1, <1>3 DEF OpenNums, ExactPR
<1>5. QED
  BY <1>1, <1>4 DEF Confirmed, View, ListedIsCurrent

\* The steps after the push that only read
LEMMA LateProgress ==
    ASSUME PublisherInv, NEW r \in Runs, RunDraft(r),
           \/ CheckPushed(r) \/ CheckBase(r, "confirmBase", "confirmPR") \/ ConfirmPR(r)
           \/ Recover(r) \/ AwaitExact(r) \/ ConfirmFinal(r)
    PROVE  Progress(r)
<1> USE DEF Unpushed, Textless, Waiting, OnHead, Closing, PCs
<1>1. run \in [Runs -> RunState] /\ run[r] \in RunState
  BY DEF PublisherInv
<1>2. CASE CheckPushed(r)
  BY <1>1, <1>2, StoppedProgress, GoingProgress DEF CheckPushed, At
<1>3. CASE CheckBase(r, "confirmBase", "confirmPR")
  BY <1>1, <1>3, StoppedProgress, GoingProgress DEF CheckBase, At
<1>4. CASE ConfirmPR(r)
  <2>1. CASE run' = [run EXCEPT ![r].pc = "update", ![r].num = run[r].seen.num]
    <3>1. /\ run'[r].head = run[r].head /\ run'[r].status = run[r].status
          /\ run'[r].pc = "update" /\ run[r].pc = "confirmPR"
      BY <1>1, <1>4, <2>1 DEF ConfirmPR, At, RunState
    <3>2. QED
      BY <3>1, PlainProgress
  <2>2. QED
    BY <1>1, <1>4, <2>1, StoppedProgress, GoingProgress DEF ConfirmPR, At
<1>5. CASE Recover(r)
  <2>1. CASE run' = [run EXCEPT ![r].pc = "await", ![r].num = OpenPR.num, ![r].polls = 0]
    <3>1. /\ run'[r].head = run[r].head /\ run'[r].status = run[r].status
          /\ run'[r].pc = "await" /\ run[r].pc = "recover"
      BY <1>1, <1>5, <2>1 DEF Recover, At, RunState
    <3>2. QED
      BY <3>1, PlainProgress
  <2>2. QED
    BY <1>1, <1>5, <2>1, StoppedProgress DEF Recover, At
<1>6. CASE AwaitExact(r)
  <2>1. CASE ExactPR(r) /\ Goto(r, "confirmFinal")
    <3>1. /\ run'[r].head = run[r].head /\ run'[r].status = run[r].status
          /\ run'[r].num = run[r].num
          /\ run'[r].pc = "confirmFinal" /\ run[r].pc = "await"
      BY <1>1, <1>6, <2>1 DEF AwaitExact, Goto, At, RunState
    <3>2. Confirmed(r)
      BY <1>6, <2>1, ExactIsConfirmed DEF AwaitExact
    <3>3. QED
      BY <3>1, <3>2, PlainProgress
  <2>2. QED
    BY <1>1, <1>6, <2>1, StoppedProgress DEF AwaitExact, At
<1>7. CASE ConfirmFinal(r)
  <2>1. CASE Finish(r, ReviewStatus(r))
    <3>1. /\ run'[r].head = run[r].head /\ run'[r].num = run[r].num
          /\ run'[r].pc = "done" /\ run[r].pc = "confirmFinal"
      BY <1>1, <1>7, <2>1 DEF ConfirmFinal, Finish, At, RunState
    <3>2. Confirmed(r) /\ run[r].head = headRef
      BY <3>1 DEF RunDraft
    <3>3. QED
      BY <3>1, <3>2 DEF Progress
  <2>2. QED
    BY <1>1, <1>7, <2>1, StoppedProgress DEF ConfirmFinal, At
<1>8. QED
  BY <1>2, <1>3, <1>4, <1>5, <1>6, <1>7

\* Every step of the one active run keeps the invariant.
LEMMA RunKeepsDraft ==
    ASSUME PublisherInv, DraftOK, NEW r \in Runs, Alone(r), Start(r) \/ Step(r) \/ Crash(r)
    PROVE  DraftOK'
<1>1. run \in [Runs -> RunState] /\ run[r] \in RunState /\ RunDraft(r)
  BY DEF PublisherInv, DraftOK
<1>2. \A q \in Runs : q # r => run'[q] = run[q]
  BY OthersStay
<1>3. ASSUME headRef' = headRef, listed' = listed, prs' = prs, Progress(r) PROVE DraftOK'
  BY <1>2, <1>3, ReadingKeepsDraft
<1>4. ASSUME ReadOnly, Progress(r) PROVE DraftOK'
  BY <1>3, <1>4 DEF ReadOnly, github
<1>5. CASE Start(r) \/ ReadHead(r) \/ VerifyHead(r)
  BY <1>1, <1>4, <1>5, HeadProgress DEF Start, ReadHead, VerifyHead
<1>6. CASE \/ Prepare(r) \/ ListOpen(r) \/ CheckBase(r, "obsolete", "relistObsolete")
           \/ RelistObsolete(r) \/ WaitClosed(r) \/ ConfirmClosed(r) \/ Relist(r)
  BY <1>1, <1>4, <1>6, EarlyProgress
  DEF Prepare, ListOpen, CheckBase, RelistObsolete, WaitClosed, ConfirmClosed, Relist
<1>7. CASE \/ CheckPushed(r) \/ CheckBase(r, "confirmBase", "confirmPR") \/ ConfirmPR(r)
           \/ Recover(r) \/ AwaitExact(r) \/ ConfirmFinal(r)
  BY <1>1, <1>4, <1>7, LateProgress
  DEF CheckPushed, CheckBase, ConfirmPR, Recover, AwaitExact, ConfirmFinal
<1>8. CASE Crash(r)
  <2>1. Progress(r)
    BY <1>1, <1>8, StoppedProgress DEF Crash, Active
  <2>2. QED
    BY <1>3, <1>8, <2>1 DEF Crash, github
<1>9. CASE ClosePR(r)
  <2> DEFINE n == run[r].seen.num
             closed == [prs[n] EXCEPT !.state = IF @ = "open" THEN "closed" ELSE @]
  <2>1. /\ prs' = [prs EXCEPT ![n] = closed] /\ headRef' = headRef /\ listed' = listed
        /\ Fail(r) \/ Goto(r, "waitClosed")
        /\ run[r].pc = "close"
    BY <1>9 DEF ClosePR, remoteRefs, At
  <2>2. Progress(r)
    BY <1>1, <2>1, StoppedProgress, GoingProgress
    DEF Unpushed, Textless, Waiting, OnHead, Closing, PCs
  <2>3. ASSUME NEW m \in PRNums
        PROVE  /\ prs'[m].text = prs[m].text /\ prs'[m].head = prs[m].head
               /\ prs'[m].state = "none" => prs[m].state = "none"
    <3>1. prs \in [PRNums -> PullRequest] /\ prs[m] \in PullRequest
      BY DEF PublisherInv, GitHubOK
    <3>2. prs'[m] = IF m = n THEN closed ELSE prs[m]
      BY <2>1, <3>1
    <3>3. QED
      BY <3>1, <3>2 DEF PullRequest
  <2> HIDE DEF closed, n
  <2>4. QED
    BY <1>2, <2>1, <2>2, <2>3, ReadingKeepsDraft
<1>10. CASE Push(r)
  <2>1. CASE LeaseHolds(r)
    BY <1>2, <1>10, <2>1, PushKeepsDraft
  <2>2. CASE ~LeaseHolds(r)
    <3>1. /\ headRef' = headRef /\ listed' = listed /\ prs' = prs
          /\ Fail(r) /\ run[r].pc = "push"
      BY <1>10, <2>2 DEF Push, At
    <3>2. QED
      BY <1>1, <1>3, <3>1, StoppedProgress
  <2>3. QED
    BY <2>1, <2>2
<1>11. CASE Create(r)
  <2>1. run[r].pc = "create" /\ NoTextYet(r) /\ headRef' = headRef /\ listed' = listed
    BY <1>1, <1>11 DEF Create, At, remoteRefs, RunDraft, Textless
  <2>2. CASE prs' = prs /\ Goto(r, "recover")
    <3>1. Progress(r)
      BY <1>1, <2>1, <2>2, GoingProgress DEF Unpushed, Textless, Waiting, OnHead, Closing, PCs
    <3>2. QED
      BY <1>3, <2>1, <2>2, <3>1
  <2>3. ASSUME CanCreate, NEW n \in PRNums, prs[n].state = "none",
               prs' = [prs EXCEPT ![n] = NewPR(r)],
               Goto(r, "recover") \/ run' = [run EXCEPT ![r].pc = "await", ![r].num = n]
        PROVE  DraftOK'
    <3>1. /\ run'[r].pc \in {"recover", "await"} /\ run'[r].head = run[r].head
          /\ run'[r].status = run[r].status
      BY <1>1, <2>3 DEF Goto, RunState
    <3>2. prs'[n] = NewPR(r) /\ \A m \in PRNums : m # n => prs'[m] = prs[m]
      BY <2>3 DEF PublisherInv, GitHubOK
    <3>3. prs'[n].text = r /\ prs'[n].state = "open" /\ headRef # NoCommit
      BY <2>3, <3>2 DEF NewPR, CanCreate
    <3>4. QED
      BY <1>2, <2>1, <2>3, <3>1, <3>2, <3>3, WritingKeepsDraft
  <2>4. QED
    BY <1>11, <2>2, <2>3 DEF Create
<1>12. CASE Update(r)
  <2>1. /\ run[r].pc = "update" /\ NoTextYet(r) /\ headRef' = headRef /\ listed' = listed
        /\ Goto(r, "await")
        /\ prs' = [prs EXCEPT ![run[r].num].text = r, ![run[r].num].marker = TRUE]
    BY <1>1, <1>12 DEF Update, At, remoteRefs, RunDraft, Textless
  <2>2. CASE run[r].num \notin PRNums
    <3>1. prs' = prs
      BY <2>1, <2>2 DEF PublisherInv, GitHubOK
    <3>2. Progress(r)
      BY <1>1, <2>1, GoingProgress DEF Unpushed, Textless, Waiting, OnHead, Closing, PCs
    <3>3. QED
      BY <1>3, <2>1, <3>1, <3>2
  <2>3. CASE run[r].num \in PRNums
    <3>1. PICK n \in PRNums : n = run[r].num
      BY <2>3
    <3>2. prs \in [PRNums -> PullRequest] /\ prs[n] \in PullRequest
      BY DEF PublisherInv, GitHubOK
    <3>3. /\ prs'[n].text = r /\ prs'[n].head = prs[n].head /\ prs'[n].state = prs[n].state
          /\ \A m \in PRNums : m # n => prs'[m] = prs[m]
      BY <2>1, <3>1, <3>2 DEF PullRequest
    <3>4. /\ run'[r].pc = "await" /\ run'[r].head = run[r].head
          /\ run'[r].status = run[r].status
      BY <1>1, <2>1 DEF Goto, RunState
    <3>5. QED
      BY <1>2, <2>1, <3>3, <3>4, WritingKeepsDraft
  <2>4. QED
    BY <2>2, <2>3
<1>13. QED
  BY <1>5, <1>6, <1>7, <1>8, <1>9, <1>10, <1>11, <1>12 DEF Step

-----------------------------------------------------------------------------
\* Runs one at a time

\* Under the concurrency group a run starts only when no other is active.
LEMMA StartsAlone ==
    ASSUME MaxActive = 1, OneActive, NEW r \in Runs, Start(r)
    PROVE  Alone(r)
<1> DEFINE actives == {q \in Runs : Active(q)}
<1>1. ASSUME NEW q \in Runs, Active(q) PROVE FALSE
  <2>1. actives = {q}
    BY <1>1 DEF OneActive
  <2>2. Cardinality(actives) = 1
    BY <2>1, FS_Singleton
  <2>3. Cardinality(actives) < 1
    BY DEF Start
  <2> HIDE DEF actives
  <2>4. QED
    BY <2>2, <2>3
<1>2. QED
  BY <1>1 DEF Alone

LEMMA InitDescribed == ASSUME Init PROVE DraftInv
<1>1. PICK tree \in BaseTrees :
        /\ history = <<tree>>
        /\ \/ InitFresh(tree)
           \/ \E s \in Runs, n \in PRNums, seed \in Seeds : InitSeeded(tree, s, n, seed)
  BY DEF Init
<1>2. /\ Idle(tree).pc = "idle" /\ Idle(tree).head = NoCommit /\ Idle(tree).status = ""
      /\ Unused.text = 0 /\ Unused.head = NoCommit /\ Unused.state = "none" /\ 0 \notin Runs
  BY PublisherConstants DEF Idle, Unused
<1>3. listed = prs
  BY DEF Init
<1>4. CASE InitFresh(tree)
  <2>1. /\ headRef = NoCommit /\ \A n \in PRNums : prs[n] = Unused
        /\ \A r \in Runs : run[r] = Idle(tree)
    BY <1>4 DEF InitFresh
  <2>2. OneActive /\ UnusedHeadless
    BY <1>2, <2>1 DEF OneActive, Active, UnusedHeadless
  <2>3. ASSUME NEW r \in Runs PROVE RunDraft(r)
    <3>1. NoCommitYet(r) /\ NoTextYet(r)
      BY <1>2, <1>3, <2>1 DEF NoCommitYet, NoTextYet
    <3>2. run[r].pc = "idle" /\ run[r].status \notin ReviewStatuses
      BY <1>2, <2>1 DEF ReviewStatuses
    <3>3. QED
      BY <3>1, <3>2 DEF RunDraft, Waiting, OnHead
  <2>4. QED
    BY <2>2, <2>3 DEF DraftInv
<1>5. ASSUME NEW s \in Runs, NEW n \in PRNums, NEW seed \in Seeds, InitSeeded(tree, s, n, seed)
      PROVE  DraftInv
  <2> DEFINE commit == [base |-> 1, tree |-> seed, owned |-> TRUE, by |-> s]
  <2>1. /\ headRef = commit /\ headRef.by = s
        /\ \A m \in PRNums : m # n => prs[m] = Unused
        /\ prs[n].state = "open" /\ prs[n].text = s /\ prs[n].head = commit
        /\ \A r \in Runs : r # s => run[r] = Idle(tree)
        /\ run[s].pc = "done" /\ run[s].head = commit /\ run[s].num = n
    BY <1>5 DEF InitSeeded
  <2> HIDE DEF commit
  <2>2. OneActive /\ UnusedHeadless
    BY <1>2, <2>1 DEF OneActive, Active, UnusedHeadless
  <2>3. RunDraft(s)
    BY <2>1 DEF RunDraft, Described, Unpushed, Textless, Waiting, OnHead, Closing
  <2>4. ASSUME NEW r \in Runs, r # s PROVE RunDraft(r)
    <3>1. NoCommitYet(r)
      BY <1>2, <2>1, <2>4 DEF NoCommitYet
    <3>2. NoTextYet(r)
      BY <1>2, <1>3, <2>1, <2>4 DEF NoTextYet
    <3>3. run[r].pc = "idle" /\ run[r].status \notin ReviewStatuses
      BY <1>2, <2>1, <2>4 DEF ReviewStatuses
    <3>4. QED
      BY <3>1, <3>2, <3>3 DEF RunDraft, Waiting, OnHead
  <2>5. QED
    BY <2>2, <2>3, <2>4 DEF DraftInv
<1>6. QED
  BY <1>1, <1>4, <1>5

LEMMA NextDescribed ==
    ASSUME MaxActive = 1, PublisherInv, DraftInv, [Next]_vars
    PROVE  DraftInv'
<1>1. ASSUME NEW r \in Runs, Start(r) \/ Step(r) \/ Crash(r)
      PROVE  DraftInv'
  <2>1. Alone(r)
    <3>1. ASSUME Active(r) PROVE Alone(r)
      BY <3>1 DEF DraftInv, OneActive, Alone
    <3>2. Step(r) \/ Crash(r) => Active(r)
      BY DEF Step, Crash, Active, At, Prepare, ListOpen, ReadHead, VerifyHead, CheckBase,
             RelistObsolete, ClosePR, WaitClosed, ConfirmClosed, Relist, Push, CheckPushed,
             ConfirmPR, Create, Recover, Update, AwaitExact, ConfirmFinal
    <3>3. QED
      BY <1>1, <3>1, <3>2, StartsAlone DEF DraftInv
  <2>2. OneActive'
    BY <1>1, <2>1, OthersStay, AloneKeepsOne
  <2>3. edits' = edits
    BY <1>1 DEF Start, Step, Crash, ReadOnly, Prepare, ListOpen, ReadHead, VerifyHead, CheckBase,
             RelistObsolete, ClosePR, WaitClosed, ConfirmClosed, Relist, Push, CheckPushed,
             ConfirmPR, Create, Recover, Update, AwaitExact, ConfirmFinal
  <2>4. edits = 0 => DraftOK'
    BY <1>1, <2>1, RunKeepsDraft DEF DraftInv, DraftOK
  <2>5. QED
    BY <2>2, <2>3, <2>4 DEF DraftInv, DraftOK
<1>2. ASSUME NEW n \in PRNums, Index(n)
      PROVE  DraftInv'
  <2>1. run' = run /\ edits' = edits
    BY <1>2 DEF Index
  <2>2. OneActive'
    BY <2>1 DEF DraftInv, OneActive, Active
  <2>3. edits = 0 => DraftOK'
    BY <1>2, IndexKeepsDraft DEF DraftInv, DraftOK
  <2>4. QED
    BY <2>1, <2>2, <2>3 DEF DraftInv, DraftOK
<1>3. CASE People
  <2>1. run' = run /\ edits' = edits + 1
    BY <1>3 DEF People, AdvanceMain, MergePR, MarkReady, CloseByHand, Reopen, EditText,
                Retarget, OpenByHand, PushByHand, AmendByHand, DeleteBranch, Edit
  <2>2. OneActive'
    BY <2>1 DEF DraftInv, OneActive, Active
  <2>3. edits' # 0
    BY <2>1 DEF PublisherInv, GitHubOK
  <2>4. QED
    BY <2>2, <2>3 DEF DraftInv
<1>4. CASE UNCHANGED vars
  BY <1>4 DEF vars, DraftInv, OneActive, Active, UnusedHeadless, RunDraft, NoCommitYet,
              NoTextYet, ListedIsCurrent, Confirmed, Described
<1>5. QED
  BY <1>1, <1>2, <1>3, <1>4 DEF Next

\* When the workflows' concurrency group lets one run work at a time, a draft that a run
\* reported keeps describing the commit it offers, through every later run, lost answer,
\* crash and lagging listing, as long as the reported commit is still the branch and
\* nobody edited the repository by hand.
THEOREM DraftDescribed == ASSUME MaxActive = 1 PROVE Spec => []DraftDescribesItsHead
<1>1. Init => DraftInv
  BY InitDescribed
<1>2. PublisherInv /\ DraftInv /\ [Next]_vars => DraftInv'
  BY NextDescribed
<1>3. DraftInv => DraftDescribesItsHead
  BY DEF DraftInv, RunDraft, Described, DraftDescribesItsHead
<1>4. QED
  BY <1>1, <1>2, <1>3, Invariance, PTL DEF Spec
-----------------------------------------------------------------------------
\* Reruns of one candidate
(***************************************************************************)
(* Where nobody edits, the listing is current and runs come one at a time,  *)
(* a run can fail for two reasons only: a fault, or a refresh that changed  *)
(* the head of a draft it had seen.  The second leaves the candidate on the *)
(* branch, where every later run finds it; so it can happen only once, and  *)
(* only if a draft of something else was there in the beginning.            *)
(***************************************************************************)

Undisturbed == MaxActive = 1 /\ MaxEdits = 0 /\ ~StaleListing

\* Every run has the same candidate, which the base admits.
OneCandidate ==
    /\ \A v, w \in Worktrees : v = w
    /\ \A tree \in BaseTrees, work \in Worktrees : CandidateOK(tree, work)

\* Runs for each fault, for an earlier run and the refresh of its draft, and one more
EnoughRuns ==
    /\ IsFiniteSet(Runs) /\ PRNums # {}
    /\ Cardinality(Runs) > MaxFaults + (IF Seeds = {} THEN 0 ELSE 2)

RepositoryRests == edits = 0 /\ Len(history) = 1 /\ history[1] \in BaseTrees

\* A draft is closed only where there is nothing to publish.
DraftsFit ==
    /\ \A n \in PRNums : prs[n].state = "open" =>
         /\ prs[n].target /\ prs[n].marker /\ prs[n].draft
         /\ prs[n].author \in Runs /\ prs[n].base = 1 /\ prs[n].head = headRef
    /\ \A m, n \in PRNums : prs[m].state = "open" /\ prs[n].state = "open" => m = n
    /\ \A n \in PRNums : prs[n].state \notin {"none", "open"} =>
         \A work \in Worktrees : Changed(history[1], work) = {}

\* Without earlier drafts the branch holds the candidate.
BranchFits ==
    headRef # NoCommit =>
        /\ headRef.owned /\ headRef.base = 1
        /\ Seeds = {} => headRef.tree \in Worktrees

BeforeWrite == {"head", "verify", "relist", "push"} \cup Closing
Publishing == {"relist", "push"} \cup OnHead

\* What a run in state s knows of GitHub is so.
OnCourse(r, s) ==
    /\ s.pc \notin {"idle", "done", "failed"} => s.base = 1 /\ s.work \in Worktrees
    /\ s.pc \in BeforeWrite => s.seen = OpenPR
    /\ s.pc \in {"verify", "relist", "push"} => s.remote = headRef
    /\ s.pc \in OnHead \cup {"verify"} => headRef # NoCommit
    /\ s.pc \in Publishing => Changed(history[1], s.work) # {}
    /\ s.pc \in {"relist", "push"} /\ headRef # NoCommit => headRef.tree # s.work
    /\ s.pc \in {"waitClosed", "create"} => OpenPR = NoPR
    /\ s.pc \in {"update", "await"} => OpenPR # NoPR /\ s.num = OpenPR.num
    /\ s.pc \in {"recover", "await"} =>
         \A n \in PRNums : prs[n].state = "open" => prs[n].text = r

\* It is going to fail: its create call was refused, or it has moved the draft it saw.
Doomed(s) ==
    \/ s.pc = "recover" /\ OpenPR = NoPR
    \/ s.pc \in {"pushed", "confirmBase", "confirmPR"} /\ s.seen # OpenPR

Lost(s) == s.pc = "failed" \/ Doomed(s)
Losses == {r \in Runs : Lost(run[r])}

\* The draft of something else has been refreshed.
DraftRefreshed == Seeds # {} /\ headRef # NoCommit /\ headRef.tree \in Worktrees
Allowance == IF DraftRefreshed THEN faults + 1 ELSE faults

\* Only an earlier run has reported something else.
OneEarlier ==
    \A r \in Runs : run[r].pc = "done" /\ run[r].work \notin Worktrees =>
        /\ Seeds # {}
        /\ \A q \in Runs : run[q].pc = "done" /\ run[q].work \notin Worktrees => q = r

HealInv ==
    /\ RepositoryRests /\ DraftsFit /\ BranchFits
    /\ \A r \in Runs : OnCourse(r, run[r])
    /\ OneEarlier
    /\ faults <= MaxFaults
    /\ Cardinality(Losses) <= Allowance

\* What all the lemmas below assume
Healing == PublisherInv /\ DraftInv /\ HealInv /\ Undisturbed /\ OneCandidate /\ EnoughRuns

\* What a listing shows when at most one pull request is open
Shown(view) ==
    IF OpenNums(view) = {} THEN NoPR
    ELSE LET n == CHOOSE m \in OpenNums(view) : TRUE IN [num |-> n, pr |-> view[n]]

LEMMA OneIsShown ==
    ASSUME NEW view \in [PRNums -> PullRequest],
           \A m, n \in PRNums : view[m].state = "open" /\ view[n].state = "open" => m = n
    PROVE  /\ Shown(view) = NoPR <=> \A n \in PRNums : view[n].state # "open"
           /\ \A n \in PRNums : view[n].state = "open" => Shown(view) = [num |-> n, pr |-> view[n]]
<1>1. CASE OpenNums(view) = {}
  BY <1>1 DEF Shown, OpenNums
<1>2. ASSUME NEW n \in PRNums, view[n].state = "open"
      PROVE  Shown(view) = [num |-> n, pr |-> view[n]] /\ Shown(view) # NoPR
  <2>1. OpenNums(view) = {n}
    BY <1>2 DEF OpenNums
  <2>2. (CHOOSE m \in OpenNums(view) : TRUE) = n
    BY <2>1
  <2>3. Shown(view) = [num |-> n, pr |-> view[n]]
    BY <2>1, <2>2 DEF Shown
  <2>4. QED
    BY <2>3, NoPRIsNoSnapshot
<1>3. QED
  BY <1>1, <1>2 DEF OpenNums

\* Where the listing is current it shows the one open pull request.
LEMMA OpenIsUnique ==
    ASSUME Healing
    PROVE  /\ OpenPR = Shown(prs)
           /\ OpenPR = NoPR <=> \A n \in PRNums : prs[n].state # "open"
           /\ \A n \in PRNums : prs[n].state = "open" => OpenPR = [num |-> n, pr |-> prs[n]]
<1>1. OpenPR = Shown(prs)
  BY DEF Healing, Undisturbed, View, OpenPR, Shown
<1>2. /\ prs \in [PRNums -> PullRequest]
      /\ \A m, n \in PRNums : prs[m].state = "open" /\ prs[n].state = "open" => m = n
  BY DEF Healing, PublisherInv, GitHubOK, HealInv, DraftsFit
<1>3. QED
  BY <1>1, <1>2, OneIsShown

\* A run at work finds the base as it was and every open pull request owned.
LEMMA AtWork ==
    ASSUME Healing, NEW r \in Runs, Active(r)
    PROVE  /\ run[r] \in RunState /\ run[r].base = 1 /\ run[r].work \in Worktrees
           /\ CandidateOK(history[1], run[r].work)
           /\ BaseUnchanged(r) /\ ListingOK(r)
<1>1. run[r] \in RunState /\ run[r].base = 1 /\ run[r].work \in Worktrees
  BY DEF Healing, PublisherInv, HealInv, OnCourse, Active
<1>2. CandidateOK(history[1], run[r].work) /\ BaseUnchanged(r)
  BY <1>1 DEF Healing, HealInv, RepositoryRests, OneCandidate, BaseUnchanged, Main
<1>3. ListingOK(r)
  <2>1. View = prs /\ DraftsFit /\ OpenNums(View) \subseteq PRNums
    BY DEF Healing, Undisturbed, View, HealInv, OpenNums
  <2>2. \A n \in OpenNums(View) : Owned(r, View[n])
    BY <1>1, <2>1 DEF OpenNums, Owned, DraftsFit
  <2>3. CASE OpenNums(View) = {}
    BY <2>2, <2>3, FS_EmptySet DEF ListingOK
  <2>4. ASSUME NEW n \in OpenNums(View) PROVE ListingOK(r)
    <3>1. OpenNums(View) = {n}
      BY <2>1, <2>4 DEF OpenNums, DraftsFit
    <3>2. Cardinality(OpenNums(View)) = 1
      BY <3>1, FS_Singleton
    <3>3. QED
      BY <2>2, <3>2 DEF ListingOK
  <2>5. QED
    BY <2>3, <2>4
<1>4. QED
  BY <1>1, <1>2, <1>3

LEMMA OneMore ==
    \A m, n \in Nat : /\ m + 1 \in Nat
                      /\ m <= n => m < n + 1
                      /\ m < n => m + 1 < n + 1
  OBVIOUS

\* The others are idle or have ended, so what r does to GitHub is nothing to them.
LEMMA RunMoves ==
    ASSUME Healing, NEW r \in Runs, Alone(r), run[r].pc \notin {"done", "failed"},
           \A q \in Runs : q # r => run'[q] = run[q],
           RepositoryRests', DraftsFit', BranchFits', OnCourse(r, run[r])',
           run'[r].pc = "done" => run'[r].work \in Worktrees,
           faults' \in faults..MaxFaults,
           DraftRefreshed => DraftRefreshed',
           Lost(run[r])' => \/ Lost(run[r]) \/ faults < faults'
                            \/ DraftRefreshed' /\ ~DraftRefreshed
    PROVE  HealInv'
<1>1. ASSUME NEW q \in Runs, q # r
      PROVE  OnCourse(q, run[q])' /\ (Lost(run[q])' <=> Lost(run[q]))
  <2>1. run'[q] = run[q] /\ run[q].pc \in {"idle", "done", "failed"}
    BY <1>1 DEF Alone, Active
  <2>2. QED
    BY <2>1 DEF OnCourse, Lost, Doomed, BeforeWrite, Publishing, OnHead, Waiting, Closing
<1>0. faults \in Nat /\ faults' \in Nat /\ faults <= faults' /\ faults' <= MaxFaults
  BY PublisherConstants DEF Healing, PublisherInv, GitHubOK
<1>2. OneEarlier'
  <2>1. \A q \in Runs : run'[q].pc = "done" /\ run'[q].work \notin Worktrees =>
          run[q].pc = "done" /\ run[q].work \notin Worktrees
    OBVIOUS
  <2>2. QED
    BY <2>1 DEF OneEarlier, Healing, HealInv
<1>3. Cardinality(Losses') <= Allowance'
  <2>1. Losses' \subseteq Losses \cup {r} /\ (r \notin Losses' => Losses' \subseteq Losses)
    BY <1>1 DEF Losses
  <2>2. IsFiniteSet(Losses)
    BY FS_Subset DEF Losses, Healing, EnoughRuns
  <2>3. Cardinality(Losses) \in Nat /\ Cardinality(Losses \cup {r}) <= Cardinality(Losses) + 1
    <3>1. Cardinality(Losses) \in Nat
      BY <2>2, FS_CardinalityType
    <3>2. Cardinality(Losses \cup {r}) \in {Cardinality(Losses), Cardinality(Losses) + 1}
      BY <2>2, FS_AddElement
    <3>3. QED
      BY <3>1, <3>2
  <2>4. /\ Cardinality(Losses) <= Allowance
        /\ faults \in Nat /\ faults' \in Nat /\ faults <= faults'
    BY <1>0 DEF Healing, HealInv
  <2>5. CASE Losses' \subseteq Losses
    <3>1. Cardinality(Losses') \in Nat /\ Cardinality(Losses') <= Cardinality(Losses)
      BY <2>2, <2>5, FS_Subset, FS_CardinalityType
    <3>2. QED
      BY <2>3, <2>4, <3>1 DEF Allowance
  <2>6. CASE ~(Losses' \subseteq Losses)
    <3>1. Lost(run[r])' /\ ~Lost(run[r])
      BY <1>1, <2>6 DEF Losses
    <3>2. IsFiniteSet(Losses \cup {r})
      BY <2>2, FS_AddElement
    <3>3. Cardinality(Losses') \in Nat /\ Cardinality(Losses') <= Cardinality(Losses \cup {r})
      BY <2>1, <3>2, FS_Subset, FS_CardinalityType
    <3>4. Cardinality(Losses \cup {r}) \in Nat
      BY <3>2, FS_CardinalityType
    <3>5. Allowance < Allowance' /\ Allowance \in Nat /\ Allowance' \in Nat
      <4>1. /\ DraftRefreshed => Allowance = faults + 1
            /\ ~DraftRefreshed => Allowance = faults
            /\ DraftRefreshed' => Allowance' = faults' + 1
            /\ ~DraftRefreshed' => Allowance' = faults'
        BY DEF Allowance
      <4>2. CASE DraftRefreshed
        <5>1. faults < faults' /\ DraftRefreshed'
          BY <3>1, <4>2
        <5>2. Allowance = faults + 1 /\ Allowance' = faults' + 1
          BY <4>1, <4>2, <5>1
        <5>3. faults + 1 < faults' + 1 /\ faults + 1 \in Nat /\ faults' + 1 \in Nat
          BY <1>0, <5>1, OneMore
        <5>4. QED
          BY <5>2, <5>3
      <4>3. CASE ~DraftRefreshed /\ DraftRefreshed'
        <5>1. Allowance = faults /\ Allowance' = faults' + 1
          BY <4>1, <4>3
        <5>2. faults < faults' + 1 /\ faults' + 1 \in Nat
          BY <1>0, OneMore
        <5>3. QED
          BY <1>0, <5>1, <5>2
      <4>4. CASE ~DraftRefreshed /\ ~DraftRefreshed'
        <5>1. faults < faults'
          BY <3>1, <4>4
        <5>2. QED
          BY <2>4, <4>1, <4>4, <5>1
      <4>5. QED
        BY <4>2, <4>3, <4>4
    <3>6. QED
      BY <2>3, <2>4, <3>3, <3>4, <3>5
  <2>7. QED
    BY <2>5, <2>6
<1>4. QED
  BY <1>0, <1>1, <1>2, <1>3 DEF HealInv

-----------------------------------------------------------------------------
\* Steps that only read

KeepsCourse(r) ==
    /\ OnCourse(r, run'[r])
    /\ run'[r].pc = "done" => run'[r].work \in Worktrees
    /\ Lost(run'[r]) => Lost(run[r])

LEMMA ReadingHeals ==
    ASSUME Healing, NEW r \in Runs, Alone(r), run[r].pc \notin {"done", "failed"},
           \A q \in Runs : q # r => run'[q] = run[q], ReadOnly, KeepsCourse(r)
    PROVE  HealInv'
<1>1. /\ history' = history /\ headRef' = headRef /\ prs' = prs /\ listed' = listed
      /\ edits' = edits /\ faults' = faults
  BY DEF ReadOnly, github
<1>2. RepositoryRests' /\ DraftsFit' /\ BranchFits'
  BY <1>1 DEF Healing, HealInv, RepositoryRests, DraftsFit, BranchFits
<1>3. OpenPR' = OpenPR
  BY <1>1 DEF OpenPR, OpenNums, View
<1>4. OnCourse(r, run[r])' /\ (Lost(run[r])' => Lost(run[r]))
  BY <1>1, <1>3 DEF KeepsCourse, OnCourse, Lost, Doomed
<1>5. DraftRefreshed' = DraftRefreshed
  BY <1>1 DEF DraftRefreshed
<1>6. faults \in Nat /\ faults <= MaxFaults /\ MaxFaults \in Nat
  BY PublisherConstants DEF Healing, HealInv, PublisherInv, GitHubOK
<1>7. QED
  BY <1>1, <1>2, <1>4, <1>5, <1>6, RunMoves DEF KeepsCourse

\* What follows from the types for every action below
LEMMA HealingTypes ==
    ASSUME Healing, NEW r \in Runs
    PROVE  /\ run \in [Runs -> RunState] /\ run[r] \in RunState /\ RunOK(run[r])
           /\ prs \in [PRNums -> PullRequest] /\ headRef \in Commit \cup {NoCommit}
           /\ OnCourse(r, run[r])
           /\ run[r].pc \in OnHead => run[r].head = headRef
  BY DEF Healing, PublisherInv, GitHubOK, HealInv, RepositoryRests, DraftInv, RunDraft

\* Going on where nothing more is asked of the run
LEMMA GoingKeepsCourse ==
    ASSUME Healing, NEW r \in Runs, Active(r), ~Lost(run[r]), NEW pc \in PCs, Goto(r, pc),
           pc \in BeforeWrite => run[r].pc \in BeforeWrite,
           pc \notin {"idle", "done", "failed", "verify", "recover", "await", "update"},
           pc \in {"relist", "push"} => run[r].pc \in {"relist", "push"},
           pc \in OnHead => run[r].pc \in OnHead,
           pc \in {"waitClosed", "create"} => OpenPR = NoPR,
           pc \in {"pushed", "confirmBase", "confirmPR"} => run[r].seen = OpenPR
    PROVE  KeepsCourse(r)
<1>1. run[r] \in RunState /\ OnCourse(r, run[r]) /\ run \in [Runs -> RunState]
  BY HealingTypes
<1>2. /\ run'[r].pc = pc /\ run'[r].seen = run[r].seen /\ run'[r].base = run[r].base
      /\ run'[r].work = run[r].work /\ run'[r].remote = run[r].remote
      /\ run'[r].num = run[r].num
  BY <1>1 DEF Goto, RunState
<1>3. OnCourse(r, run'[r])
  BY <1>1, <1>2 DEF OnCourse, Active, BeforeWrite, Publishing, OnHead, Waiting, Closing, PCs
<1>4. ~Lost(run'[r])
  BY <1>2 DEF Lost, Doomed
<1>5. QED
  BY <1>2, <1>3, <1>4 DEF KeepsCourse

\* Ending well
LEMMA EndingKeepsCourse ==
    ASSUME Healing, NEW r \in Runs, Active(r), NEW status, Finish(r, status)
    PROVE  KeepsCourse(r)
<1>1. run[r] \in RunState /\ run[r].work \in Worktrees /\ run \in [Runs -> RunState]
  BY HealingTypes, AtWork
<1>2. run'[r].pc = "done" /\ run'[r].work = run[r].work
  BY <1>1 DEF Finish, RunState
<1>3. QED
  BY <1>1, <1>2 DEF KeepsCourse, OnCourse, Lost, Doomed, BeforeWrite, Publishing, OnHead,
                    Waiting, Closing

\* The steps before the push
LEMMA EarlyCourse ==
    ASSUME Healing, NEW r \in Runs,
           \/ Prepare(r) \/ ListOpen(r) \/ CheckBase(r, "obsolete", "relistObsolete")
           \/ RelistObsolete(r) \/ WaitClosed(r) \/ ConfirmClosed(r) \/ Relist(r)
    PROVE  KeepsCourse(r)
<1>1. /\ run[r] \in RunState /\ OnCourse(r, run[r]) /\ run \in [Runs -> RunState]
  BY HealingTypes
<1>2. ASSUME Active(r)
      PROVE  /\ run[r].base = 1 /\ BaseUnchanged(r) /\ ListingOK(r)
             /\ CandidateOK(history[run[r].base], run[r].work)
  BY <1>2, AtWork
<1>3. CASE Prepare(r)
  <2>1. Active(r) /\ ~Lost(run[r]) /\ run[r].pc = "prepare"
    BY <1>3 DEF Prepare, At, Active, Lost, Doomed
  <2>2. Goto(r, "list")
    BY <1>2, <1>3, <2>1 DEF Prepare
  <2>3. QED
    BY <2>1, <2>2, GoingKeepsCourse DEF PCs, BeforeWrite, Closing, OnHead, Waiting
<1>4. CASE ListOpen(r)
  <2>1. Active(r) /\ run[r].pc = "list"
    BY <1>4 DEF ListOpen, At, Active
  <2>2. run' = [run EXCEPT ![r].pc = "head", ![r].seen = OpenPR]
    BY <1>2, <1>4, <2>1 DEF ListOpen
  <2>3. /\ run'[r].pc = "head" /\ run'[r].seen = OpenPR /\ run'[r].base = run[r].base
        /\ run'[r].work = run[r].work
    BY <1>1, <2>2 DEF RunState
  <2>4. QED
    BY <1>1, <2>1, <2>3 DEF KeepsCourse, OnCourse, Lost, Doomed, Publishing, OnHead, Waiting
<1>5. CASE CheckBase(r, "obsolete", "relistObsolete")
  <2>1. Active(r) /\ ~Lost(run[r]) /\ run[r].pc = "obsolete"
    BY <1>5 DEF CheckBase, At, Active, Lost, Doomed
  <2>2. Goto(r, "relistObsolete")
    BY <1>2, <1>5, <2>1 DEF CheckBase
  <2>3. QED
    BY <2>1, <2>2, GoingKeepsCourse DEF PCs, BeforeWrite, Closing, OnHead, Waiting
<1>6. CASE RelistObsolete(r)
  <2>1. Active(r) /\ ~Lost(run[r]) /\ run[r].pc = "relistObsolete"
    BY <1>6 DEF RelistObsolete, At, Active, Lost, Doomed
  <2>2. SamePR(r)
    BY <1>1, <1>2, <2>1 DEF SamePR, OnCourse, BeforeWrite, Closing
  <2>3. Finish(r, "no_changes") \/ Goto(r, "close")
    BY <1>6, <2>2 DEF RelistObsolete
  <2>4. QED
    BY <2>1, <2>3, GoingKeepsCourse, EndingKeepsCourse
    DEF PCs, BeforeWrite, Closing, OnHead, Waiting
<1>7. CASE WaitClosed(r)
  <2>1. Active(r) /\ ~Lost(run[r]) /\ run[r].pc = "waitClosed"
    BY <1>7 DEF WaitClosed, At, Active, Lost, Doomed
  <2>2. OpenPR = NoPR
    BY <1>1, <2>1 DEF OnCourse
  <2>3. Goto(r, "confirmClosed")
    BY <1>2, <1>7, <2>1, <2>2 DEF WaitClosed
  <2>4. QED
    BY <2>1, <2>3, GoingKeepsCourse DEF PCs, BeforeWrite, Closing, OnHead, Waiting
<1>8. CASE ConfirmClosed(r)
  <2>1. Active(r)
    BY <1>8 DEF ConfirmClosed, At, Active
  <2>2. Finish(r, "closed_stale")
    BY <1>2, <1>8, <2>1 DEF ConfirmClosed
  <2>3. QED
    BY <2>1, <2>2, EndingKeepsCourse
<1>9. CASE Relist(r)
  <2>1. Active(r) /\ ~Lost(run[r]) /\ run[r].pc = "relist"
    BY <1>9 DEF Relist, At, Active, Lost, Doomed
  <2>2. SamePR(r)
    BY <1>1, <1>2, <2>1 DEF SamePR, OnCourse, BeforeWrite
  <2>3. Goto(r, "push")
    BY <1>9, <2>2 DEF Relist
  <2>4. QED
    BY <2>1, <2>3, GoingKeepsCourse DEF PCs, BeforeWrite, Closing, OnHead, Waiting
<1>10. QED
  BY <1>3, <1>4, <1>5, <1>6, <1>7, <1>8, <1>9

\* Reading and verifying the branch
LEMMA HeadCourse ==
    ASSUME Healing, NEW r \in Runs, ReadHead(r) \/ VerifyHead(r)
    PROVE  KeepsCourse(r)
<1>1. /\ run[r] \in RunState /\ OnCourse(r, run[r]) /\ run \in [Runs -> RunState]
      /\ prs \in [PRNums -> PullRequest] /\ BranchFits
  BY HealingTypes DEF Healing, HealInv
<1>2. Active(r) /\ ~Lost(run[r]) /\ run[r].pc \in {"head", "verify"} /\ run[r].seen = OpenPR
  BY <1>1 DEF ReadHead, VerifyHead, At, Active, Lost, Doomed, OnCourse, BeforeWrite
<1>3. run[r].base = 1 /\ run[r].work \in Worktrees
  BY <1>2, AtWork
<1>4. ASSUME run'[r].pc \in {"obsolete", "relist", "verify", "confirmBase"},
             run'[r].seen = run[r].seen, run'[r].base = 1, run'[r].work = run[r].work,
             run'[r].pc \in {"relist", "verify"} => run'[r].remote = headRef,
             run'[r].pc \in {"verify", "confirmBase"} => headRef # NoCommit,
             run'[r].pc \in {"relist", "confirmBase"} => Changed(history[1], run[r].work) # {},
             run'[r].pc = "relist" /\ headRef # NoCommit => headRef.tree # run[r].work
      PROVE  KeepsCourse(r)
  BY <1>2, <1>3, <1>4
  DEF KeepsCourse, OnCourse, Lost, Doomed, BeforeWrite, Publishing, OnHead, Waiting, Closing
<1>5. CASE ReadHead(r)
  <2>1. HeadMatchesPR(r)
    <3>1. SUFFICES ASSUME OpenPR # NoPR PROVE headRef # NoCommit /\ OpenPR.pr.head = headRef
      BY <1>2 DEF HeadMatchesPR
    <3>2. PICK n \in PRNums : prs[n].state = "open"
      BY <3>1, OpenIsUnique
    <3>3. OpenPR.pr = prs[n]
      BY <3>2, OpenIsUnique
    <3>4. QED
      BY <3>2, <3>3 DEF Healing, HealInv, DraftsFit, PublisherInv, GitHubOK
  <2>2. run' = [run EXCEPT ![r].pc = IF headRef = NoCommit THEN StagedPC(r, NoCommit)
                                     ELSE "verify",
                           ![r].remote = headRef]
    BY <1>5, <2>1 DEF ReadHead
  <2>3. /\ run'[r].pc = IF headRef = NoCommit THEN StagedPC(r, NoCommit) ELSE "verify"
        /\ run'[r].remote = headRef /\ run'[r].seen = run[r].seen
        /\ run'[r].base = run[r].base /\ run'[r].work = run[r].work
    BY <1>1, <2>2 DEF RunState
  <2>4. QED
    BY <1>3, <1>4, <2>3 DEF StagedPC, Reusable
<1>6. CASE VerifyHead(r)
  <2>1. run[r].pc = "verify" /\ headRef # NoCommit /\ run[r].remote = headRef
    BY <1>1, <1>6 DEF VerifyHead, At, OnCourse
  <2>2. OwnsHead(r) /\ headRef.base = 1
    BY <1>1, <2>1 DEF OwnsHead, BranchFits
  <2>3. run' = [run EXCEPT ![r].pc = StagedPC(r, headRef), ![r].head = StagedHead(r, headRef)]
    BY <1>6, <2>2 DEF VerifyHead
  <2>4. /\ run'[r].pc = StagedPC(r, headRef) /\ run'[r].remote = run[r].remote
        /\ run'[r].seen = run[r].seen
        /\ run'[r].base = run[r].base /\ run'[r].work = run[r].work
    BY <1>1, <2>3 DEF RunState
  <2>5. QED
    BY <1>3, <1>4, <2>1, <2>2, <2>4 DEF StagedPC, Reusable
<1>7. QED
  BY <1>5, <1>6

\* The steps after the push
LEMMA LateCourse ==
    ASSUME Healing, NEW r \in Runs,
           \/ CheckPushed(r) \/ CheckBase(r, "confirmBase", "confirmPR") \/ ConfirmPR(r)
           \/ Recover(r) \/ AwaitExact(r) \/ ConfirmFinal(r)
    PROVE  KeepsCourse(r)
<1>1. /\ run[r] \in RunState /\ OnCourse(r, run[r]) /\ run \in [Runs -> RunState]
      /\ prs \in [PRNums -> PullRequest]
      /\ run[r].pc \in OnHead
      /\ run[r].head = headRef
  BY HealingTypes DEF CheckPushed, CheckBase, ConfirmPR, Recover, AwaitExact, ConfirmFinal,
                      At, OnHead, Waiting
<1>2. Active(r)
  BY <1>1 DEF Active, OnHead, Waiting
<1>3. /\ run[r].base = 1 /\ BaseUnchanged(r) /\ ListingOK(r) /\ run[r].work \in Worktrees
      /\ headRef # NoCommit /\ Changed(history[1], run[r].work) # {}
  BY <1>1, <1>2, AtWork DEF OnCourse, Publishing
<1>4. ASSUME run'[r].pc \in OnHead, run'[r].base = 1, run'[r].work = run[r].work,
             run'[r].pc = "create" => OpenPR = NoPR,
             run'[r].pc \in {"update", "await"} => OpenPR # NoPR /\ run'[r].num = OpenPR.num,
             run'[r].pc \in {"recover", "await"} => run[r].pc \in {"recover", "await"},
             Doomed(run'[r]) => Doomed(run[r])
      PROVE  KeepsCourse(r)
  BY <1>1, <1>3, <1>4
  DEF KeepsCourse, OnCourse, Lost, BeforeWrite, Publishing, OnHead, Waiting, Closing
<1>5. ASSUME run'[r].pc = "failed", Doomed(run[r])
      PROVE  KeepsCourse(r)
  BY <1>5 DEF KeepsCourse, OnCourse, Lost, BeforeWrite, Publishing, OnHead, Waiting, Closing
<1>6. ASSUME NEW pc, Goto(r, pc)
      PROVE  /\ run'[r].pc = pc /\ run'[r].seen = run[r].seen /\ run'[r].base = run[r].base
             /\ run'[r].work = run[r].work /\ run'[r].num = run[r].num
  BY <1>1, <1>6 DEF Goto, RunState
<1>7. CASE CheckPushed(r) \/ CheckBase(r, "confirmBase", "confirmPR")
  <2>1. PICK pc \in {"confirmBase", "confirmPR"} : Goto(r, pc)
    BY <1>1, <1>3, <1>7 DEF CheckPushed, CheckBase
  <2>2. run[r].pc \in {"pushed", "confirmBase"}
    BY <1>7 DEF CheckPushed, CheckBase, At
  <2>3. QED
    BY <1>3, <1>4, <1>6, <2>1, <2>2 DEF Doomed, OnHead
<1>8. CASE ConfirmPR(r)
  <2>1. run[r].pc = "confirmPR"
    BY <1>8 DEF ConfirmPR, At
  <2>2. CASE run[r].seen # OpenPR
    <3>1. Fail(r)
      BY <1>8, <2>2 DEF ConfirmPR, SamePR
    <3>2. QED
      BY <1>5, <1>6, <2>1, <2>2, <3>1 DEF Fail, Doomed
  <2>3. CASE run[r].seen = OpenPR /\ OpenPR = NoPR
    <3>1. Goto(r, "create")
      BY <1>3, <1>8, <2>3 DEF ConfirmPR, SamePR
    <3>2. QED
      BY <1>3, <1>4, <1>6, <2>3, <3>1 DEF Doomed, OnHead
  <2>4. CASE run[r].seen = OpenPR /\ OpenPR # NoPR
    <3>1. run' = [run EXCEPT ![r].pc = "update", ![r].num = run[r].seen.num]
      BY <1>3, <1>8, <2>4 DEF ConfirmPR, SamePR
    <3>2. /\ run'[r].pc = "update" /\ run'[r].num = OpenPR.num /\ run'[r].base = run[r].base
          /\ run'[r].work = run[r].work
      BY <1>1, <2>4, <3>1 DEF RunState
    <3>3. QED
      BY <1>3, <1>4, <2>4, <3>2 DEF Doomed, OnHead
  <2>5. QED
    BY <2>2, <2>3, <2>4
<1>9. ASSUME OpenPR # NoPR PROVE OpenPR.pr.head = headRef /\ OpenPR.pr.draft /\ OpenPR.pr.base = 1
  <2>1. PICK n \in PRNums : prs[n].state = "open"
    BY <1>9, OpenIsUnique
  <2>2. OpenPR.pr = prs[n]
    BY <2>1, OpenIsUnique
  <2>3. QED
    BY <2>1, <2>2 DEF Healing, HealInv, DraftsFit
<1>10. CASE Recover(r)
  <2>1. run[r].pc = "recover"
    BY <1>10 DEF Recover, At
  <2>2. CASE OpenPR = NoPR
    <3>1. PollAgain(r)
      BY <1>3, <1>10, <2>2 DEF Recover
    <3>2. /\ run'[r].pc \in {"recover", "failed"} /\ run'[r].base = run[r].base
          /\ run'[r].work = run[r].work
      BY <1>1, <2>1, <3>1 DEF PollAgain, RunState
    <3>3. QED
      BY <1>3, <1>4, <1>5, <2>1, <2>2, <3>2 DEF Doomed, OnHead, Waiting
  <2>3. CASE OpenPR # NoPR
    <3>1. run' = [run EXCEPT ![r].pc = "await", ![r].num = OpenPR.num, ![r].polls = 0]
      BY <1>1, <1>3, <1>9, <1>10, <2>3 DEF Recover
    <3>2. /\ run'[r].pc = "await" /\ run'[r].num = OpenPR.num /\ run'[r].base = run[r].base
          /\ run'[r].work = run[r].work
      BY <1>1, <3>1 DEF RunState
    <3>3. QED
      BY <1>3, <1>4, <2>1, <2>3, <3>2 DEF Doomed, OnHead, Waiting
  <2>4. QED
    BY <2>2, <2>3
<1>11. CASE AwaitExact(r)
  <2>1. run[r].pc = "await" /\ OpenPR # NoPR /\ OpenPR.num = run[r].num
    BY <1>1, <1>11 DEF AwaitExact, At, OnCourse
  <2>2. OpenPR.pr.text = r
    <3>1. PICK n \in PRNums : prs[n].state = "open"
      BY <2>1, OpenIsUnique
    <3>2. OpenPR.pr = prs[n] /\ prs[n].text = r
      BY <1>1, <2>1, <3>1, OpenIsUnique DEF OnCourse
    <3>3. QED
      BY <3>2
  <2>3. ExactPR(r)
    BY <1>1, <1>3, <1>9, <2>1, <2>2 DEF ExactPR
  <2>4. Goto(r, "confirmFinal")
    BY <1>3, <1>11, <2>3 DEF AwaitExact
  <2>5. QED
    BY <1>3, <1>4, <1>6, <2>4 DEF Doomed, OnHead, Waiting
<1>12. CASE ConfirmFinal(r)
  <2>1. Finish(r, ReviewStatus(r))
    BY <1>3, <1>12 DEF ConfirmFinal
  <2>2. QED
    BY <1>2, <2>1, EndingKeepsCourse
<1>13. QED
  BY <1>7, <1>8, <1>10, <1>11, <1>12

-----------------------------------------------------------------------------
\* Steps that write

\* What is listed after a step
LEMMA ListedNext ==
    ASSUME Healing, prs' \in [PRNums -> PullRequest],
           \A m, n \in PRNums : prs'[m].state = "open" /\ prs'[n].state = "open" => m = n
    PROVE  /\ OpenPR' = NoPR <=> \A n \in PRNums : prs'[n].state # "open"
           /\ \A n \in PRNums :
                prs'[n].state = "open" => OpenPR' = [num |-> n, pr |-> prs'[n]]
<1>1. OpenPR' = Shown(prs')
  BY DEF Healing, Undisturbed, View, OpenPR, OpenNums, Shown
<1>2. QED
  BY <1>1, OneIsShown

LEMMA CloseHeals ==
    ASSUME Healing, NEW r \in Runs, Alone(r), \A q \in Runs : q # r => run'[q] = run[q],
           ClosePR(r)
    PROVE  HealInv'
<1>1. /\ run \in [Runs -> RunState] /\ run[r] \in RunState /\ RunOK(run[r])
      /\ prs \in [PRNums -> PullRequest] /\ OnCourse(r, run[r])
  BY HealingTypes
<1>2. run[r].pc = "close" /\ Active(r) /\ run[r].seen = OpenPR /\ OpenPR # NoPR
  BY <1>1 DEF ClosePR, At, Active, OnCourse, BeforeWrite, Closing, RunOK, SeenOnRemote
<1>3. PICK n \in PRNums : prs[n].state = "open"
  BY <1>2, OpenIsUnique
<1>4. run[r].seen.num = n /\ run[r].seen.pr = prs[n] /\ prs[n] \in PullRequest
  BY <1>1, <1>2, <1>3, OpenIsUnique
<1>5. run[r].base = 1 /\ run[r].work \in Worktrees
  BY <1>2, AtWork
<1>6. DraftsFit /\ RepositoryRests /\ BranchFits
  BY DEF Healing, HealInv
<1> DEFINE closed == [prs[n] EXCEPT !.state = "closed"]
<1>7. /\ closed \in PullRequest /\ closed.state = "closed"
      /\ [closed EXCEPT !.state = "open"] = prs[n]
  BY <1>3, <1>4 DEF PullRequest
<1>8. CloseAccepted(r, closed)
  BY <1>3, <1>4, <1>5, <1>6, <1>7 DEF CloseAccepted, Owned, DraftsFit, PullRequest
<1>9. closed = [prs[n] EXCEPT !.state = IF @ = "open" THEN "closed" ELSE @]
  BY <1>3
<1> HIDE DEF closed
<1>10. /\ prs' = [prs EXCEPT ![n] = closed] /\ Goto(r, "waitClosed")
       /\ history' = history /\ headRef' = headRef /\ edits' = edits /\ faults' = faults
  BY <1>4, <1>8, <1>9 DEF ClosePR, remoteRefs
<1>11. /\ prs' \in [PRNums -> PullRequest]
       /\ \A m \in PRNums : prs'[m] = IF m = n THEN closed ELSE prs[m]
  BY <1>1, <1>7, <1>10
<1>12. \A m \in PRNums : prs'[m].state # "open"
  BY <1>3, <1>6, <1>7, <1>11 DEF DraftsFit
<1>13. OpenPR' = NoPR
  BY <1>11, <1>12, ListedNext
<1>14. \A work \in Worktrees : Changed(history[1], work) = {}
  BY <1>1, <1>2, <1>5 DEF RunOK, SeenOnRemote, Closing, Healing, OneCandidate
<1>15. RepositoryRests' /\ BranchFits' /\ DraftsFit'
  BY <1>6, <1>10, <1>12, <1>14 DEF RepositoryRests, BranchFits, DraftsFit
<1>16. /\ run'[r].pc = "waitClosed" /\ run'[r].base = 1 /\ run'[r].work \in Worktrees
  BY <1>1, <1>5, <1>10 DEF Goto, RunState
<1>17. OnCourse(r, run[r])' /\ ~Lost(run[r])'
  BY <1>13, <1>16
  DEF OnCourse, Lost, Doomed, BeforeWrite, Publishing, OnHead, Waiting, Closing
<1>18. (DraftRefreshed => DraftRefreshed') /\ faults' \in faults..MaxFaults
  BY <1>10, PublisherConstants DEF DraftRefreshed, Healing, HealInv, PublisherInv, GitHubOK
<1>19. QED
  BY <1>2, <1>15, <1>16, <1>17, <1>18, RunMoves

LEMMA PushHeals ==
    ASSUME Healing, NEW r \in Runs, Alone(r), \A q \in Runs : q # r => run'[q] = run[q],
           Push(r)
    PROVE  HealInv'
<1>1. /\ run \in [Runs -> RunState] /\ run[r] \in RunState
      /\ prs \in [PRNums -> PullRequest] /\ OnCourse(r, run[r])
  BY HealingTypes
<1>2. /\ run[r].pc = "push" /\ Active(r) /\ run[r].seen = OpenPR /\ LeaseHolds(r)
      /\ Changed(history[1], run[r].work) # {}
      /\ headRef # NoCommit => headRef.tree # run[r].work
  BY <1>1 DEF Push, At, Active, OnCourse, BeforeWrite, Publishing, LeaseHolds
<1>3. run[r].base = 1 /\ run[r].work \in Worktrees /\ run[r].work \in Tree
  BY <1>1, <1>2, AtWork DEF RunState
<1>4. DraftsFit /\ RepositoryRests /\ BranchFits /\ Main = 1
  BY DEF Healing, HealInv, RepositoryRests, Main
<1> DEFINE commit == NewCommit(r)
<1>5. /\ commit.owned /\ commit.base = 1 /\ commit.tree = run[r].work
      /\ commit \in Commit /\ commit # NoCommit
  <2>1. commit \in Commit
    BY <1>3 DEF NewCommit, Commit, Author
  <2>2. QED
    BY <1>3, <2>1, NoCommitIsNoCommit DEF NewCommit
<1>6. /\ headRef' = commit /\ history' = history /\ edits' = edits /\ faults' = faults
      /\ run' = [run EXCEPT ![r].pc = "pushed", ![r].head = commit]
  BY <1>2 DEF Push
<1>7. PICK refresh \in BOOLEAN : prs' = FollowHead(commit, refresh)
  BY <1>2 DEF Push
<1> HIDE DEF commit
<1>8. ASSUME NEW n \in PRNums
      PROVE  /\ prs'[n].state = prs[n].state /\ prs'[n] \in PullRequest
             /\ prs'[n].state = "open" =>
                  /\ prs'[n].target = prs[n].target /\ prs'[n].marker = prs[n].marker
                  /\ prs'[n].draft = prs[n].draft /\ prs'[n].author = prs[n].author
                  /\ prs'[n].head = commit /\ prs'[n].base \in {prs[n].base, 1}
  <2>1. prs[n] \in PullRequest
    BY <1>1
  <2>2. prs'[n] = IF prs[n].state = "open"
                  THEN [prs[n] EXCEPT !.head = commit, !.base = IF refresh THEN Main ELSE @]
                  ELSE prs[n]
    BY <1>7 DEF FollowHead
  <2> DEFINE b == IF refresh THEN Main ELSE prs[n].base
  <2>3. b \in Nat /\ b \in {prs[n].base, 1}
    BY <1>4, <2>1 DEF PullRequest
  <2>4. prs[n].state = "open" => prs'[n] = [prs[n] EXCEPT !.head = commit, !.base = b]
    BY <2>2
  <2> HIDE DEF b
  <2>5. CASE prs[n].state = "open"
    <3>1. /\ prs'[n].state = prs[n].state /\ prs'[n].target = prs[n].target
          /\ prs'[n].marker = prs[n].marker /\ prs'[n].draft = prs[n].draft
          /\ prs'[n].author = prs[n].author
          /\ prs'[n].head = commit /\ prs'[n].base = b
      BY <2>1, <2>4, <2>5 DEF PullRequest
    <3>2. prs'[n] \in PullRequest
      BY <1>5, <2>1, <2>3, <2>4, <2>5 DEF PullRequest
    <3>3. QED
      BY <2>3, <3>1, <3>2
  <2>6. CASE prs[n].state # "open"
    BY <2>1, <2>2, <2>6
  <2>7. QED
    BY <2>5, <2>6
<1>9. DraftsFit' /\ RepositoryRests' /\ BranchFits'
  BY <1>3, <1>4, <1>5, <1>6, <1>8 DEF DraftsFit, RepositoryRests, BranchFits
<1>10. OpenPR = NoPR => OpenPR' = NoPR
  <2>1. prs' \in [PRNums -> PullRequest]
    BY <1>7, <1>8 DEF FollowHead
  <2>2. QED
    BY <1>8, <1>9, <2>1, OpenIsUnique, ListedNext DEF DraftsFit
<1>11. /\ run'[r].pc = "pushed" /\ run'[r].base = 1 /\ run'[r].work = run[r].work
       /\ run'[r].seen = OpenPR
  BY <1>1, <1>2, <1>3, <1>6 DEF RunState
<1>12. OnCourse(r, run[r])'
  BY <1>2, <1>3, <1>5, <1>6, <1>11
  DEF OnCourse, BeforeWrite, Publishing, OnHead, Waiting, Closing
<1>13. DraftRefreshed <=> Seeds # {} /\ headRef # NoCommit /\ headRef.tree \in Worktrees
  BY DEF DraftRefreshed
<1>14. DraftRefreshed' <=> Seeds # {}
  BY <1>3, <1>5, <1>6 DEF DraftRefreshed
<1>15. ASSUME Lost(run[r])' PROVE DraftRefreshed' /\ ~DraftRefreshed
  <2>1. OpenPR # NoPR
    BY <1>10, <1>11, <1>15 DEF Lost, Doomed
  <2>2. PICK n \in PRNums : prs[n].state = "open"
    BY <2>1, OpenIsUnique
  <2>3. headRef # NoCommit
    BY <1>4, <2>2 DEF DraftsFit, Healing, PublisherInv, GitHubOK
  <2>4. headRef.tree \notin Worktrees
    BY <1>2, <1>3, <2>3 DEF Healing, OneCandidate
  <2>5. QED
    BY <1>4, <1>13, <1>14, <2>3, <2>4 DEF BranchFits
<1>16. faults' \in faults..MaxFaults
  BY <1>6, PublisherConstants DEF Healing, HealInv, PublisherInv, GitHubOK
<1>17. (DraftRefreshed => DraftRefreshed') /\ run[r].pc \notin {"done", "failed"}
  BY <1>2, <1>13, <1>14
<1>18. run'[r].pc # "done"
  BY <1>11
<1>19. QED
  BY <1>9, <1>12, <1>15, <1>16, <1>17, <1>18, RunMoves

LEMMA CreateHeals ==
    ASSUME Healing, NEW r \in Runs, Alone(r), \A q \in Runs : q # r => run'[q] = run[q],
           Create(r)
    PROVE  HealInv'
<1>1. /\ run \in [Runs -> RunState] /\ run[r] \in RunState
      /\ prs \in [PRNums -> PullRequest] /\ OnCourse(r, run[r])
  BY HealingTypes
<1>2. /\ run[r].pc = "create" /\ Active(r) /\ OpenPR = NoPR /\ headRef # NoCommit
      /\ Changed(history[1], run[r].work) # {}
  BY <1>1 DEF Create, At, Active, OnCourse, Publishing, OnHead
<1>3. run[r].base = 1 /\ run[r].work \in Worktrees
  BY <1>2, AtWork
<1>4. /\ DraftsFit /\ RepositoryRests /\ BranchFits /\ Main = 1
      /\ history' = history /\ headRef' = headRef /\ edits' = edits
  BY DEF Healing, HealInv, RepositoryRests, Main, Create, remoteRefs
<1>5. \A n \in PRNums : prs[n].state = "none"
  BY <1>2, <1>3, <1>4, OpenIsUnique DEF DraftsFit
<1>6. CanCreate
  BY <1>2, <1>5 DEF CanCreate, Healing, EnoughRuns
<1>7. DraftRefreshed => DraftRefreshed'
  BY <1>4 DEF DraftRefreshed
<1>8. RepositoryRests' /\ BranchFits'
  BY <1>4 DEF RepositoryRests, BranchFits
<1>9. faults \in Nat /\ MaxFaults \in Nat /\ faults <= MaxFaults
  BY PublisherConstants DEF Healing, HealInv, PublisherInv, GitHubOK
<1>10. CASE faults < MaxFaults /\ faults' = faults + 1 /\ prs' = prs /\ Goto(r, "recover")
  <2>1. run'[r].pc = "recover" /\ run'[r].base = 1 /\ run'[r].work = run[r].work
    BY <1>1, <1>3, <1>10 DEF Goto, RunState
  <2>2. DraftsFit' /\ \A n \in PRNums : prs'[n].state # "open"
    BY <1>4, <1>5, <1>10 DEF DraftsFit
  <2>3. OnCourse(r, run[r])'
    BY <1>2, <1>3, <1>4, <2>1, <2>2
    DEF OnCourse, BeforeWrite, Publishing, OnHead, Waiting, Closing
  <2>4. faults < faults' /\ faults' \in faults..MaxFaults
    BY <1>9, <1>10
  <2>5. run[r].pc \notin {"done", "failed"} /\ run'[r].pc # "done"
    BY <1>2, <2>1
  <2>6. QED
    BY <1>7, <1>8, <2>2, <2>3, <2>4, <2>5, RunMoves
<1>11. ASSUME NEW n \in PRNums, prs' = [prs EXCEPT ![n] = NewPR(r)],
              faults' \in faults..MaxFaults,
              Goto(r, "recover") \/ run' = [run EXCEPT ![r].pc = "await", ![r].num = n]
       PROVE  HealInv'
  <2>1. /\ NewPR(r) \in PullRequest /\ NewPR(r).state = "open" /\ NewPR(r).text = r
        /\ NewPR(r).target /\ NewPR(r).marker /\ NewPR(r).draft /\ NewPR(r).author = r
        /\ NewPR(r).base = 1 /\ NewPR(r).head = headRef
    BY <1>4, HealingTypes DEF NewPR, PullRequest, Author
  <2>2. /\ prs' \in [PRNums -> PullRequest]
        /\ \A m \in PRNums : prs'[m] = IF m = n THEN NewPR(r) ELSE prs[m]
    BY <1>1, <1>11, <2>1
  <2>3. DraftsFit'
    BY <1>4, <1>5, <2>1, <2>2 DEF DraftsFit
  <2>4. OpenPR' = [num |-> n, pr |-> prs'[n]] /\ OpenPR' # NoPR
    BY <2>1, <2>2, <2>3, ListedNext DEF DraftsFit
  <2>5. /\ run'[r].pc \in {"recover", "await"} /\ run'[r].base = 1
        /\ run'[r].work = run[r].work
        /\ run'[r].pc = "await" => run'[r].num = n
    BY <1>1, <1>3, <1>11 DEF Goto, RunState
  <2>6. \A m \in PRNums : prs'[m].state = "open" => prs'[m].text = r
    BY <1>5, <2>1, <2>2
  <2>7. OnCourse(r, run[r])'
    BY <1>2, <1>3, <1>4, <2>4, <2>5, <2>6
    DEF OnCourse, BeforeWrite, Publishing, OnHead, Waiting, Closing
  <2>8. ~Lost(run[r])'
    BY <2>4, <2>5 DEF Lost, Doomed
  <2>9. run[r].pc \notin {"done", "failed"} /\ run'[r].pc # "done"
    BY <1>2, <2>5
  <2>10. QED
    BY <1>7, <1>8, <1>11, <2>3, <2>7, <2>8, <2>9, RunMoves
<1>12. faults \in faults..MaxFaults /\ (faults < MaxFaults => faults + 1 \in faults..MaxFaults)
  BY <1>9
<1>13. QED
  BY <1>6, <1>10, <1>11, <1>12 DEF Create

LEMMA UpdateHeals ==
    ASSUME Healing, NEW r \in Runs, Alone(r), \A q \in Runs : q # r => run'[q] = run[q],
           Update(r)
    PROVE  HealInv'
<1>1. /\ run \in [Runs -> RunState] /\ run[r] \in RunState
      /\ prs \in [PRNums -> PullRequest] /\ OnCourse(r, run[r])
  BY HealingTypes
<1>2. /\ run[r].pc = "update" /\ Active(r) /\ OpenPR # NoPR /\ run[r].num = OpenPR.num
      /\ headRef # NoCommit /\ Changed(history[1], run[r].work) # {}
  BY <1>1 DEF Update, At, Active, OnCourse, Publishing, OnHead
<1>3. run[r].base = 1 /\ run[r].work \in Worktrees
  BY <1>2, AtWork
<1>4. PICK n \in PRNums : prs[n].state = "open"
  BY <1>2, OpenIsUnique
<1>5. run[r].num = n
  BY <1>2, <1>4, OpenIsUnique
<1>6. /\ DraftsFit /\ RepositoryRests /\ BranchFits
      /\ history' = history /\ headRef' = headRef /\ edits' = edits /\ faults' = faults
      /\ Goto(r, "await")
      /\ prs' = [prs EXCEPT ![n].text = r, ![n].marker = TRUE]
  BY <1>5 DEF Healing, HealInv, Update, remoteRefs
<1>7. \A m \in PRNums : prs[m].state = "open" => m = n
  BY <1>4, <1>6 DEF DraftsFit
<1>8. /\ prs' \in [PRNums -> PullRequest]
      /\ \A m \in PRNums : m # n => prs'[m] = prs[m]
      /\ prs'[n].text = r /\ prs'[n].marker /\ prs'[n].state = "open"
      /\ prs'[n].target = prs[n].target /\ prs'[n].draft = prs[n].draft
      /\ prs'[n].author = prs[n].author /\ prs'[n].base = prs[n].base
      /\ prs'[n].head = prs[n].head
  <2>1. prs[n] \in PullRequest /\ r \in Author
    BY <1>1 DEF Author
  <2>2. prs' = [prs EXCEPT ![n] = [prs[n] EXCEPT !.text = r, !.marker = TRUE]]
    BY <1>1, <1>6
  <2>3. [prs[n] EXCEPT !.text = r, !.marker = TRUE] \in PullRequest
    BY <2>1 DEF PullRequest
  <2>4. QED
    BY <1>1, <1>4, <2>1, <2>2, <2>3 DEF PullRequest
<1>9. DraftsFit'
  BY <1>4, <1>6, <1>7, <1>8 DEF DraftsFit
<1>10. OpenPR' = [num |-> n, pr |-> prs'[n]] /\ OpenPR' # NoPR
  BY <1>8, <1>9, ListedNext DEF DraftsFit
<1>11. /\ run'[r].pc = "await" /\ run'[r].base = 1 /\ run'[r].work = run[r].work
       /\ run'[r].num = n
  BY <1>1, <1>3, <1>5, <1>6 DEF Goto, RunState
<1>12. OnCourse(r, run[r])' /\ ~Lost(run[r])'
  BY <1>2, <1>3, <1>6, <1>7, <1>8, <1>10, <1>11
  DEF OnCourse, Lost, Doomed, BeforeWrite, Publishing, OnHead, Waiting, Closing
<1>13. RepositoryRests' /\ BranchFits' /\ (DraftRefreshed => DraftRefreshed')
  BY <1>6 DEF RepositoryRests, BranchFits, DraftRefreshed
<1>14. faults' \in faults..MaxFaults
  BY <1>6, PublisherConstants DEF Healing, HealInv, PublisherInv, GitHubOK
<1>15. run[r].pc \notin {"done", "failed"} /\ run'[r].pc # "done"
  BY <1>2, <1>11
<1>16. QED
  BY <1>9, <1>12, <1>13, <1>14, <1>15, RunMoves

-----------------------------------------------------------------------------
\* Every step

LEMMA StartHeals ==
    ASSUME Healing, NEW r \in Runs, Alone(r), \A q \in Runs : q # r => run'[q] = run[q],
           Start(r)
    PROVE  HealInv'
<1>1. run \in [Runs -> RunState] /\ run[r] \in RunState /\ run[r].pc = "idle" /\ Main = 1
  BY HealingTypes DEF Start, At, Healing, HealInv, RepositoryRests, Main
<1>2. PICK work \in Worktrees :
        run' = [run EXCEPT ![r].pc = "prepare", ![r].base = Main, ![r].work = work]
  BY DEF Start
<1>3. run'[r].pc = "prepare" /\ run'[r].base = 1 /\ run'[r].work = work
  BY <1>1, <1>2 DEF RunState
<1>4. KeepsCourse(r)
  BY <1>3
  DEF KeepsCourse, OnCourse, Lost, Doomed, BeforeWrite, Publishing, OnHead, Waiting, Closing
<1>5. QED
  BY <1>1, <1>4, ReadingHeals DEF Start

LEMMA CrashHeals ==
    ASSUME Healing, NEW r \in Runs, Alone(r), \A q \in Runs : q # r => run'[q] = run[q],
           Crash(r)
    PROVE  HealInv'
<1>1. run \in [Runs -> RunState] /\ run[r] \in RunState
  BY HealingTypes
<1>2. /\ faults' = faults + 1 /\ faults < MaxFaults /\ edits' = edits
      /\ history' = history /\ headRef' = headRef /\ prs' = prs
      /\ run[r].pc \notin {"done", "failed"}
  BY DEF Crash, github, Active
<1>3. run'[r].pc = "failed"
  BY <1>1 DEF Crash, Fail, Goto, RunState
<1>4. RepositoryRests' /\ DraftsFit' /\ BranchFits' /\ (DraftRefreshed => DraftRefreshed')
  BY <1>2 DEF Healing, HealInv, RepositoryRests, DraftsFit, BranchFits, DraftRefreshed
<1>5. OnCourse(r, run[r])'
  BY <1>3 DEF OnCourse, BeforeWrite, Publishing, OnHead, Waiting, Closing
<1>6. faults < faults' /\ faults' \in faults..MaxFaults
  BY <1>2, PublisherConstants DEF Healing, PublisherInv, GitHubOK
<1>7. QED
  BY <1>2, <1>3, <1>4, <1>5, <1>6, RunMoves

LEMMA StepHeals ==
    ASSUME Healing, NEW r \in Runs, Alone(r), Step(r)
    PROVE  HealInv'
<1>1. \A q \in Runs : q # r => run'[q] = run[q]
  BY OthersStay DEF Healing
<1>2. run[r].pc \notin {"done", "failed"}
  BY DEF Step, At, Prepare, ListOpen, ReadHead, VerifyHead, CheckBase, RelistObsolete, ClosePR,
         WaitClosed, ConfirmClosed, Relist, Push, CheckPushed, ConfirmPR, Create, Recover,
         Update, AwaitExact, ConfirmFinal
<1>3. ASSUME ReadOnly, KeepsCourse(r) PROVE HealInv'
  BY <1>1, <1>2, <1>3, ReadingHeals
<1>4. CASE \/ Prepare(r) \/ ListOpen(r) \/ CheckBase(r, "obsolete", "relistObsolete")
           \/ RelistObsolete(r) \/ WaitClosed(r) \/ ConfirmClosed(r) \/ Relist(r)
  BY <1>3, <1>4, EarlyCourse
  DEF Prepare, ListOpen, CheckBase, RelistObsolete, WaitClosed, ConfirmClosed, Relist
<1>5. CASE ReadHead(r) \/ VerifyHead(r)
  BY <1>3, <1>5, HeadCourse DEF ReadHead, VerifyHead
<1>6. CASE \/ CheckPushed(r) \/ CheckBase(r, "confirmBase", "confirmPR") \/ ConfirmPR(r)
           \/ Recover(r) \/ AwaitExact(r) \/ ConfirmFinal(r)
  BY <1>3, <1>6, LateCourse
  DEF CheckPushed, CheckBase, ConfirmPR, Recover, AwaitExact, ConfirmFinal
<1>7. QED
  BY <1>1, <1>4, <1>5, <1>6, CloseHeals, PushHeals, CreateHeals, UpdateHeals DEF Step

LEMMA NextHeals ==
    ASSUME Healing, [Next]_vars
    PROVE  HealInv'
<1>1. ASSUME NEW r \in Runs, Start(r) \/ Step(r) \/ Crash(r)
      PROVE  HealInv'
  <2>1. OneActive /\ MaxActive = 1
    BY DEF Healing, DraftInv, Undisturbed
  <2>2. Alone(r)
    <3>1. ASSUME Active(r) PROVE Alone(r)
      BY <2>1, <3>1 DEF OneActive, Alone
    <3>2. Step(r) \/ Crash(r) => Active(r)
      BY DEF Step, Crash, Active, At, Prepare, ListOpen, ReadHead, VerifyHead, CheckBase,
             RelistObsolete, ClosePR, WaitClosed, ConfirmClosed, Relist, Push, CheckPushed,
             ConfirmPR, Create, Recover, Update, AwaitExact, ConfirmFinal
    <3>3. QED
      BY <1>1, <2>1, <3>1, <3>2, StartsAlone
  <2>3. \A q \in Runs : q # r => run'[q] = run[q]
    BY <1>1, OthersStay DEF Healing
  <2>4. QED
    BY <1>1, <2>2, <2>3, StartHeals, StepHeals, CrashHeals
<1>2. ASSUME NEW n \in PRNums, Index(n) PROVE HealInv'
  BY <1>2 DEF Index, Healing, Undisturbed
<1>3. CASE People
  <2>1. edits < MaxEdits
    BY <1>3 DEF People, AdvanceMain, MergePR, MarkReady, CloseByHand, Reopen, EditText,
                Retarget, OpenByHand, PushByHand, AmendByHand, DeleteBranch, Edit
  <2>2. edits = 0 /\ MaxEdits = 0
    BY DEF Healing, HealInv, RepositoryRests, Undisturbed
  <2>3. QED
    BY <2>1, <2>2
<1>4. CASE UNCHANGED vars
  <2>1. OpenPR' = OpenPR
    BY <1>4 DEF vars, OpenPR, OpenNums, View
  <2>2. Losses' = Losses /\ Allowance' = Allowance
    BY <1>4, <2>1 DEF vars, Losses, Lost, Doomed, Allowance, DraftRefreshed
  <2>3. RepositoryRests' /\ DraftsFit' /\ BranchFits' /\ OneEarlier'
    BY <1>4 DEF vars, Healing, HealInv, RepositoryRests, DraftsFit, BranchFits, OneEarlier
  <2>4. \A r \in Runs : OnCourse(r, run[r])'
    BY <1>4, <2>1 DEF vars, Healing, HealInv, OnCourse
  <2>5. QED
    BY <1>4, <2>2, <2>3, <2>4 DEF vars, Healing, HealInv
<1>5. QED
  BY <1>1, <1>2, <1>3, <1>4 DEF Next

LEMMA InitHeals ==
    ASSUME Undisturbed, OneCandidate, EnoughRuns, Init
    PROVE  HealInv
<1>1. PICK tree \in BaseTrees :
        /\ history = <<tree>>
        /\ \/ InitFresh(tree)
           \/ \E s \in Runs, n \in PRNums, seed \in Seeds : InitSeeded(tree, s, n, seed)
  BY DEF Init
<1>2. RepositoryRests /\ faults = 0 /\ faults <= MaxFaults
  BY <1>1, PublisherConstants DEF Init, RepositoryRests
<1>3. Idle(tree).pc = "idle" /\ Unused.state = "none"
  BY DEF Idle, Unused
<1>4. ASSUME \A r \in Runs : run[r].pc \in {"idle", "done"}
      PROVE  /\ \A r \in Runs : OnCourse(r, run[r])
             /\ Cardinality(Losses) <= Allowance
  <2>1. Losses = {}
    BY <1>4 DEF Losses, Lost, Doomed
  <2>2. Cardinality(Losses) = 0
    BY <2>1, FS_EmptySet
  <2>3. Allowance \in Nat
    BY <1>2 DEF Allowance
  <2>4. \A r \in Runs : OnCourse(r, run[r])
    BY <1>4 DEF OnCourse, BeforeWrite, Publishing, OnHead, Waiting, Closing
  <2>5. QED
    BY <2>2, <2>3, <2>4
<1>5. CASE InitFresh(tree)
  <2>1. /\ headRef = NoCommit /\ \A n \in PRNums : prs[n] = Unused
        /\ \A r \in Runs : run[r] = Idle(tree)
    BY <1>5 DEF InitFresh
  <2>2. DraftsFit /\ BranchFits /\ OneEarlier
    BY <1>3, <2>1 DEF DraftsFit, BranchFits, OneEarlier
  <2>3. QED
    BY <1>2, <1>3, <1>4, <2>1, <2>2 DEF HealInv
<1>6. ASSUME NEW s \in Runs, NEW n \in PRNums, NEW seed \in Seeds, InitSeeded(tree, s, n, seed)
      PROVE  HealInv
  <2> DEFINE commit == [base |-> 1, tree |-> seed, owned |-> TRUE, by |-> s]
  <2>1. /\ headRef = commit /\ headRef.owned /\ headRef.base = 1
        /\ \A m \in PRNums : m # n => prs[m] = Unused
        /\ prs[n] = [state |-> "open", draft |-> TRUE, marker |-> TRUE, target |-> TRUE,
                     text |-> s, author |-> s, head |-> commit, base |-> 1]
        /\ \A r \in Runs : r # s => run[r] = Idle(tree)
        /\ run[s].pc = "done"
    BY <1>6 DEF InitSeeded
  <2> HIDE DEF commit
  <2>2. DraftsFit
    <3>1. /\ prs[n].state = "open" /\ prs[n].draft /\ prs[n].marker /\ prs[n].target
          /\ prs[n].author = s /\ prs[n].head = headRef /\ prs[n].base = 1
      BY <2>1
    <3>2. \A m \in PRNums : m # n => prs[m].state = "none"
      BY <1>3, <2>1
    <3>3. QED
      BY <3>1, <3>2 DEF DraftsFit
  <2>3. BranchFits /\ Seeds # {}
    BY <2>1 DEF BranchFits
  <2>4. OneEarlier
    BY <1>3, <2>1, <2>3 DEF OneEarlier
  <2>5. \A r \in Runs : run[r].pc \in {"idle", "done"}
    BY <1>3, <2>1
  <2>6. QED
    BY <1>2, <1>4, <2>2, <2>3, <2>4, <2>5 DEF HealInv
<1>7. QED
  BY <1>1, <1>5, <1>6

\* There are more runs than can be lost.
LEMMA OneSucceeds == ASSUME Healing PROVE RerunsHeal
<1>1. SUFFICES ASSUME \A r \in Runs : run[r].pc \in {"done", "failed"},
                      \A r \in Runs : run[r].pc = "done" => run[r].work \notin Worktrees
               PROVE  FALSE
  BY DEF RerunsHeal
<1> DEFINE earlier == {r \in Runs : run[r].pc = "done"}
<1>2. Runs = Losses \cup earlier
  BY <1>1 DEF Losses, Lost
<1>3. IsFiniteSet(Runs) /\ IsFiniteSet(Losses) /\ Cardinality(Losses) \in Nat
  BY FS_Subset, FS_CardinalityType DEF Losses, Healing, EnoughRuns
<1>4. /\ faults \in Nat /\ MaxFaults \in Nat /\ faults <= MaxFaults
      /\ Cardinality(Losses) <= Allowance
  BY PublisherConstants DEF Healing, HealInv, PublisherInv, GitHubOK
<1>5. CASE Seeds = {}
  <2>1. Runs = Losses
    BY <1>1, <1>2, <1>5 DEF Healing, HealInv, OneEarlier
  <2>2. Allowance = faults
    BY <1>5 DEF Allowance, DraftRefreshed
  <2>3. Cardinality(Runs) > MaxFaults
    BY <1>4, <1>5 DEF Healing, EnoughRuns
  <2>4. QED
    BY <1>3, <1>4, <2>1, <2>2, <2>3
<1>6. CASE Seeds # {}
  <2>1. Allowance \in {faults, faults + 1}
    BY DEF Allowance
  <2>2. Cardinality(Runs) > MaxFaults + 2
    BY <1>6 DEF Healing, EnoughRuns
  <2>3. Cardinality(Losses) <= MaxFaults + 1
    BY <1>3, <1>4, <2>1
  <2>4. CASE earlier = {}
    BY <1>2, <1>3, <1>4, <2>2, <2>3, <2>4
  <2>5. ASSUME NEW s \in earlier PROVE FALSE
    <3>1. earlier = {s}
      BY <1>1, <2>5 DEF Healing, HealInv, OneEarlier
    <3>2. Runs = Losses \cup {s}
      BY <1>2, <3>1
    <3>3. Cardinality(Losses \cup {s}) \in {Cardinality(Losses), Cardinality(Losses) + 1}
      BY <1>3, FS_AddElement
    <3>4. QED
      BY <1>3, <1>4, <2>2, <2>3, <3>2, <3>3
  <2>6. QED
    BY <2>4, <2>5
<1>7. QED
  BY <1>5, <1>6

\* Where nobody edits, the listing is current and the concurrency group lets runs of one
\* candidate come one at a time, running again repairs what crashes, lost or refused calls
\* and one refresh of an earlier draft have broken off, for any number of each
\* (generated_data_pr.py:467-474, 506-523).
THEOREM RerunsHealThem ==
    ASSUME Undisturbed, OneCandidate, EnoughRuns
    PROVE  Spec => []RerunsHeal
<1>1. Init => HealInv /\ DraftInv
  BY InitHeals, InitDescribed
<1>2. PublisherInv /\ DraftInv /\ HealInv /\ [Next]_vars => DraftInv' /\ HealInv'
  BY NextDescribed, NextHeals DEF Healing, Undisturbed
<1>3. PublisherInv /\ DraftInv /\ HealInv => RerunsHeal
  BY OneSucceeds DEF Healing
<1>4. QED
  BY <1>1, <1>2, <1>3, Invariance, PTL DEF Spec
=============================================================================
