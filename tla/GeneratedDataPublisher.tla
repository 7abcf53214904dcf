------------------------ MODULE GeneratedDataPublisher ------------------------
(***************************************************************************)
(* publish_generated_data of                                               *)
(* .github/actions/publish-generated-data-pr/generated_data_pr.py: workflow *)
(* runs that turn a generated worktree into one automation-owned draft pull *)
(* request, against a GitHub repository that people change meanwhile.       *)
(*                                                                         *)
(* Every remote call of the code is one atomic step here: reading or        *)
(* fetching a branch, the compare-and-swap push, listing, creating,         *)
(* patching or closing a pull request.  Local work between two remote calls *)
(* belongs to the step before it, since nobody else can see it.             *)
(***************************************************************************)
EXTENDS Naturals, Sequences, FiniteSets

CONSTANTS
    Runs,           \* publisher runs, one process each
    PRNums,         \* the pull-request numbers GitHub has left to hand out
    Paths,          \* repository paths
    Allowed,        \* config.paths: the allowlist
    Required,       \* config.required_tracked_paths
    Contents,       \* contents of regular files
    Absent,         \* no file at a path
    Link,           \* a symlink or another irregular file at a path
    BaseTrees,      \* trees the base branch may get from unrelated merges
    Worktrees,      \* trees the generator may leave behind
    NoCommit,       \* an absent branch head
    NoPR,           \* "no open pull request" as a run remembers it
    StaleListing,   \* TRUE: the list endpoint may lag behind GitHub's records
    Seeds,          \* trees of a draft that an earlier run left open
    MaxActive,      \* runs at once: 1 under the workflows' concurrency group
    MaxPolls,       \* attempts of each polling loop (5 in the code)
    MaxEdits,       \* bound: actions of people
    MaxFaults       \* bound: crashes and failed requests

Tree == [Paths -> Contents \cup {Absent, Link}]

ASSUME PublisherConstants ==
    /\ Allowed \subseteq Paths /\ Required \subseteq Allowed
    /\ BaseTrees \subseteq Tree /\ BaseTrees # {} /\ Worktrees \subseteq Tree
    /\ Seeds \subseteq Tree
    /\ Absent \notin Contents /\ Link \notin Contents
    /\ StaleListing \in BOOLEAN
    /\ MaxActive \in Nat /\ MaxPolls \in Nat \ {0}
    /\ MaxEdits \in Nat /\ MaxFaults \in Nat
    /\ Runs \cap Nat = {} /\ NoPR \notin PRNums

\* Who made a commit or wrote a pull request's text: a run, or a person, whose
\* every edit has a number of its own because no two of them are the same bytes.
Author == Runs \cup Nat

\* A commit of the head branch.  owned: it carries the producer's trailers, one
\* parent, the recorded base, and only allowlisted changes.
Commit == [base : Nat, tree : Tree, owned : BOOLEAN, by : Author]

\* A pull request whose head is the automation branch.  text: title and body;
\* marker: the body holds the ownership marker; target: it targets the base branch.
PullRequest ==
    [state : {"none", "open", "closed", "merged"}, draft : BOOLEAN,
     marker : BOOLEAN, target : BOOLEAN, text : Author, author : Author,
     head : Commit \cup {NoCommit}, base : Nat]

ASSUME NoCommitIsNoCommit == NoCommit \notin Commit
ASSUME NoPRIsNoSnapshot == NoPR \notin [num : PRNums, pr : PullRequest]

VARIABLES
    history,    \* the base branch: the sequence of its trees
    headRef,    \* the automation branch: its commit, or NoCommit
    prs,        \* GitHub's pull requests, by number
    listed,     \* the pull requests as the list endpoint shows them
    run,        \* the state of each run
    edits,      \* actions of people so far
    faults      \* crashes and failed requests so far

vars == <<history, headRef, prs, listed, run, edits, faults>>
github == <<history, headRef, prs, listed>>
remoteRefs == <<history, headRef>>

Main == Len(history)

PCs == {"idle", "prepare", "list", "head", "verify", "obsolete", "relistObsolete",
        "close", "waitClosed", "confirmClosed", "relist", "push", "pushed",
        "confirmBase", "confirmPR", "create", "recover", "update", "await",
        "confirmFinal", "done", "failed"}

Statuses == {"", "no_changes", "closed_stale", "created", "updated", "unchanged"}
ReviewStatuses == {"created", "updated", "unchanged"}

Snapshot == [num : PRNums, pr : PullRequest]

RunState ==
    [pc : PCs, base : Nat, work : Tree, seen : Snapshot \cup {NoPR},
     remote : Commit \cup {NoCommit}, head : Commit \cup {NoCommit},
     num : PRNums \cup {NoPR}, polls : Nat, status : Statuses]

TypeOK ==
    /\ history \in Seq(Tree)
    /\ headRef \in Commit \cup {NoCommit}
    /\ prs \in [PRNums -> PullRequest]
    /\ listed \in [PRNums -> PullRequest]
    /\ run \in [Runs -> RunState]
    /\ edits \in Nat /\ faults \in Nat

-----------------------------------------------------------------------------
\* Trees and commits

Changed(base, work) == {p \in Paths : base[p] # work[p]}

\* Every dirty path is allowlisted and regular, every required file is tracked
\* at the base and still a regular file in the worktree.
CandidateOK(base, work) ==
    /\ Changed(base, work) \subseteq Allowed
    /\ \A p \in Changed(base, work) : work[p] # Link /\ base[p] # Link
    /\ \A p \in Required : base[p] \in Contents /\ work[p] \in Contents

NewCommit(r) ==
    [base |-> run[r].base, tree |-> run[r].work, owned |-> TRUE, by |-> r]

\* Wrong variants, for the properties below to reject: a reuse that forgets which
\* base the remote commit was generated from, and one that never happens.
ReusableOnAnyBase(r, commit) == commit # NoCommit /\ commit.tree = run[r].work
NeverReusable(r, commit) == FALSE

\* The remote commit already is this candidate on this base: push nothing.
Reusable(r, commit) ==
    /\ commit # NoCommit
    /\ commit.tree = run[r].work
    /\ commit.base = run[r].base

BaseUnchanged(r) == Main = run[r].base

-----------------------------------------------------------------------------
\* What the list endpoint answers, and what the code makes of it

View == IF StaleListing THEN listed ELSE prs
OpenNums(view) == {n \in PRNums : view[n].state = "open"}

\* _validate_pull_request_ownership, but for the lifecycle state
Owned(r, pr) ==
    /\ pr.target /\ pr.marker /\ pr.draft
    /\ pr.author \in Runs
    /\ pr.base = run[r].base

\* _one_owned_open_pull_request raises unless this holds
ListingOK(r) ==
    /\ \A n \in OpenNums(View) : Owned(r, View[n])
    /\ Cardinality(OpenNums(View)) <= 1

OpenPR ==
    IF OpenNums(View) = {} THEN NoPR
    ELSE LET n == CHOOSE m \in OpenNums(View) : TRUE IN [num |-> n, pr |-> View[n]]

\* _require_same_open_pull_request_snapshot raises unless this holds
SamePR(r) == ListingOK(r) /\ OpenPR = run[r].seen

-----------------------------------------------------------------------------
\* Steps of a run

At(r, pc) == run[r].pc = pc
Active(r) == run[r].pc \notin {"idle", "done", "failed"}

Goto(r, pc) == run' = [run EXCEPT ![r].pc = pc]
Fail(r) == Goto(r, "failed")
Finish(r, status) ==
    run' = [run EXCEPT ![r].pc = "done", ![r].status = status]

\* Steps of a run that only read GitHub
ReadOnly == UNCHANGED <<github, edits, faults>>

\* Check out the reviewed base and generate.
Start(r) ==
    /\ At(r, "idle")
    /\ Cardinality({q \in Runs : Active(q)}) < MaxActive
    /\ \E work \in Worktrees :
         run' = [run EXCEPT ![r].pc = "prepare", ![r].base = Main, ![r].work = work]
    /\ ReadOnly

\* _assert_remote_base_unchanged between two other calls
CheckBase(r, from, to) ==
    /\ At(r, from)
    /\ IF BaseUnchanged(r) THEN Goto(r, to) ELSE Fail(r)
    /\ ReadOnly

Prepare(r) ==
    /\ At(r, "prepare")
    /\ IF CandidateOK(history[run[r].base], run[r].work) /\ BaseUnchanged(r)
       THEN Goto(r, "list") ELSE Fail(r)
    /\ ReadOnly

ListOpen(r) ==
    /\ At(r, "list")
    /\ IF ListingOK(r)
       THEN run' = [run EXCEPT ![r].pc = "head", ![r].seen = OpenPR]
       ELSE Fail(r)
    /\ ReadOnly

\* Where a run goes once its index holds the candidate: nothing changed, the
\* remote commit will do, or a new commit is needed.
StagedPC(r, commit) ==
    IF Changed(history[run[r].base], run[r].work) = {} THEN "obsolete"
    ELSE IF Reusable(r, commit) THEN "confirmBase"
    ELSE "relist"

\* The head the run will report, known already when the remote commit is reused
StagedHead(r, commit) ==
    IF StagedPC(r, commit) = "confirmBase" THEN commit ELSE NoCommit

\* An open pull request must sit exactly on the remote branch.
HeadMatchesPR(r) ==
    run[r].seen # NoPR =>
        /\ headRef # NoCommit
        /\ run[r].seen.pr.head = headRef

ReadHead(r) ==
    /\ At(r, "head")
    /\ IF HeadMatchesPR(r)
       THEN run' = [run EXCEPT ![r].pc = IF headRef = NoCommit
                                         THEN StagedPC(r, NoCommit) ELSE "verify",
                               ![r].remote = headRef]
       ELSE Fail(r)
    /\ ReadOnly

\* _verify_remote_branch_ownership: the fetched head is the one just read, and
\* automation owns it.
OwnsHead(r) ==
    /\ headRef # NoCommit
    /\ headRef = run[r].remote
    /\ headRef.owned

VerifyHead(r) ==
    /\ At(r, "verify")
    /\ IF OwnsHead(r)
       THEN run' = [run EXCEPT ![r].pc = StagedPC(r, headRef),
                               ![r].head = StagedHead(r, headRef)]
       ELSE Fail(r)
    /\ ReadOnly

-----------------------------------------------------------------------------
\* Nothing to publish: close the obsolete draft, if there is one

RelistObsolete(r) ==
    /\ At(r, "relistObsolete")
    /\ IF ~SamePR(r) THEN Fail(r)
       ELSE IF run[r].seen = NoPR THEN Finish(r, "no_changes")
       ELSE Goto(r, "close")
    /\ ReadOnly

\* Wrong variant: the answer's snapshot is not compared with the one last seen.
CloseAcceptedUnseen(r, closed) == closed.state = "closed"

\* The closed record GitHub answers with is owned and otherwise as last seen.
CloseAccepted(r, closed) ==
    /\ closed.state = "closed"
    /\ Owned(r, closed)
    /\ [closed EXCEPT !.state = "open"] = run[r].seen.pr

ClosePR(r) ==
    /\ At(r, "close")
    /\ LET n == run[r].seen.num
           closed == [prs[n] EXCEPT !.state = IF @ = "open" THEN "closed" ELSE @]
       IN  /\ prs' = [prs EXCEPT ![n] = closed]
           /\ IF CloseAccepted(r, closed) THEN Goto(r, "waitClosed") ELSE Fail(r)
    /\ UNCHANGED <<remoteRefs, listed, edits, faults>>

\* Wrong variant: the loop never gives up.
PollForever(r) == run' = [run EXCEPT ![r].polls = (@ + 1) % MaxPolls]

\* One more attempt of a polling loop, or its failure after the last one
PollAgain(r) ==
    run' = [run EXCEPT ![r].polls = @ + 1,
                       ![r].pc = IF run[r].polls + 1 < MaxPolls THEN @ ELSE "failed"]

WaitClosed(r) ==
    /\ At(r, "waitClosed")
    /\ IF ~ListingOK(r) THEN Fail(r)
       ELSE IF OpenPR = NoPR THEN Goto(r, "confirmClosed")
       ELSE PollAgain(r)
    /\ ReadOnly

ConfirmClosed(r) ==
    /\ At(r, "confirmClosed")
    /\ IF BaseUnchanged(r) THEN Finish(r, "closed_stale") ELSE Fail(r)
    /\ ReadOnly

-----------------------------------------------------------------------------
\* Something to publish: push, then create or update the draft

Relist(r) ==
    /\ At(r, "relist")
    /\ IF SamePR(r) THEN Goto(r, "push") ELSE Fail(r)
    /\ ReadOnly

\* GitHub keeps the head of every open pull request on the branch; the recorded
\* base SHA may be refreshed when the head moves, or may not.
FollowHead(commit, refresh) ==
    [n \in PRNums |->
        IF prs[n].state = "open"
        THEN [prs[n] EXCEPT !.head = commit, !.base = IF refresh THEN Main ELSE @]
        ELSE prs[n]]

\* Wrong variant: a plain forced push.
LeaseIgnored(r) == TRUE

\* --force-with-lease: replace exactly the head that was verified.
LeaseHolds(r) == headRef = run[r].remote

Push(r) ==
    /\ At(r, "push")
    /\ IF LeaseHolds(r)
       THEN /\ headRef' = NewCommit(r)
            /\ \E refresh \in BOOLEAN : prs' = FollowHead(NewCommit(r), refresh)
            /\ run' = [run EXCEPT ![r].pc = "pushed", ![r].head = NewCommit(r)]
       ELSE Fail(r) /\ UNCHANGED <<headRef, prs>>
    /\ UNCHANGED <<history, listed, edits, faults>>

CheckPushed(r) ==
    /\ At(r, "pushed")
    /\ IF headRef = run[r].head THEN Goto(r, "confirmBase") ELSE Fail(r)
    /\ ReadOnly

ConfirmPR(r) ==
    /\ At(r, "confirmPR")
    /\ IF ~SamePR(r) THEN Fail(r)
       ELSE IF run[r].seen = NoPR THEN Goto(r, "create")
       ELSE run' = [run EXCEPT ![r].pc = "update", ![r].num = run[r].seen.num]
    /\ ReadOnly

\* The pull request GitHub makes of a create call: its head is the branch as it is.
NewPR(r) ==
    [state |-> "open", draft |-> TRUE, marker |-> TRUE, target |-> TRUE,
     text |-> r, author |-> r, head |-> headRef, base |-> Main]

\* GitHub rejects a second open pull request for one head and base.
CanCreate ==
    /\ headRef # NoCommit
    /\ \A n \in PRNums : prs[n].state = "open" => ~prs[n].target
    /\ \E n \in PRNums : prs[n].state = "none"

\* Accepted and answered; accepted with the answer lost; rejected or never
\* delivered.  After the last two the code looks for the pull request it made.
Create(r) ==
    /\ At(r, "create")
    /\ \/ /\ CanCreate
          /\ \E n \in PRNums :
               /\ prs[n].state = "none"
               /\ prs' = [prs EXCEPT ![n] = NewPR(r)]
               /\ \/ /\ run' = [run EXCEPT ![r].pc = "await", ![r].num = n]
                     /\ UNCHANGED faults
                  \/ /\ faults < MaxFaults /\ faults' = faults + 1
                     /\ Goto(r, "recover")
       \/ /\ CanCreate => faults < MaxFaults
          /\ faults' = IF CanCreate THEN faults + 1 ELSE faults
          /\ Goto(r, "recover")
          /\ UNCHANGED prs
    /\ UNCHANGED <<remoteRefs, listed, edits>>

Recover(r) ==
    /\ At(r, "recover")
    /\ IF ~ListingOK(r) THEN Fail(r)
       ELSE IF OpenPR # NoPR /\ OpenPR.pr.head = run[r].head
            THEN run' = [run EXCEPT ![r].pc = "await", ![r].num = OpenPR.num,
                                    ![r].polls = 0]
            ELSE PollAgain(r)
    /\ ReadOnly

\* PATCH of title and body: GitHub accepts it whatever became of the pull request.
Update(r) ==
    /\ At(r, "update")
    /\ prs' = [prs EXCEPT ![run[r].num].text = r, ![run[r].num].marker = TRUE]
    /\ Goto(r, "await")
    /\ UNCHANGED <<remoteRefs, listed, edits, faults>>

\* Wrong variant: the text of the pull request is not compared.
ExactPRAnyText(r) ==
    /\ OpenPR # NoPR
    /\ OpenPR.num = run[r].num
    /\ OpenPR.pr.head = run[r].head
    /\ OpenPR.pr.draft
    /\ OpenPR.pr.base = run[r].base

ExactPR(r) ==
    /\ OpenPR # NoPR
    /\ OpenPR.num = run[r].num
    /\ OpenPR.pr.head = run[r].head
    /\ OpenPR.pr.text = r
    /\ OpenPR.pr.draft
    /\ OpenPR.pr.base = run[r].base

AwaitExact(r) ==
    /\ At(r, "await")
    /\ IF ~ListingOK(r) THEN Fail(r)
       ELSE IF ExactPR(r) THEN Goto(r, "confirmFinal")
       ELSE PollAgain(r)
    /\ ReadOnly

ReviewStatus(r) ==
    IF run[r].seen = NoPR THEN "created"
    ELSE IF run[r].head.by = r THEN "updated"
    ELSE "unchanged"

ConfirmFinal(r) ==
    /\ At(r, "confirmFinal")
    /\ IF BaseUnchanged(r) THEN Finish(r, ReviewStatus(r)) ELSE Fail(r)
    /\ ReadOnly

\* A cancelled job, a lost runner, or a call that timed out or was refused
Crash(r) ==
    /\ Active(r) /\ faults < MaxFaults
    /\ faults' = faults + 1
    /\ Fail(r)
    /\ UNCHANGED <<github, edits>>

Step(r) ==
    \/ Prepare(r) \/ ListOpen(r) \/ ReadHead(r) \/ VerifyHead(r)
    \/ CheckBase(r, "obsolete", "relistObsolete")
    \/ RelistObsolete(r) \/ ClosePR(r) \/ WaitClosed(r) \/ ConfirmClosed(r)
    \/ Relist(r) \/ Push(r) \/ CheckPushed(r)
    \/ CheckBase(r, "confirmBase", "confirmPR")
    \/ ConfirmPR(r) \/ Create(r) \/ Recover(r) \/ Update(r) \/ AwaitExact(r)
    \/ ConfirmFinal(r)

-----------------------------------------------------------------------------
\* GitHub and the people who work on the repository

\* The list endpoint catches up with one pull request.
Index(n) ==
    /\ StaleListing /\ listed[n] # prs[n]
    /\ listed' = [listed EXCEPT ![n] = prs[n]]
    /\ UNCHANGED <<history, headRef, prs, run, edits, faults>>

\* Every action of a person counts against the bound and leaves the runs alone.
Edit == /\ edits < MaxEdits /\ edits' = edits + 1
        /\ UNCHANGED <<listed, run, faults>>

AdvanceMain(tree) ==
    /\ Edit
    /\ history' = Append(history, tree)
    /\ UNCHANGED <<headRef, prs>>

\* Merging brings the changes of the head over its base to the base branch.
MergePR(n) ==
    /\ Edit
    /\ prs[n].state = "open" /\ prs[n].target /\ ~prs[n].draft
    /\ LET from == history[prs[n].head.base]
           tree == prs[n].head.tree
       IN  history' = Append(history,
                        [p \in Paths |-> IF tree[p] # from[p] THEN tree[p]
                                         ELSE history[Main][p]])
    /\ prs' = [prs EXCEPT ![n].state = "merged"]
    /\ UNCHANGED headRef

MarkReady(n) ==
    /\ Edit
    /\ prs[n].state = "open"
    /\ prs' = [prs EXCEPT ![n].draft = FALSE]
    /\ UNCHANGED remoteRefs

CloseByHand(n) ==
    /\ Edit
    /\ prs[n].state = "open"
    /\ prs' = [prs EXCEPT ![n].state = "closed"]
    /\ UNCHANGED remoteRefs

Reopen(n) ==
    /\ Edit
    /\ prs[n].state = "closed" /\ headRef # NoCommit
    /\ \A m \in PRNums : prs[m].state = "open" => prs[m].target # prs[n].target
    /\ prs' = [prs EXCEPT ![n].state = "open", ![n].head = headRef]
    /\ UNCHANGED remoteRefs

EditText(n, keepMarker) ==
    /\ Edit
    /\ prs[n].state = "open"
    /\ prs' = [prs EXCEPT ![n].text = edits + 1, ![n].marker = @ /\ keepMarker]
    /\ UNCHANGED remoteRefs

Retarget(n) ==
    /\ Edit
    /\ prs[n].state = "open" /\ prs[n].target
    /\ prs' = [prs EXCEPT ![n].target = FALSE]
    /\ UNCHANGED remoteRefs

OpenByHand(n) ==
    /\ Edit
    /\ CanCreate /\ prs[n].state = "none"
    /\ prs' = [prs EXCEPT ![n] =
                 [state |-> "open", draft |-> FALSE, marker |-> FALSE, target |-> TRUE,
                  text |-> edits + 1, author |-> edits + 1, head |-> headRef, base |-> Main]]
    /\ UNCHANGED remoteRefs

\* A commit without the trailers, or with more than one parent.
PushByHand(tree) ==
    /\ Edit
    /\ LET commit == [base |-> Main, tree |-> tree, owned |-> FALSE, by |-> edits + 1]
       IN  /\ headRef' = commit
           /\ \E refresh \in BOOLEAN : prs' = FollowHead(commit, refresh)
    /\ UNCHANGED history

\* An amended automation commit keeps its trailers and its parent.
AmendByHand(tree) ==
    /\ Edit
    /\ headRef # NoCommit /\ headRef.owned
    /\ Changed(history[headRef.base], tree) \subseteq Allowed
    /\ LET commit == [headRef EXCEPT !.tree = tree, !.by = edits + 1]
       IN  /\ headRef' = commit
           /\ \E refresh \in BOOLEAN : prs' = FollowHead(commit, refresh)
    /\ UNCHANGED history

\* Deleting the branch closes its open pull requests.
DeleteBranch ==
    /\ Edit
    /\ headRef # NoCommit
    /\ headRef' = NoCommit
    /\ prs' = [n \in PRNums |->
                 IF prs[n].state = "open" THEN [prs[n] EXCEPT !.state = "closed"] ELSE prs[n]]
    /\ UNCHANGED history

People ==
    \/ \E tree \in BaseTrees : AdvanceMain(tree)
    \/ \E tree \in Worktrees : PushByHand(tree) \/ AmendByHand(tree)
    \/ \E n \in PRNums :
         \/ MergePR(n) \/ MarkReady(n) \/ CloseByHand(n) \/ Reopen(n)
         \/ Retarget(n) \/ OpenByHand(n)
         \/ \E keepMarker \in BOOLEAN : EditText(n, keepMarker)
    \/ DeleteBranch

-----------------------------------------------------------------------------
Unused ==
    [state |-> "none", draft |-> FALSE, marker |-> FALSE, target |-> FALSE,
     text |-> 0, author |-> 0, head |-> NoCommit, base |-> 0]

Idle(tree) ==
    [pc |-> "idle", base |-> 1, work |-> tree, seen |-> NoPR, remote |-> NoCommit,
     head |-> NoCommit, num |-> NoPR, polls |-> 0, status |-> ""]

\* No automation branch yet
InitFresh(tree) ==
    /\ headRef = NoCommit
    /\ prs = [n \in PRNums |-> Unused]
    /\ run = [r \in Runs |-> Idle(tree)]

\* Run s has finished and its draft number n is open.
InitSeeded(tree, s, n, seed) ==
    LET commit == [base |-> 1, tree |-> seed, owned |-> TRUE, by |-> s]
    IN  /\ CandidateOK(tree, seed) /\ seed # tree
        /\ headRef = commit
        /\ prs = [[m \in PRNums |-> Unused] EXCEPT ![n] =
                    [state |-> "open", draft |-> TRUE, marker |-> TRUE, target |-> TRUE,
                     text |-> s, author |-> s, head |-> commit, base |-> 1]]
        /\ run = [[r \in Runs |-> Idle(tree)] EXCEPT ![s] =
                    [pc |-> "done", base |-> 1, work |-> seed, seen |-> NoPR,
                     remote |-> NoCommit, head |-> commit, num |-> n, polls |-> 0,
                     status |-> "created"]]

Init ==
    /\ \E tree \in BaseTrees :
         /\ history = <<tree>>
         /\ \/ InitFresh(tree)
            \/ \E s \in Runs, n \in PRNums, seed \in Seeds : InitSeeded(tree, s, n, seed)
    /\ listed = prs
    /\ edits = 0 /\ faults = 0

Next ==
    \/ \E r \in Runs : Start(r) \/ Step(r) \/ Crash(r)
    \/ \E n \in PRNums : Index(n)
    \/ People

Spec == Init /\ [][Next]_vars

\* A job that started runs on to its end, and the list endpoint catches up.
FairSpec ==
    /\ Spec
    /\ \A r \in Runs : WF_vars(Step(r))
    /\ \A n \in PRNums : WF_vars(Index(n))

-----------------------------------------------------------------------------
\* Safety

\* The head a run is about to report, or has reported, is an owned commit of
\* exactly its candidate tree on exactly its reviewed base, whether the run pushed
\* it or reused what it found on the branch, and it changes that base in
\* allowlisted regular files only (generated_data_pr.py:406-441, 464-503).
ReportedHeadIsCandidate ==
    \A r \in Runs : run[r].head # NoCommit =>
        /\ run[r].head.owned
        /\ run[r].head.tree = run[r].work
        /\ run[r].head.base = run[r].base
        /\ CandidateOK(history[run[r].base], run[r].head.tree)

\* A run never replaces a commit that automation does not own: whatever a person
\* pushes between the ownership check and the push stays on the branch
\* (generated_data_pr.py:827-857, with the lease at 493-499).
HandPushSurvives ==
    [][ \A r \in Runs :
          headRef' # headRef /\ headRef' = NewCommit(r) /\ headRef # NoCommit
          => headRef.owned ]_vars

\* When a run goes on after closing a pull request, what it closed is exactly the
\* draft it saw at the beginning, although people could edit, retarget or
\* release it in between (generated_data_pr.py:443-462).
ClosesOnlySeenDraft ==
    [][ \A r \in Runs : At(r, "close") /\ run'[r].pc = "waitClosed" =>
            /\ run[r].seen.pr.head = run[r].remote
            /\ run[r].remote.owned
            /\ Changed(history[run[r].base], run[r].work) = {}
            /\ prs'[run[r].seen.num] = [run[r].seen.pr EXCEPT !.state = "closed"] ]_vars

\* A draft that a run reported for review describes the commit it offers: as long
\* as nobody else moved the branch or edited anything, the pull request sits on the
\* reported head and its text was written by a run that published that head
\* (_wait_for_exact_pull_request, generated_data_pr.py:1123-1150).
DraftDescribesItsHead ==
    \A r \in Runs :
        run[r].status \in ReviewStatuses /\ edits = 0 /\ headRef = run[r].head =>
            LET pr == prs[run[r].num]
            IN  /\ pr.head = headRef
                /\ pr.text \in Runs
                /\ run[pr.text].head = headRef

-----------------------------------------------------------------------------
\* Liveness

\* Every run that starts comes to an end, however the listing lags behind what it
\* closed, created or updated, and whatever people change while it waits: all polling
\* loops are bounded (generated_data_pr.py:1053-1065, 1106-1150).
RunsEnd == \A r \in Runs : At(r, "prepare") ~> ~Active(r)

\* A publication that broke off is repaired by running again: when people leave the
\* repository alone and all the serialized runs of one candidate have ended, one
\* more than there were faults and partial states, the last one reported a result
\* (the reuse of an exact remote commit, generated_data_pr.py:467-474).
RerunsHeal ==
    (\A r \in Runs : run[r].pc \in {"done", "failed"}) =>
        \E r \in Runs : run[r].pc = "done" /\ run[r].work \in Worktrees

-----------------------------------------------------------------------------
\* What the repository says, but the code does not do

\* test_generated_data_pr.py:242-252: a run whose candidate differs from the open
\* draft's reports "updated".  So nothing disturbed, no run fails.
UndisturbedRunSucceeds ==
    edits = 0 /\ faults = 0 => \A r \in Runs : run[r].pc # "failed"
=============================================================================
