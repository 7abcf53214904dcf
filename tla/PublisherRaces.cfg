SPECIFICATION Spec
CONSTANTS
    r1 = r1  r2 = r2  r3 = r3  r4 = r4  n1 = n1  n2 = n2
    index = index  detail = detail  source = source  old = old  new = new
    Runs = {r1, r2}
    PRNums = {n1, n2}
    Paths = {index, detail, source}
    Allowed <- MCAllowed
    Required <- MCRequired
    Contents = {old, new}
    Absent = Absent  Link = Link  NoCommit = NoCommit  NoPR = NoPR
    BaseTrees <- MovingBase
    Worktrees <- CandidateOrNone
    Seeds <- RefreshedSeed
    StaleListing = FALSE
    MaxActive = 2
    MaxPolls = 2
    MaxEdits = 3
    MaxFaults = 0
SYMMETRY RunAndNumberSymmetry
INVARIANTS ReportedHeadIsCandidate
PROPERTIES HandPushSurvives ClosesOnlySeenDraft
CHECK_DEADLOCK FALSE
