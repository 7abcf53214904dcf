SPECIFICATION Spec
CONSTANTS
    r1 = r1  r2 = r2  r3 = r3  r4 = r4  n1 = n1  n2 = n2
    index = index  detail = detail  source = source  old = old  new = new
    Runs = {r1, r2, r3, r4}
    PRNums = {n1}
    Paths = {index, detail, source}
    Allowed <- MCAllowed
    Required <- MCRequired
    Contents = {old, new}
    Absent = Absent  Link = Link  NoCommit = NoCommit  NoPR = NoPR
    BaseTrees <- PlainBase
    Worktrees <- RefreshedOnly
    Seeds <- ExtendedSeed
    StaleListing = FALSE
    MaxActive = 1
    MaxPolls = 2
    MaxEdits = 0
    MaxFaults = 1
INVARIANTS RerunsHeal
CHECK_DEADLOCK FALSE
