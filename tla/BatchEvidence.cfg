SPECIFICATION Spec
CHECK_DEADLOCK FALSE
CONSTANTS
    Baseline = 2
    Decisions <- MCDecisions
    Workflows <- MCWorkflows
    Actions <- MCActions
    Packages <- MCPackages
    Batches = {1, 2}
    Prefetching <- MCPrefetching
    Legacy = legacy
    Strict = strict
    Nonces = {1, 2}
    Worlds <- MCWorlds
    CommitAt <- MCCommitAt
    Reports <- MCReports
    MaxActive = 2
    MaxCached = 2
    MaxRuns = 4
    MaxPlans = 2
    p = p
    q = q
    legacy = legacy
    strict = strict
    other = other
INVARIANTS
    ScansRight
    AggregateTruthful
    EvidenceBelongs
    TopologyReviewed
    HonestAccepted
    ValidatorsAgree
