SPECIFICATION Spec
CONSTANTS
    BatchCount = 2
    MaxPolls = 2
    MaxFailures = 2
    MaxRuns = 4
    MaxOrchestrations = 2
    MaxPushes = 1
    MaxMeddling = 2
    MaxDisturbances = 3
INVARIANTS AssembledExact SummaryAfterSuccess
PROPERTIES SucceededMeansAssembled EveryWaitBounded
CHECK_DEADLOCK FALSE
