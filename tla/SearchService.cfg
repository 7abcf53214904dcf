SPECIFICATION ServiceSpec
CONSTANTS
    Searches = {s1, s2, s3}
    Keys <- ThreeKeys
    Catalog <- TwoPackages
    Responses <- MixedResponses
    ScopeConfirmed = TRUE
    CacheLimit = 2
    TimeToLive = 2
    Deadline = 1
    MaxTime = 4
SYMMETRY AnySearch
INVARIANTS CacheSound
PROPERTIES AnswersRecent
CHECK_DEADLOCK FALSE
