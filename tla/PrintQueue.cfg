CONSTANTS
    a1 = a1
    a2 = a2
    s1 = s1
    Agents = {a1, a2}
    Spools = {s1}
    V1Agents = {v1}
    NumJobs = 2
    VirtualJobs = {2}
    MaxPrintAttempts = 2
    ClaimLimit = 2
    LeaseTimes = {1, 2}
    MaxTokens = 4
SPECIFICATION MCSpec
CHECK_DEADLOCK FALSE
INVARIANTS TypeOK HistoryContiguous OneRowPerToken AnswerBackedByHistory OpenIsUndecided
PROPERTIES LiveLeaseNotStolen StatusFollowsAttempt
