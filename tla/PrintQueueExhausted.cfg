CONSTANTS
    Agents = {a1}
    Spools = {}
    V1Agents = {}
    NumJobs = 1
    VirtualJobs = {}
    MaxPrintAttempts = 3
    ClaimLimit = 1
    LeaseTimes = {1}
    MaxTokens = 4
SPECIFICATION Spec
CHECK_DEADLOCK FALSE
INVARIANT ExhaustedIsFailed
