CONSTANTS
    o1 = o1
    Orders = {o1}
    NoOrder = NoOrder
    Commands <- RaceCommands
    Callers = {p1, p2}
    Workers = {}
    Orphan = Orphan
    NoOwner = NoOwner
    NoCommand = NoCommand
    MaxSendAttempts = 2
    BatchLimit = 1
    MaxCrashes = 0
    MaxSlowSends = 0
SPECIFICATION Spec
CHECK_DEADLOCK FALSE
INVARIANT NothingFollowsReject
