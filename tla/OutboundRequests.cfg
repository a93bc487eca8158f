CONSTANTS
    o1 = o1
    Orders = {o1}
    NoOrder = NoOrder
    Commands <- OrderCommands
    Callers = {p1, p2}
    Workers = {}
    Orphan = Orphan
    NoOwner = NoOwner
    NoCommand = NoCommand
    MaxSendAttempts = 2
    BatchLimit = 1
    MaxCrashes = 0
    MaxSlowSends = 0
SPECIFICATION Spec
SYMMETRY Symmetry
CHECK_DEADLOCK FALSE
PROPERTY FirstContestStands
