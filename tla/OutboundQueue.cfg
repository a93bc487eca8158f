CONSTANTS
    o1 = o1
    Orders = {o1}
    NoOrder = NoOrder
    Commands <- OneCommand
    Callers = {p1}
    Workers = {w1, w2}
    Orphan = Orphan
    NoOwner = NoOwner
    NoCommand = NoCommand
    MaxSendAttempts = 2
    BatchLimit = 1
    MaxCrashes = 1
    MaxSlowSends = 1
SPECIFICATION FairSpec
CHECK_DEADLOCK FALSE
INVARIANTS SentIsDelivered OpenHasBudget LeaseOwnerIsSending
PROPERTIES ResolvedStaysResolved EveryCommandResolves
