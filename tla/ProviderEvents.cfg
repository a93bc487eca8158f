CONSTANTS
    o1 = o1
    Orders = {o1}
    Creates = {c1}
    Cancels = {x1}
    RefOf <- OneRef
    Processors = {p1, p2}
    NoEvent = NoEvent
    MaxProcessingAttempts = 2
    MaxReprocess = 1
    MaxRestarts = 1
SPECIFICATION FairSpec
CHECK_DEADLOCK FALSE
INVARIANTS ProcessedIsTrue RetryBudget
PROPERTY ParkedCancelTakenUp
