CONSTANTS
    o1 = o1
    Orders = {o1}
    Creates = {c1}
    Cancels = {x1}
    RefOf <- OneRef
    Processors = {p1, p2}
    NoEvent = NoEvent
    MaxProcessingAttempts = 2
    MaxReprocess = 0
    MaxRestarts = 0
SPECIFICATION Spec
CHECK_DEADLOCK FALSE
INVARIANT NoCancelLeftWaiting
