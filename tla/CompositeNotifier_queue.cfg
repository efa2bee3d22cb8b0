SPECIFICATION FairSpec
CONSTANTS
    a = a
    b = b
    Callers = {a, b}
    Notifiers = {slack}
    Cap = 2
    MaxCalls <- FourAndOne
    None = None
INVARIANTS TypeOK AcceptedAccountedFor AtMostOnce DispatchedInOrder
PROPERTIES NotifyReturns CloseTerminates AcceptedDispatched ImplementsOutbox
CHECK_DEADLOCK FALSE
