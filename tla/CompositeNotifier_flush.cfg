SPECIFICATION FairSpec
CONSTANTS
    a = a
    b = b
    Callers = {a, b}
    Notifiers = {slack}
    Cap = 2
    MaxCalls <- FourAndOne
    None = None
CHECK_DEADLOCK FALSE
INVARIANT CloseFlushes
