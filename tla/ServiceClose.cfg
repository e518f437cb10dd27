\* A new session, then close while its summary is still to be written.
SPECIFICATION FairSpec
CONSTANTS
    o1 = o1
    o2 = o2
    w1 = w1
    None = None
    Closer = Closer
    JobWorker = JobWorker
    Ops = {o1}
    Workers = {w1}
    Kinds = {"session"}
    ConfirmHigh = TRUE
    Pending = 1
    MaxAsks = 1
    MaxCalls = 2
CHECK_DEADLOCK FALSE
PROPERTIES
    CloseReturns
