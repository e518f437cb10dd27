\* Requests, cancellations, a durable step and close, with fairness.
SPECIFICATION FairSpec
CONSTANTS
    o1 = o1
    o2 = o2
    w1 = w1
    None = None
    Closer = Closer
    JobWorker = JobWorker
    Ops = {o1, o2}
    Workers = {w1}
    Kinds = {"answer", "session"}
    ConfirmHigh = TRUE
    Pending = 1
    MaxAsks = 1
    MaxCalls = 3
CHECK_DEADLOCK FALSE
INVARIANTS
    TypeOK
    HighToolsAsked
    StreamFits
    LimitsKept
    QuietAfterClose
PROPERTIES
    EndsWhenTold
