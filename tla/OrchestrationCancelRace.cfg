\* A delegation that is cancelled while its agent works.
SPECIFICATION Spec
CONSTANTS
    p1 = p1
    p2 = p2
    main = main
    other = other
    Home <- MCHome
    Main <- MCMain
    Procs = {p1}
    Callers = {main, other}
    Requests <- MCSingle
    Attempts = 2
    StepAttempts = 2
    Recreates = FALSE
    JobCalls = FALSE
    MaxCalls = 1
    MaxLives = 0
    MaxFaults = 0
CHECK_DEADLOCK FALSE
INVARIANTS
    FailedCanBeResumed
