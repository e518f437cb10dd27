\* Two callers who use every command, one process, raising calls.
SPECIFICATION Spec
CONSTANTS
    p1 = p1
    p2 = p2
    main = main
    other = other
    Home <- MCHome
    Main <- MCMain
    Procs = {p1}
    Callers = {main, other}
    Requests <- MCShared
    Attempts = 2
    StepAttempts = 1
    Recreates = TRUE
    JobCalls = TRUE
    MaxCalls = 3
    MaxLives = 1
    MaxFaults = 1
CHECK_DEADLOCK FALSE
INVARIANTS
    TypeOK
    ApprovedFirst
PROPERTIES
    EndedIsKept
