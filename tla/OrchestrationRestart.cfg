\* The orchestration commands across restarts, with fairness.
SPECIFICATION FairSpec
CONSTANTS
    p1 = p1
    p2 = p2
    main = main
    other = other
    Home <- MCHome
    Main <- MCMain
    Procs = {p1}
    Callers = {main, other}
    Requests <- MCRequests
    Attempts = 3
    StepAttempts = 2
    Recreates = FALSE
    JobCalls = FALSE
    MaxCalls = 2
    MaxLives = 2
    MaxFaults = 0
CHECK_DEADLOCK FALSE
INVARIANTS
    RunReflectsSteps
    RunFitsJob
PROPERTIES
    RunSettles
