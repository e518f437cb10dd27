\* Two processes, calls that raise, delivery jobs that are cancelled directly.
SPECIFICATION Spec
CONSTANTS
    p1 = p1
    p2 = p2
    main = main
    tool = tool
    Home <- MCHome
    Local <- UTC
    Day = 8
    Week = 3
    Ids = {r1}
    Procs = {p1, p2}
    Callers = {main}
    Slots = {0}
    Recurrences <- MCRepeating
    Attempts = 3
    MaxNow = 0
    MaxCalls = 1
    MaxLives = 0
    MaxFaults = 1
    JobCancels = TRUE
CHECK_DEADLOCK FALSE
INVARIANTS
    FiredOnce
PROPERTIES
    OldJobsHarmless
