\* Two callers and the worker of one process.
SPECIFICATION Spec
CONSTANTS
    p1 = p1
    p2 = p2
    main = main
    tool = tool
    Home <- MCHome
    Local <- UTC
    Day = 8
    Week = 3
    Ids = {r1}
    Procs = {p1}
    Callers = {main, tool}
    Slots = {0, 1}
    Recurrences <- MCRecurrences
    Attempts = 3
    MaxNow = 1
    MaxCalls = 2
    MaxLives = 0
    MaxFaults = 0
    JobCancels = FALSE
CHECK_DEADLOCK FALSE
SYMMETRY CallerSymmetry
INVARIANTS
    TypeOK
    ScheduleFits
    ScheduleKept
    NothingLeftOver
