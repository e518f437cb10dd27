\* Delivery across a crash or a close, with fairness, and where it leads.
SPECIFICATION FairSpec
CONSTANTS
    p1 = p1
    p2 = p2
    main = main
    tool = tool
    Home <- MCHome
    Local <- UTC
    Day = 8
    Week = 3
    Ids = {r1}
    Procs = {p1}
    Callers = {main}
    Slots = {1}
    Recurrences <- MCRecurrences
    Attempts = 3
    MaxNow = 2
    MaxCalls = 1
    MaxLives = 1
    MaxFaults = 0
    JobCancels = FALSE
    Zones <- MCZones
    Schedules <- MCRules
    Late <- MCLate
    Moments <- MCMoments
CHECK_DEADLOCK FALSE
INVARIANTS
    MovesToFirstLater
PROPERTIES
    DueIsDelivered
