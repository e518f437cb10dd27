\* One process that is crashed, closed and restarted, with fairness.
SPECIFICATION FairSpec
CONSTANTS
    j1 = j1
    j2 = j2
    k1 = k1
    mail = mail
    run = run
    NoKey = NoKey
    Keys = {k1}
    Scopes <- MCScopes
    Types <- MCTypes
    RetrySafe <- MCRetrySafe
    MaxAttempts <- MCMaxAttempts
    TypeOf <- MCTypeOf
    Jobs = {j1, j2}
    Procs = {p1}
    ScopeOf <- PairScopeOf
    KeyOf <- PairKeyOf
    MaxLives = 2
    MaxFaults = 1
    MaxGrants = 1
INVARIANTS
    TypeOK
    AttemptsAccounted
    OneApprovalPerRepeat
    WorkerOwnsRunning
PROPERTIES
    CancelTakesEffect
    JobsSettle
