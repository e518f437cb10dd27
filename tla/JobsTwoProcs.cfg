\* Two processes on one database; the callers share an idempotency key.
SPECIFICATION Spec
CONSTANTS
    j1 = j1
    j2 = j2
    k1 = k1
    mail = mail
    run = run
    NoKey = NoKey
    Keys = {k1}
    Scopes <- MCScopes
    Types <- MCTypes
    RetrySafe <- MCRetrySafe
    MaxAttempts <- MCMaxAttempts
    TypeOf <- MCTypeOf
    Jobs = {j1, j2}
    Procs = {p1, p2}
    ScopeOf <- SharedScopeOf
    KeyOf <- SharedKeyOf
    MaxLives = 1
    MaxFaults = 0
    MaxGrants = 1
SYMMETRY ProcSymmetry
INVARIANTS
    CancelIsSticky
    KeyMeansOneJob
PROPERTIES
    TerminalIsFinal
    ImplementsLifecycle
