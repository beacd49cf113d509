CONSTANTS
    Calls = {a, b}
    Tick = tick
    Loads <- MCLoads
    a = a
    b = b
    Bindings <- MCBindings
    Backoff = 2
    MaxFailures = 1
SPECIFICATION FairSpec
INVARIANT TypeOK
PROPERTY ProtectedUntouched
INVARIANT AuditTruthful
PROPERTY Recovers
PROPERTY Answered
CHECK_DEADLOCK FALSE
