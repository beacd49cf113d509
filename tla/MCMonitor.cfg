CONSTANTS
    None = None
    Nil = Nil
    one = one
    NoReading = None
    Instance = "nas"
    NameOf <- MCNameOf
    GoodNames = {"web", "db", "gone"}
    Settings <- MCSettings
    HostAnswers <- MCHosts
    LocalAnswers <- MCLocal
    Listings <- MCListings
    UsageAnswers <- MCUsage
    PoolAnswers <- MCPools
    Requests = {one}
    TriageBodies <- MCTriage
    IntentBodies <- MCIntent
    Answers <- MCAnswers
    MaxTicks = 2
SPECIFICATION Spec
INVARIANT TypeOK
INVARIANT Judged
PROPERTY HeardAndSeen
CHECK_DEADLOCK FALSE
