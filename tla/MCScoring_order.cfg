SPECIFICATION Spec
CONSTANTS
    Requests <- MCRequests
    Matches <- MCMatches
    FileOf <- MCFileOf
    Slashed = {"m/2"}
    Players = {"a", "b"}
    NaN = NaN
    Nil = Nil
    RequireSig = TRUE
    AllowedKeys = {"game"}
    SchemaID = "v1"
    Counters <- MCCounters
    Quantiles <- MCQuantiles
    ConfigSchema = "v1"
    SignalCap = 1024
    MaxSignal = 2
    Soft <- MCSoft
    RiskCap = 1536
    Unit = 64
    Keep <- MCKeep
    MaxTime = 3
    MaxLines = 3
INVARIANTS
    TypeOK
    RiskIsBounded
    SignalIsBounded
    NeverOverstated
    InOrderIsExact
    FailureIsExplained
CHECK_DEADLOCK FALSE
