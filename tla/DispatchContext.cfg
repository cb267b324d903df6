SPECIFICATION FairSpec
CONSTANTS
    FailureThreshold = 2
    RecoveryTimeout = 1
    Tasks = {t1, t2}
    Agents = {a1}
    Prompts = {p1}
    Sessions = {s1}
    MaxConcurrency = 2
    MaxRetries = 1
    MaxLedger = 1
    NoEntry = NoEntry
PROPERTIES
    CacheHitInContext
