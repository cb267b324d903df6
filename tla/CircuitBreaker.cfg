SPECIFICATION FairBreakerSpec
CONSTANTS
    FailureThreshold = 2
    RecoveryTimeout = 2
    Agents = {a1, a2}
    Calls = {c1, c2, c3}
INVARIANTS
    CircuitConsistent
    PausedOnConsecutiveFailures
PROPERTIES
    PauseNotExtended
    PauseEnds
