SPECIFICATION FairSpec
CONSTANTS
    Producers = {p1, p2}
    Consumers = {c1, c2, c3}
    Tasks = {t1, t2}
    Capacity = 2
    Modulus = 8
INVARIANTS
    PendingIsLength
    MutexServesAll
PROPERTIES
    WaitsItsTurn
    EveryDequeueReturns
    ImplementsFifo
