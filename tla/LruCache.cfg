SPECIFICATION Spec
CONSTANTS
    Keys = {k1, k2, k3, k4}
    Sizes = {1, 3, 6}
    MaxEntries = 3
    MaxBytes = 4
    TTL = 1
    MaxTime = 2
    Wrap = 1024
    Nil = Nil
INVARIANTS
    Consistent
    LimitsKept
PROPERTIES
    ImplementsLru
