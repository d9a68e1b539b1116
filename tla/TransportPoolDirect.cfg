\* The cap is reached while the direct connection has an entry.
CONSTANTS
    direct = direct
    k1 = k1
    k2 = k2
    k3 = k3
    g1 = g1
    g2 = g2
    Key = {direct, k1, k2}
    Direct = direct
    Goroutine = {g1, g2}
    MaxEntries = 2
    IdleTTL = 1
    CleanupInterval = 2
    MaxTime = 3
    MaxMade = 3
SPECIFICATION Spec
SYMMETRY Symmetry
PROPERTY EvictsOldest
CHECK_DEADLOCK FALSE
