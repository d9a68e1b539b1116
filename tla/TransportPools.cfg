\* The three pools: races of lookups, cleanup, eviction, removal of an account and Close.
CONSTANTS
    direct = direct
    k1 = k1
    k2 = k2
    k3 = k3
    g1 = g1
    g2 = g2
    Key = {direct, k1, k2, k3}
    Direct = direct
    Goroutine = {g1, g2}
    MaxEntries = 2
    IdleTTL = 0
    CleanupInterval = 2
    MaxTime = 2
    MaxMade = 4
SPECIFICATION Spec
SYMMETRY Symmetry
INVARIANT TypeOK
INVARIANT NoLeakedTransport
PROPERTY EvictsOldestProxied
CHECK_DEADLOCK FALSE
