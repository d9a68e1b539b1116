\* Goroutines that share one OAuth account, every fault around the plugin, a table with room.
CONSTANTS
    o1 = o1
    s1 = s1
    r1 = r1
    r2 = r2
    r3 = r3
    Account = {o1}
    SessionAccount = {}
    Request = {r1, r2}
    StateId = {1, 2}
    NoState = NoState
    NoRequest = NoRequest
    Skew = 1
    Cooldown = 1
    Attempts = 2
    MaxEntries = 2
    IdleTTL = 1
    CleanupInterval = 1
    Lifetimes = {0, 2}
    Faults = {"lost", "crash", "revoke", "neterr", "admin"}
    RequestSpan = 1
    MaxTime = 3
    MaxGrants = 2
SPECIFICATION Spec
SYMMETRY Symmetry
INVARIANT OneRefreshPerAccount
INVARIANT RememberedIsOneGrant
PROPERTY DeadOnlyIfDenied
PROPERTY RefreshOnlyWhenStale
CHECK_DEADLOCK FALSE
