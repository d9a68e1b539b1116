\* The Messages call may fail on the wire after a refresh.
CONSTANTS
    o1 = o1
    s1 = s1
    r1 = r1
    r2 = r2
    r3 = r3
    Account = {o1}
    SessionAccount = {}
    Request = {r1, r2}
    StateId = {1}
    NoState = NoState
    NoRequest = NoRequest
    Skew = 1
    Cooldown = 1
    Attempts = 2
    MaxEntries = 2
    IdleTTL = 9
    CleanupInterval = 1
    Lifetimes = {4}
    Faults = {"lost", "neterr"}
    RequestSpan = 1
    MaxTime = 5
    MaxGrants = 3
SPECIFICATION FairSpec
PROPERTY LearnedTokenReachesCore
CHECK_DEADLOCK FALSE
