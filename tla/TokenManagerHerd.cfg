\* Goroutines that share one OAuth account over several lifetimes; answers of the endpoint may get lost.
CONSTANTS
    o1 = o1
    s1 = s1
    r1 = r1
    r2 = r2
    r3 = r3
    Account = {o1}
    SessionAccount = {}
    Request = {r1, r2}
    StateId = {1}
    NoState = NoState
    NoRequest = NoRequest
    Skew = 1
    Cooldown = 1
    Attempts = 2
    MaxEntries = 2
    IdleTTL = 9
    CleanupInterval = 1
    Lifetimes = {4}
    Faults = {"lost"}
    RequestSpan = 1
    MaxTime = 6
    MaxGrants = 3
SPECIFICATION FairSpec
INVARIANT NoSpuriousDenial
PROPERTY CallCarriesNewestToken
PROPERTY EveryRequestReturns
PROPERTY LearnedTokenReachesCore
CHECK_DEADLOCK FALSE
