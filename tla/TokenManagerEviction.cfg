\* A state table that is too small for the accounts, an idle entry at every tick, refused credentials.
CONSTANTS
    o1 = o1
    s1 = s1
    r1 = r1
    r2 = r2
    r3 = r3
    Account = {o1, s1}
    SessionAccount = {s1}
    Request = {r1, r2}
    StateId = {1, 2, 3}
    NoState = NoState
    NoRequest = NoRequest
    Skew = 1
    Cooldown = 1
    Attempts = 1
    MaxEntries = 1
    IdleTTL = 0
    CleanupInterval = 1
    Lifetimes = {2}
    Faults = {}
    RequestSpan = 1
    MaxTime = 2
    MaxGrants = 2
SPECIFICATION Spec
SYMMETRY Symmetry
INVARIANT TableBounded
INVARIANT RememberedIsOneGrant
CHECK_DEADLOCK FALSE
