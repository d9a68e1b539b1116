\* One request and the accounts of Forwarding.cfg.
CONSTANTS
    k = k
    o = o
    e = e
    b = b
    u = u
    NoAccount = NoAccount
    r1 = r1
    r2 = r2
    Requests = {r1}
    Accounts = {k, o, b, e, u}
    Pools <- Mixed
    Type <- Types
    Gated = {o}
    Bare = {b, e}
    Empty = {e}
    Clients <- TwoClients
    RegistryCap = 1
    QueueCap = 1
    MaxTokens = 2
    MaxBans = 1
SPECIFICATION Spec
INVARIANT CondemnedForGood
CHECK_DEADLOCK FALSE
