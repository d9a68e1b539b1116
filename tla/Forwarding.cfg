\* Two requests, an API key, an OAuth account for Claude Code only, a setup token.
CONSTANTS
    k = k
    o = o
    e = e
    b = b
    u = u
    NoAccount = NoAccount
    r1 = r1
    r2 = r2
    Requests = {r1, r2}
    Accounts = {k, o, b, e, u}
    Pools <- Mixed
    Type <- Types
    Gated = {o}
    Bare = {b, e}
    Empty = {e}
    Clients <- TwoClients
    RegistryCap = 1
    QueueCap = 1
    MaxTokens = 2
    MaxBans = 1
SPECIFICATION Spec
SYMMETRY Symmetry
INVARIANT GivesUpOnlyWhenExhausted
INVARIANT BilledIsServed
INVARIANT CondemnedForCause
CHECK_DEADLOCK FALSE
