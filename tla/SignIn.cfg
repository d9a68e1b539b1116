\* Session keys, one or two in a request; and browser sign-ins on the process's own map, with
\* more sessions than entries, and on Core's runtime state, with lost replies and processes that
\* are replaced while callbacks run.
CONSTANTS
    s1 = s1
    s2 = s2
    s3 = s3
    w1 = w1
    w2 = w2
    State = {s1, s2, s3}
    Worker = {w1, w2}
    TTL = 1
    MaxEntries = 2
    MaxTime = 3
    Duties <- SameDuty
    MaxKeys = 2
SPECIFICATION SignInSpec
SYMMETRY Symmetry
INVARIANT TypeOK
INVARIANT OfferIsRedeemable
INVARIANT OneResultPerKey
PROPERTY OneTime
CHECK_DEADLOCK FALSE
