\* Two callers over two generations, with orderly and with disorderly calls.
CONSTANTS
    c1 = c1
    c2 = c2
    Caller = {c1, c2}
    Buffer = 1
    ProbeMax = 2
    AccountMax = 1
    MaxGen = 2
SPECIFICATION FairSpec
INVARIANT QuietAfterStop
INVARIANT NeverPanics
INVARIANT ProbesBounded
INVARIANT OneLiveGeneration
PROPERTY JobsStayInGeneration
PROPERTY CallsReturn
CHECK_DEADLOCK FALSE
