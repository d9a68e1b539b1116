\* Every way a stream may end, what its events report, a client that is slow and one that is not.
CONSTANTS
    IdleTimeout = 2
    Window = 1
    MaxLines = 5
    StartUsage <- Starts
    DeltaUsage <- Deltas
SPECIFICATION MeteredFairSpec
INVARIANT SuccessIsComplete
INVARIANT CountedIsDelivered
INVARIANT IdleMeansStalled
INVARIANT ReportedIsDelivered
INVARIANT BilledIfComplete
PROPERTY StalledStreamEnds
PROPERTY ScannerLeaves
CHECK_DEADLOCK FALSE
