\* One clock step past the skew either way; a batch smaller than the log.
SPECIFICATION NodeSpec
CONSTANTS
    PeerNonces = {m1, m2}
    Times = {0, 1, 2, 3}
    PeerSkew = 1
    MaxHeld = 2
    ReplayBatch = 1
    Threads = {"w1", "w2", "o", "f1", "f2", "c"}
    Use <- NodeUse
    RestartId <- NodeRestartId
    MaxChanges = 1
    MaxPriority = 2
    MaxLifetimes = 2
    ExportBatch = 2
    Retain = 1
    MaxPending = 1
    MaxLog = 3
    MaxExportFaults = 2
    MaxRestores = 1
INVARIANTS
    AcceptedAtMostOnce
    AloneInTheStore
    FenceIsTerminal
    NothingDroppedUnexported
    HealthyMeansExported
PROPERTIES
    NobodyWaitsForever
    ExportCatchesUp
