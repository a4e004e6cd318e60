SPECIFICATION OperationSpec
CONSTANTS
    Bounds <- KernelBounds
    Kernels <- VectorKernels
    Setups <- ProtoSetups
    Callers = {p, q}
    Leases = {l1, l2}
    Nonces = {r1, r2}
    Ttls = {2}
    Uncertainty = 1
    Uncertainties = {1}
    Skew = 1
    GcBatch = 1
    MaxSequence = 2
    MaxTime = 4
    Workers = {p, q}
    ReplayIds = {r1, r2}
    MaxClaims = 2
    MaxDatabases = 2
    MaxRestores = 1
SYMMETRY WorkerSymmetry
INVARIANTS
    EffectsInOrder
    FaultsCaughtAsExpected
    ConservedPerDimension
    RevokedBranchesInert
    EffectRunsOnce
PROPERTIES
    FencedForCause
CHECK_DEADLOCK FALSE
