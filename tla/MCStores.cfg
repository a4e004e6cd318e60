SPECIFICATION StoresSpec
CONSTANTS
    Stores = {p, q}
    MaxCommits = 2
    Workloads <- RequestWorkloads
    MaxAttempts = 2
    MaxCalls = 1
    FreePool = 1
SYMMETRY StoreSymmetry
INVARIANTS
    ReliedOnIsDurable
    CommittedOnce
PROPERTIES
    RefusedIsNotCommitted
CHECK_DEADLOCK FALSE
