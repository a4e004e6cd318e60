SPECIFICATION FairSpec
CONSTANTS
    Targets <- TwoTargets
    Reachable <- SecondUp
    BatchSize = 1
    PrefixBatch = 1
    Loads <- LongStreamOrNewEpoch
INVARIANTS
    NothingGoesUnsent
    RecordsOutliveTheirAttempt
PROPERTIES
    Drains
