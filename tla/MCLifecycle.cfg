\* Two bundles, a killed restore and a lost database; a command killed three
\* times; pages of one row over a log of up to three.
SPECIFICATION LifecycleSpec
CONSTANTS
    MaxBundles = 2
    Starts <- RecoveryStarts
    MaxEvents = 3
    MaxShelves = 2
    MaxKills = 1
    MaxDisasters = 1
    Sites <- MigrationSites
    MaxAudit = 5
    MaxDeaths = 3
    PageSize = 1
    MaxAge = 2
    Plans <- ObservationPlans
INVARIANTS
    OldIsKept
    RestoredIsQuiescent
    UsableMeansAdmitted
    ReadyIsRecentTruth
    VouchedIsVerified
    NoFalseAlarm
PROPERTIES
    NeverRollsBack
    RestoreCompletes
    MigrationCompletes
    DecayEndsReadiness
CHECK_DEADLOCK FALSE
