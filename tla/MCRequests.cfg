SPECIFICATION RequestSpec
CONSTANTS
    Workloads <- OneDrain
    MaxAttempts = 2
    MaxCalls = 1
    FreePool = 1
PROPERTY ExactRetryAnswered
CHECK_DEADLOCK FALSE
