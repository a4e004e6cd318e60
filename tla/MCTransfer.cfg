SPECIFICATION Spec
CONSTANTS
    a = a
    b = b
    Wardens = {a, b}
    Share <- OneShare
    Amounts <- OneAmount
    Trusted <- BothWays
    GapWindow = 2
    Batch = 1
    HistoryBatch = 1
    MaxResource = 20
    MaxSeq = 3
INVARIANTS
    AckKeptWhileNeeded
PROPERTIES
    ImplementsEscrow
