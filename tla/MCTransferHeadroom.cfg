SPECIFICATION FairSpec
CONSTANTS
    a = a
    b = b
    Wardens = {a, b}
    Share <- BothShare
    Amounts <- OneAmount
    Trusted <- BothWays
    GapWindow = 2
    Batch = 1
    HistoryBatch = 2
    MaxResource = 3
    MaxSeq = 2
PROPERTY EveryTransferFinalizes
