SPECIFICATION FairSpec
CONSTANT Plans <- RemotePlans
INVARIANTS
    RightsConserved
    SettledMeansInert
PROPERTIES
    RevocationIsFinal
    RevocationArrives
