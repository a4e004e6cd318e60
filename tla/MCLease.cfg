SPECIFICATION MCSpec
CONSTANTS
  Leases = {1, 2, 3}
  Share = 2
  Amounts = {1, 2}
  Capabilities = {"c"}
  Transitions <- OneStep
  InitialState = "s"
  Nonces = {n1, n2}
  Ttls = {2}
  ReceiptTtl = 2
  Uncertainty = 1
  Skew = 1
  MaxDepth = 2
  Cascade = 2
  Batch = 1
  Horizon = 3
  MaxSequence = 2
  MaxTime = 4
INVARIANTS
    Accounted
    ReclaimedAfterReceipts
PROPERTIES
    AuthorityOnlyShrinks
SYMMETRY NonceSymmetry
