SPECIFICATION LiveSpec
CONSTANTS
  Leases = {1, 2}
  Share = 2
  Amounts = {1}
  Capabilities = {"c"}
  Transitions <- OneStep
  InitialState = "s"
  Nonces = {n1}
  Ttls = {1, 2}
  ReceiptTtl = 1
  Uncertainty = 0
  Skew = 0
  MaxDepth = 2
  Cascade = 2
  Batch = 1
  Horizon = 2
  MaxSequence = 1
  MaxTime = 3
PROPERTIES
    RightsReturn
    EveryTransferFinalizes
