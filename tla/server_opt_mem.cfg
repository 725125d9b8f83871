SPECIFICATION Spec
CONSTANTS
  ParamsAtStart <- InPlace
  Workers = {w1, w2}
  Calls = {k1, k2}
  Requests <- AggRequests
  Traces <- AggTraces
  ChainId <- MCChainId
  MaxTxs <- MCMaxTxs
  MaxFaults = 0
  OptMem = TRUE
PROPERTIES
  ComputedProofReturned
