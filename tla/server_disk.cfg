SPECIFICATION Spec
CONSTANTS
  ParamsAtStart <- InPlace
  Workers = {w1, w2}
  Calls = {k1, k2}
  Requests <- ForkRequests
  Traces <- ForkTraces
  ChainId <- MCChainId
  MaxTxs <- MCMaxTxs
  MaxFaults = 1
  OptMem = FALSE
SYMMETRY Symmetry
INVARIANTS
  TypeOK
  TornOnlyInFlight
  AloneIsCoherent
  OneSeedOnDisk
PROPERTIES
  ComputedProofReturned
