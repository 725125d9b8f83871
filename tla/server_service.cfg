SPECIFICATION Spec
CONSTANTS
  ParamsAtStart <- SomeParams
  Workers = {w1, w2}
  Calls = {k1, k2}
  Requests <- EveryRequest
  Traces <- AllTraces
  ChainId <- MCChainId
  MaxTxs <- MCMaxTxs
  MaxFaults = 1
  OptMem = FALSE
INVARIANTS
  OnlyProvedOnDisk
PROPERTIES
  ServicePromise
  WorkSurvives
