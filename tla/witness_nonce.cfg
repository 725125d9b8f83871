SPECIFICATION Spec
CONSTANTS
  Batches <- MCBatches
  Accounts <- MCAccounts
  ChainId <- MCChainId
  EndBatch = 1
INVARIANTS
  NonceKnown
