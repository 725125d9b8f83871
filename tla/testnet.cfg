SPECIFICATION Spec
CONSTANTS
  Batches <- MCBatches
  Accounts <- MCAccounts
  ChainId <- MCChainId
  EndBatch = 2
INVARIANTS
  TypeOK
  ReplayAgreesWithProofs
  ChainOfUsers
  EachReported
PROPERTIES
  WitnessBuilt
