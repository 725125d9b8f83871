SPECIFICATION Spec
CONSTANTS
  Batches <- MCBatches
  SubCircuits <- MCSubCircuits
  DegreeRows = 4
  Spared = 1
  MaxInnerBlocks = 3
INVARIANTS
  TypeOK
  AcceptedFits
  KeepsLongestFit
  ProofKeepsTxs
  ProvedCountHonest
  PanicOnlyWithoutTxs
