SPECIFICATION BothSpec
CONSTANTS
  Commands <- MCCommands
  VerifyCommands <- MCVerifyCommands
  ParamsAtStart <- MCParams
  MaxTxs <- MCMaxTxs
  MaxFaults = 1
  OptMem = FALSE
INVARIANTS
  VerifyTypeOK
  TakenAreWhole
  OwnDirectories
PROPERTIES
  CleanRunSucceeds
  VerifiedOnceTaken
