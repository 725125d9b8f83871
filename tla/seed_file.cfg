SPECIFICATION Spec
CONSTANTS
  Callers = {c1, c2, c3}
  MaxCrashes = 1
INVARIANTS
  TypeOK
  SeedAgreement
  ShortOnlyInCreation
PROPERTIES
  OperatorSeedKept
  SeedSettles
