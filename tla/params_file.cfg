SPECIFICATION Spec
CONSTANTS
  Makers = {m1, m2}
  Loaders = {r1}
  Chunks = 2
  MaxFaults = 1
INVARIANTS
  TypeOK
  WholeUnlessOverlap
  SettledIsWhole
PROPERTIES
  SettledForGood
  MakersSucceed
