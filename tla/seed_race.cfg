SPECIFICATION Spec
CONSTANTS
  Callers = {c1, c2}
  MaxCrashes = 0
INVARIANTS
  SeedReturned
