SPECIFICATION Spec
CONSTANTS
  h1 = h1
  h2 = h2
  t1 = t1
  t2 = t2
  t3 = t3
  t4 = t4
  Hosts <- MCHosts
  Threads <- MCThreads
  HostOf <- MCHostOf
  OptMem = FALSE
SYMMETRY Symmetry
CONSTRAINT Unspoilt
INVARIANTS
  TypeOK
  SetupsAgree
  RoundTrip
  OneRole
PROPERTIES
  WarmIsSafe
