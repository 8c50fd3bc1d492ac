SPECIFICATION TrioSpec
CONSTANTS
  a = a
  b = b
  c = c
  r1 = r1
  r2 = r2
  d1 = d1
  d2 = d2
  d3 = d3
  Runs = {r1, r2}
  Drivers = {d1, d2, d3}
  Carries <- TrioCarries
  Assets = {a, b, c}
  Dependencies <- Trio
  Order <- TrioOrder
  Forced <- TrioForced
  NoInput <- TrioInput
  Promotes <- TrioPromotes
  Pinned = {a}
  Required = b
  Manual = {b, c}
  Stale = {a}
  MaxAttempts <- TrioMaxAttempts
  None = None
SYMMETRY DriverSymmetry
INVARIANTS
  DTypeOK
  LineageHolds
  DependenciesFirst
  CurrentIsRecorded
  OneCandidatePerDriver
  SucceededIsUpToDate
PROPERTIES
  PromotedOnItsPlan
  LostStaysLost
  ResultsAreKept
CHECK_DEADLOCK FALSE
