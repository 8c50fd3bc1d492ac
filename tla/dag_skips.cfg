SPECIFICATION Spec
CONSTANTS
  a = a
  b = b
  c = c
  r1 = r1
  r2 = r2
  d1 = d1
  d2 = d2
  d3 = d3
  Runs = {r1}
  Drivers = {d1, d2}
  None = None
  Assets = {a, b}
  Dependencies <- Pair
  Order <- PairOrder
  Forced <- PairForced
  NoInput <- PairInput
  Promotes <- PairPromotes
  Carries <- PairCarries
  MaxAttempts <- PairMaxAttempts
  Pinned = {}
  Required = b
  Manual = {}
  Stale = {}
SYMMETRY DriverSymmetry
INVARIANT SkippedIsUnavailable
CHECK_DEADLOCK FALSE
