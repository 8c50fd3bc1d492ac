SPECIFICATION SerialSpec
CONSTANTS
  o1 = o1
  o2 = o2
  o3 = o3
  s1 = s1
  s2 = s2
  Operations = {o1, o2, o3}
  Attempts = {a1, a2, a3, a4}
  Undos = {}
  Societies = {s1}
  Request <- OneUpsert
  None = None
  Kept = Kept
SYMMETRY FullSymmetry
INVARIANT StaleWasNeverPublished
CHECK_DEADLOCK FALSE
