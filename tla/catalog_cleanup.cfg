SPECIFICATION MCSpec
CONSTANTS
  o1 = o1
  o2 = o2
  o3 = o3
  s1 = s1
  Operations = {o1, o2, o3}
  Attempts = {a1, a2, a3}
  Undos = {u1, u2}
  Societies = {s1}
  Request <- OneUpsert
  None = None
  Kept = Kept
SYMMETRY CleanupSymmetry
INVARIANTS
  CTypeOK
  UnfinishedIsSpared
  ServedIsSpared
  WrittenBeforeNamed
CHECK_DEADLOCK FALSE
