SPECIFICATION FairSpec
CONSTANTS
  o1 = o1
  o2 = o2
  o3 = o3
  s1 = s1
  s2 = s2
  Operations = {o1, o3}
  Attempts = {a1, a2}
  Undos = {u1}
  Societies = {s1, s2}
  Request <- TwoSocieties
  None = None
  Kept = Kept
INVARIANT OnlyACrashKeepsItsLease
PROPERTY OpenedIsClosed
CHECK_DEADLOCK FALSE
