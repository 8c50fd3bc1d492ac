SPECIFICATION CrashSpec
CONSTANTS
  o1 = o1
  o2 = o2
  o3 = o3
  s1 = s1
  s2 = s2
  Operations = {o1, o2, o3}
  Attempts = {a1, a2, a3}
  Undos = {u1}
  Societies = {s1, s2}
  Request <- TwoSocieties
  None = None
  Kept = Kept
SYMMETRY AttemptSymmetry
INVARIANTS
  TypeOK
  ServedIsRecorded
  ReportedWasPublished
  StaleWindow
  PointerFollowsHistory
  NeverRebased
  NoLostUpdate
PROPERTIES
  ImplementsPublication
  RecordedProgressIsKept
CHECK_DEADLOCK FALSE
