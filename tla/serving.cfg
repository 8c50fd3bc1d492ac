SPECIFICATION Spec
CONSTANTS
  None = None
  c1 = c1  c2 = c2  c3 = c3
  q1 = q1  q2 = q2  q3 = q3
  m1 = m1  m2 = m2  f1 = f1  f2 = f2
  Callers = {c1, c2, c3}
  Queries = {q1, q2, q3}
  Mutations = {m1, m2}
  Versions <- MCVersions
  Weight <- MCWeight
  Traffic <- MCTraffic
  ResponseCapacity = 2  ResponseMaxBytes = 2
  MaxInFlight = 2  SearchSlots = 2
  RevisionCapacity = 1  RevisionMaxBytes = 2
  SemanticCapacity = 2  SemanticMaxBytes = 2
  Reloads = {1}
  ComputeSlots = 1
INVARIANTS STypeOK CachesAreAccounted AnsweredFromItsSnapshot RevisionsRunOnce
  ReservationsAreHeld AdmittedIsNotRefused NoPermitIsLost
PROPERTY RequestsEnd
CHECK_DEADLOCK FALSE
