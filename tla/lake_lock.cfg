SPECIFICATION FairSpec
CONSTANTS
  Writers = {w1, w2, w3}
  None = None
  Replaces <- AsRead
  MaxTries = 2
INVARIANTS
  LTypeOK
  LockExcludes
PROPERTIES
  ImplementsPutIf
  CallIsAnswered
CHECK_DEADLOCK FALSE
