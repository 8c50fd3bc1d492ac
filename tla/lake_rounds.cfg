SPECIFICATION Spec
CONSTANTS
  Writers = {1, 2, 3, 4}
  None = 0
  Replaces <- Newer
  MaxRounds = 2
INVARIANTS
  OTypeOK
  LosesToOthersOnly
PROPERTY ImplementsPutIf
CHECK_DEADLOCK FALSE
