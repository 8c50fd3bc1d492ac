SPECIFICATION PromptSpec
CONSTANTS
  Writers = {w1, w2, w3}
  None = None
  Replaces <- AsRead
  MaxTries = 2
SYMMETRY WriterSymmetry
PROPERTY ConflictLeavesUnchanged
CHECK_DEADLOCK FALSE
