SPECIFICATION FairSpec
CONSTANTS
  Baseline = baseline
  None = none
  Chunks = {c1, c2}
  Operations = {o1}
  Workers = {w1, w2}
  BatchSize = 2
  TaskAttempts = 3
  MaxCrashes = 1
  MaxQualify = 2
INVARIANTS OneEffectiveTaskClaim
PROPERTIES CutoverCovers OperationEnds
CHECK_DEADLOCK FALSE
