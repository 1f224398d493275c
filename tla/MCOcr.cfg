SPECIFICATION OcrSpec
CONSTANTS
  Clients = {c1, c2}
  c1 = c1
  c2 = c2
  MaxAttempts = 2
  Processes = {1, 2}
  OcrLimit = 1
  MaxFaults = 2
INVARIANTS
  BoundedOcr
  DrainedIsIdle
PROPERTY EveryBatchSettles
CHECK_DEADLOCK FALSE
