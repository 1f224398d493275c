SPECIFICATION FairSpec
CONSTANTS
  old = old
  new = new
  Original = original
  NoClaim = noclaim
  NoTicket = noticket
  Versions = {old, new}
  UploadVersion <- UploadOld
  Target <- TargetSwap
  o1 = o1
  o2 = o2
  Documents = {d1}
  Operations = {o1, o2}
  Workers = {w1, w2}
  MaxAttempts = 2
  HeartbeatsHold = FALSE
  MayDelete = TRUE
  MayRequeue = TRUE
  MaxFence = 2
  MaxSerial = 4
  MaxCrashes = 1
INVARIANTS ReadyIsSearchable
PROPERTIES SupersededWorkerIsHarmless ReadyNeverDegrades LiveJobNeverReplaced EveryDocumentSettles
CHECK_DEADLOCK FALSE
