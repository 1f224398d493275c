SPECIFICATION FairSpec
CONSTANTS
  k1 = k1
  u1 = u1
  u2 = u2
  Keys = {k1}
  Uploads = {u1, u2}
  KeyOf <- OneKey
  Sender <- Senders
  Workers = {w1, w2}
  None = none
  MaxAttempts = 2
  MayMiss = {w1}
  MaxCrashes = 1
  StoreFails = TRUE
INVARIANTS OneClaimant OriginalsKept
PROPERTIES LeftoverRemoved
CHECK_DEADLOCK FALSE
