SPECIFICATION Spec
CONSTANTS
  Documents = {d1, d2}
  Streams = {s1, s2}
  None = none
  MaxTurns = 2
  MaxCrashes = 1
  MayExpire = TRUE
SYMMETRY Symmetric
INVARIANTS NothingHiddenIsShown
PROPERTIES OthersNeverEndATurn ImplementsTurns
CHECK_DEADLOCK FALSE
