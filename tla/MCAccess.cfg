SPECIFICATION Spec
CONSTANTS
  Folders = {f1, f2}
  Files = {d1}
  Members = {m1}
  Teams = {t1}
  Root = root
  Absent = absent
  Gone = gone
  None = none
  Asked <- SomeOperations
  MaxDepth = 4
  MaxGrants = 3
  MaxCreates = 1
SYMMETRY Symmetric
INVARIANTS NothingBeyondGrants TreeSound
PROPERTIES PreviewHonoured
CHECK_DEADLOCK FALSE
