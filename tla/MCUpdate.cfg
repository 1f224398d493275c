SPECIFICATION Spec
CONSTANTS
  Releases = {1, 2, 3}
  Revision <- MCRevision
  EnvFiles = {api, ocr}
  MaxRuns = 2
  MaxFaults = 2
INVARIANTS RolledBackIsPrior WholeOrRecoverable
PROPERTIES OnlyForward
