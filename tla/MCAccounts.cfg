SPECIFICATION Spec
CONSTANTS
  Users = {u1, u2}
  Passwords = {p1, p2}
  Sessions = {s1, s2, s3}
  Requests = {r1, r2}
  Browsers = {b1, b2}
  None = none
  FailureLimit = 2
  FailureCap = 3
  GuessedFrom = 0
  Changes <- SomeChanges
  CodeLimit = 2
  MaxCodes = 2
  MaxVersion = 3
SYMMETRY Symmetric
INVARIANTS AdminRemains SessionKnowsPassword GuessesBounded
PROPERTIES OwnerProvedTheCode
CHECK_DEADLOCK FALSE
