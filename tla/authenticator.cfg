CONSTANTS
  Accounts = {a1}
  Enrolled = {}
  Requests = {q1, q2}
  MaxFailures = 2
  LockTime = 1
  EnrollmentTTL = 1
  RecoveryTTL = 2
  ConfirmTTL = 2
  MaxTime = 3
  MaxLinks = 3
  MaxRequests = 4
  MaxFaults = 2
  None = None
SYMMETRY RequestSymmetry
SPECIFICATION Spec
INVARIANTS
  TypeOK
  EnrolmentHolds
PROPERTY CodesJudged
