CONSTANTS
  Accounts = {a1}
  Enrolled = {a1}
  Requests = {q1, q2}
  MaxFailures = 2
  LockTime = 1
  EnrollmentTTL = 1
  RecoveryTTL = 2
  ConfirmTTL = 2
  MaxTime = 3
  MaxLinks = 1
  MaxRequests = 2
  MaxFaults = 0
  None = None
SYMMETRY RequestSymmetry
SPECIFICATION Spec
INVARIANT RecoveryOnce
