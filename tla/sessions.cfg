CONSTANTS
  Accounts = {a1}
  Enrolled = {}
  Requests = {q1, q2}
  MaxReplacements = 2
  MaxRequests = 5
  MaxFaults = 1
  None = None
SPECIFICATION FairSpec
INVARIANTS
  TypeOK
  RevokedUnlessInterrupted
  SurvivorsBounded
PROPERTIES
  OwedEnd
