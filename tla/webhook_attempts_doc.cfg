CONSTANTS
  Accounts = {u1}
  Admin = admin
  Types <- BlogOnly
  PlatformOnly = {}
  Editors = {}
  Publishers = {p1}
  Testers = {t1}
  Worker = w
  MaxAttempts = 2
  BatchLimit = 1
  EndpointLimit = 1
  Legacy = {}
  StoredPlatform = {1}
  StoredCount = 1
  MaxEndpoints = 1
  MaxEvents = 1
  MaxEdits = 0
  MaxLosses = 0
  MaxShutdowns = 0
  None = None
SPECIFICATION Spec
INVARIANT AttemptedAtMost
