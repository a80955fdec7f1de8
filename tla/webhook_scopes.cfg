CONSTANTS
  Accounts = {u1}
  Admin = admin
  Types <- BlogAndPatch
  PlatformOnly <- PatchOnly
  Editors = {ed1, ed2}
  Publishers = {p1}
  Testers = {t1}
  Worker = w
  MaxAttempts = 1
  BatchLimit = 1
  EndpointLimit = 1
  Legacy = {}
  StoredPlatform = {}
  StoredCount = 1
  MaxEndpoints = 3
  MaxEvents = 1
  MaxEdits = 2
  MaxLosses = 1
  MaxShutdowns = 0
  None = None
SPECIFICATION Spec
INVARIANTS
  DeliveriesDue
  LimitOvershoot
  AttemptsLeft
PROPERTIES
  EndpointNeverRegresses
