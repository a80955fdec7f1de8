CONSTANTS
  Accounts = {u1}
  Admin = admin
  Types <- BlogOnly
  PlatformOnly = {}
  Editors = {ed1}
  Publishers = {p1}
  Testers = {}
  Worker = w
  MaxAttempts = 2
  BatchLimit = 2
  EndpointLimit = 1
  Legacy = {2}
  StoredPlatform = {1}
  StoredCount = 2
  MaxEndpoints = 2
  MaxEvents = 1
  MaxEdits = 1
  MaxLosses = 1
  MaxShutdowns = 1
  None = None
SPECIFICATION FairSpec
INVARIANTS
  TypeOK
  WorkerCopiesFresh
  RetriesExact
PROPERTIES
  SettledForGood
  ImplementsLifecycle
  SettledUnlessOrphans
