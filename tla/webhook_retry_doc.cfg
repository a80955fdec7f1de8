CONSTANTS
  Accounts = {u1}
  Admin = admin
  Types <- BlogOnly
  PlatformOnly = {}
  Editors = {ed1}
  Publishers = {p1}
  Testers = {}
  Worker = w
  MaxAttempts = 2
  BatchLimit = 1
  EndpointLimit = 1
  Legacy = {}
  StoredPlatform = {1}
  StoredCount = 2
  MaxEndpoints = 2
  MaxEvents = 1
  MaxEdits = 1
  MaxLosses = 0
  MaxShutdowns = 0
  None = None
SPECIFICATION FairSpec
PROPERTY RetriedUntilSettled
