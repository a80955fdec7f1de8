CONSTANTS
  Accounts = {u1}
  Admin = admin
  Types <- BlogAndPatch
  PlatformOnly <- PatchOnly
  Editors = {ed1, ed2}
  Publishers = {p1}
  Testers = {}
  Worker = w
  MaxAttempts = 1
  BatchLimit = 1
  EndpointLimit = 1
  Legacy = {}
  StoredPlatform = {}
  StoredCount = 1
  MaxEndpoints = 1
  MaxEvents = 1
  MaxEdits = 2
  MaxLosses = 0
  MaxShutdowns = 0
  None = None
SPECIFICATION Spec
PROPERTY PlatformOnlyDelivery
