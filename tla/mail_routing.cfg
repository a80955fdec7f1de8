CONSTANTS
  Local = {a1, a2}
  Remote = {r1, r2}
  Opened = {a1}
  Senders = {s1}
  MaxAttempts = 2
  BatchLimit = 2
  Unreadable = {1}
  MaxMessages = 2
  MaxRecipients = 2
  MaxLosses = 1
  MaxChanges = 1
  None = None
SPECIFICATION FairSpec
INVARIANTS
  TypeOK
  QueueAccounted
  SendersTold
PROPERTIES
  NeverResent
  ImplementsLifecycle
  SettledUnlessStranded
