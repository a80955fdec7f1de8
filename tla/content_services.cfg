CONSTANTS
  Services = {"lists", "questions", "notifications", "blog", "proposals"}
  Requests = {q1, q2}
  MaxRequests = 4
  MaxFaults = 1
  None = None
  Posters = {a1}
  PostLimit = 1
  ListLimit = 2
  MaxStored = 1
  b1 = b1
  b2 = b2
  s1 = s1
  Slugs = {s1}
  Builds = {b1, b2}
  Released <- Releases
  Readers = {a1}
  MaxTicks = 1
  Authors = {a1, a2}
  RFCMaintainers = {a2}
SYMMETRY Symmetry
SPECIFICATION Spec
INVARIANTS
  TypeOK
  ListsPromise
PROPERTIES
  QuestionsPromise
  NotificationsPromise
  BlogPromise
  ProposalsPromise
