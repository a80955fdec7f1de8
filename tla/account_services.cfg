CONSTANTS
  Services = {"accounts", "administration", "mailboxes", "votes", "patches", "documents", "community", "mirrors", "sponsors", "images", "startup"}
  Requests = {q1, q2}
  MaxRequests = 3
  MaxFaults = 1
  None = None
  Platform = platform
  Accounts = {a1, a2, a3}
  Residents = {a1, a2}
  Names = {n1, n2, n3}
  Owners = {o1, o2}
  Admins = {d1}
  Members = {}
  Addresses <- PlatformAddresses
  Targets = {t1}
  Voters = {v1, v2}
  Kinds = {several, single}
  Singles = {single}
  r1 = r1
  r2 = r2
  g1 = g1
  g2 = g2
  g3 = g3
  Releases = {r1, r2}
  Pages = {g1, g2, g3}
  ReleasePages <- PagesOf
  Redirects <- RedirectsOf
  Participants = {u1, u2}
  OwnerSpaces = {log}
  OpenSpaces = {general}
  PostingOwners = {u1}
  Repositories = {wave}
  MaxCommits = 2
  Supporters = {s1}
  Tiers = {gold}
  RetiredTier = retired
  Lifetime = 2
  MaxHours = 4
  Converters = 1
SYMMETRY Symmetry
SPECIFICATION Spec
INVARIANTS
  TypeOK
  MailboxesPromise
  VotesPromise
  PatchesPromise
  CommunityPromise
  ImagesPromise
PROPERTIES
  AccountsPromise
  OwnersPromise
  DocumentsPromise
  MirrorsPromise
  SponsorsPromise
