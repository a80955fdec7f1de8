------------------------------ MODULE Sponsors ------------------------------
(***************************************************************************)
(* The sponsors' page (internal/sponsor): the collective's supporters, as  *)
(* Open Collective names them, kept for an hour.                           *)
(*                                                                         *)
(* Collective holds one mutex while it looks at its cache and while it     *)
(* fetches, so that readers wait for whoever fetches.  The cache is lost   *)
(* when the process dies.  Faults are fetches that fail.                   *)
(***************************************************************************)
EXTENDS Handlers

CONSTANTS
  Supporters,
  Tiers,       \* the collective's tiers
  RetiredTier, \* the tier of memberships in a tier that is not listed
  Lifetime,    \* an hour, in ticks of the clock
  MaxHours     \* bound: ticks of the clock

ASSUME SponsorsAssumption ==
  /\ RetiredTier \notin Tiers
  /\ Lifetime \in Nat \ {0} /\ MaxHours \in Nat

Times    == 0 .. MaxHours
\* What is listed: the members of each tier, and who supported once.
Listing  == [members : [Tiers -> SUBSET Supporters], once : SUBSET Supporters]
Cached   == [listing : Listing, fetched : Times, refreshed : Times]
SponsorCalls == [at : {"lock", "check", "fetch"}, now : Times]
Answer   == [now : Times, item : Cached \cup {None}, failed : BOOLEAN]

\* None is no time, call, answer or collective.
ASSUME NoSponsorsAssumption == None \notin Nat \cup SponsorCalls \cup Cached \cup Answer

VARIABLES
  hour,      \* the clock
  mutex,     \* the handler that holds the lock, or None
  cache,     \* the cached collective, or None
  expires,   \* when the cache expires, or None
  answer,    \* history: the last answer, when it was looked for and whether a fetch failed for it
  known      \* history: a fetch has succeeded since the start

sponsorVars == <<hour, mutex, cache, expires, answer, known>>

SponsorsInit ==
  /\ hour = 0 /\ mutex = None
  /\ cache = None /\ expires = None
  /\ answer = None /\ known = FALSE

Pass == hour < MaxHours /\ hour' = hour + 1 /\ UNCHANGED <<handlers, mutex, cache, expires, answer, known>>

-----------------------------------------------------------------------------
(* What the collective's page says.                                        *)

\* Open Collective's answer: active memberships, and who contributed in public and is active
\* without a membership that recurs.
Reports == [memberships : SUBSET (Supporters \X (Tiers \cup {RetiredTier})), contributed : SUBSET Supporters]

Listed(report) ==
  [members |-> [t \in Tiers |-> {s \in Supporters : <<s, t>> \in report.memberships}],
   once    |-> {s \in report.contributed : \A t \in Tiers : <<s, t>> \notin report.memberships}]

-----------------------------------------------------------------------------
Collective(p) == Begin(p, [at |-> "lock", now |-> hour]) /\ UNCHANGED sponsorVars

\* Mutant: nobody waits.
LockNot(p) ==
  /\ At(p, "lock") /\ Goto(p, "check")
  /\ mutex' = p
  /\ UNCHANGED <<hour, cache, expires, answer, known>>

Lock(p) ==
  /\ At(p, "lock") /\ Goto(p, "check")
  /\ mutex = None /\ mutex' = p
  /\ UNCHANGED <<hour, cache, expires, answer, known>>

Answered(now, item, failed) == [now |-> now, item |-> item, failed |-> failed]

\* With the lock held, the time is read and the cache looked at.
CheckCache(p) ==
  /\ At(p, "check")
  /\ IF expires # None /\ hour < expires
     THEN Return(p) /\ mutex' = None /\ answer' = Answered(hour, cache, FALSE)
     ELSE Continue(p, [at |-> "fetch", now |-> hour]) /\ UNCHANGED <<mutex, answer>>
  /\ UNCHANGED <<hour, cache, expires, known>>

\* The answer is as old as the time the handler read, the data as the fetch.
Fetch(p) ==
  LET now == req[p].now IN
  /\ At(p, "fetch") /\ Return(p)
  /\ \E report \in Reports :
       cache' = [listing |-> Listed(report), fetched |-> hour, refreshed |-> now]
  /\ mutex' = None
  /\ expires' = now + Lifetime
  /\ answer' = Answered(now, cache', FALSE)
  /\ known' = TRUE
  /\ hour' = hour

\* What was fetched last is answered, if anything was; the next reader tries again.
FetchFailed(p) ==
  /\ At(p, "fetch") /\ Fault(p, None)
  /\ mutex' = None
  /\ answer' = Answered(req[p].now, cache, TRUE)
  /\ UNCHANGED <<hour, cache, expires, known>>

CrashSponsors ==
  /\ Crash
  /\ mutex' = None /\ cache' = None /\ expires' = None
  /\ answer' = None /\ known' = FALSE
  /\ hour' = hour

SponsorsNext ==
  \/ Pass
  \/ \E p \in Requests : Collective(p) \/ Lock(p) \/ CheckCache(p) \/ Fetch(p) \/ FetchFailed(p)
  \/ CrashSponsors

-----------------------------------------------------------------------------
\* Every variable has its type, and the lock is held by the one handler inside it.
SponsorsTypeOK ==
  /\ HandlersIn("sponsors", SponsorCalls)
  /\ hour \in Times /\ known \in BOOLEAN
  /\ cache \in Cached \cup {None}
  /\ expires \in Nat \cup {None}
  /\ answer \in Answer \cup {None}
  /\ {p \in Of("sponsors") : req[p].at # "lock"} = {mutex} \ {None}

\* Readers see data that is less than an hour old, except whoever's own fetch has failed, who
\* sees what was fetched last and an error only if nothing ever was: a failure is no excuse
\* for the next reader (sponsor.Collective leaves the expiry when a fetch fails).
SponsorsFresh ==
  answer # None =>
    IF answer.failed THEN answer.item = None <=> ~ known
    ELSE answer.item # None /\ answer.item.fetched + Lifetime > answer.now

\* However many readers wait for the lock, the collective is fetched once in an hour and the
\* waiting ones are answered from the cache (sponsor.Collective looks at it under the lock).
FetchedHourly ==
  [][cache' \notin {cache, None} => expires = None \/ expires <= cache'.refreshed]_sponsorVars

\* Nobody is thanked twice: whoever is a member of a tier is not a one-time supporter too,
\* whatever the two lists of Open Collective say (sponsor.fetch).
ThankedOnce ==
  answer # None /\ answer.item # None =>
    \A t \in Tiers : answer.item.listing.members[t] \cap answer.item.listing.once = {}

\* Readers see recent data, listed once, that is asked for no more than once in an hour.
SponsorsPromise == [](SponsorsFresh /\ ThankedOnce) /\ FetchedHourly
=============================================================================
