# Wave Platform: specifications

TLA+ modules of the server of this repository (`src/cmd`, `src/internal`): what its
components keep in the store, what their operations do to it when they overlap, fail or are
cut short by a crash, and what can be relied on all the same. TLC checks the modules on
small instances, TLAPS proves some of the results for every value of the constants.

Paths below are relative to `src/internal/` unless they start with `src/`.

## 1. The system

One Go process (`src/cmd/server/main.go`, `platform/application.go`) serves HTTP, listens
for SMTP, and runs three background loops (webhook deliveries, mail deliveries, mirror
synchronization). Its state is a Badger key-value store in the data directory; Docker
Compose restarts the process when it dies. Four facts shape every module:

- **Each repository call is a transaction of its own.** `storage.Database` offers `Get`,
  `Set`, `Delete`, a read-only `Scan` and an `Update`. A service method is a sequence of such
  calls, and nothing makes the sequence atomic. One action of a module is therefore one call
  (with the local computation around it); two handlers interleave between calls.
- **Records are written whole.** Most edits load a record, change fields and store it
  again, so whatever was written in between is undone.
- **`Update` is optimistic.** It conflicts only on keys it read, and a conflict is returned as an
  error; no caller retries.
- **Any call can fail, and the process can die between two calls.** What was stored before stays.

### Components

| Component | State | Operations | Interacts with | What is hard |
| --- | --- | --- | --- | --- |
| storage | all keys and values; blobs | Get, Set, Delete, Scan, Update | everything | conflicts, failures, crashes between calls |
| webhook | endpoints, deliveries | save, delete, test an endpoint; Publish; the worker | blog, community, RFCs, patches publish; HTTP endpoints | worker and test handler post one delivery; stale batches; lost writes; deleted endpoints |
| mail, identity (mail), mailruntime | messages, deliveries, mailbox entries | SendMail, SendManagementMail, sendSystemMail, AcceptSMTP; the worker | mailboxes, SMTP | recipients routed one by one; the attempt is stored before it is sent |
| auth (TOTP), identity (accounts) | factors, enrollments, recovery and confirmation links | Verify, register, rotate, recover, confirm the address | accounts, mail, sessions | one lock, around Verify only; factors written whole by the others |
| session | sessions and an index by account | Put, Verify, Delete, DeleteByAccount | identity, admin | revocation is scan, then delete one by one |
| account | accounts; indexes by name, address, alias | Create, Update, aliases, lookups | identity, admin, mail | previous keys are read outside the transaction |
| mailbox | mailboxes, entries, address index | folders, flags, address changes | identity, mail | entries written whole; address move across two stores |
| permission, admin | role assignments, settings | assign, status | accounts, sessions | rights read before the decision they allow |
| audit | a numbered log | Append | patches, blog, RFCs, admin, media | one sequence number, no second try |
| mailinglist | lists, subscriptions, reservations, entries | post, reply, receive, subscribe, threads | mail, webhook | limits counted without a conflict; threads from whatever has arrived |
| patcharchive | patches, reviews, comments | receive, review, comment, download | mail, audit, webhook | series from mail headers; a decision and its audit event |
| community | threads, votes, views, subscriptions | post, reply, vote, view, subscribe | mail, notifications, webhook | six calls for a post, any of which may be the last |
| question | questions, answers, votes | ask, answer, accept, vote, page, list | mail, notifications | a question read early is written whole |
| rfc | proposals, comments, a counter | create, edit, change status, comment | audit, webhook | numbering; edits of drafts against status changes |
| blog | posts, comments | save, comment, moderate; import of releases | webhook, audit | first publication; comment rate limit |
| notification | items for each account | notify, list, mark read | community, questions, lists | cap, pruning, marking all read |
| document | documents, revisions, paths, an import marker | import at the start, catalogue, pages | | imports cut short, by this release or another |
| gitmirror | records in memory and store, mirrors | synchronize, read pages | git | pages of several calls while the mirror moves |
| media | files | store, open | native policy library | two at a time, temporary file and rename |
| sponsor | a cache | read | remote API | one mutex held over the fetch |
| application | what a start stores: first administrator, platform mailboxes, default lists | start, take back, start again | accounts, auth, mailbox, permission, audit, mailinglist | cut short anywhere, before the role that makes the account an administrator's |
| web, handlers, config, search, health, xmlcodec, clock, identifier, editor, sourceanalysis, waveruntime | none of their own | | | |
| frontend, android, editor packages, tools | none of the platform | | | |

What makes the components correct, in one line each: a webhook or mail delivery is settled once,
after a bounded number of attempts, and only to whoever should get it; a sender told of success
has reached every recipient or left a queued delivery for it; a code is accepted once and
wrong codes lock the factor; replacing an authenticator or suspending an account ends its
sessions; an index entry and the record it names agree; a limit on postings, comments or notifications is
kept up to the number of handlers that overlap; an edit does not undo a decision (acceptance,
status, lock) made by somebody else; publication is announced once; a restart does not
repeat what was done.

`PROJECT.json` lists every component with its status, and under "hazards" the places where
the code is exposed, with the properties that cover each.

## 2. Modules

| Module | Models | Composes |
| --- | --- | --- |
| `DeliveryLifecycle` | the abstract promise of a delivery queue | |
| `WebhookDelivery` | `webhook/` and the start and stop in `platform/` | implements `DeliveryLifecycle` |
| `MailDelivery` | mail routing in `identity/`, `mail/`, `mailbox/`, `mailruntime/` | implements `DeliveryLifecycle` |
| `Authenticator` | `auth/totp.go` and its use in `identity/` | |
| `Sessions` | `session/` and what opens and revokes sessions in `identity/` and `admin/` | |
| `Handlers` | request handlers over `storage/`: calls, faults, crashes | |
| `Accounts` | `account/`, the address of `mailbox/`, the account operations of `identity/` | extends `Handlers` |
| `Administration` | `admin/`, `permission/`, `web/handler/admin.go` | extends `Handlers` |
| `Mailboxes` | `mailbox/`, the message store of `mail/`, mailbox operations of `identity/` | extends `Handlers` |
| `Votes` | votes and views of `community/` and `question/` | extends `Handlers` |
| `Patches` | `patcharchive/` and `audit/` | extends `Handlers` |
| `Documents` | `document/` | extends `Handlers` |
| `Community` | `community/` posts, replies, subscriptions | extends `Handlers` |
| `Mirrors` | `gitmirror/` | extends `Handlers` |
| `Sponsors` | `sponsor/` | extends `Handlers` |
| `Images` | `media/` | extends `Handlers` |
| `Lists` | `mailinglist/` | extends `Handlers` |
| `Questions` | `question/` | extends `Handlers` |
| `Notifications` | `notification/` | extends `Handlers` |
| `Blog` | `blog/` and the release import of `community/seed.go` | extends `Handlers` |
| `Proposals` | `rfc/` | extends `Handlers` |
| `Startup` | the records a start stores: `BootstrapTOTPAdmin` and `Register` of `identity/`, `EnsureDefaults` of `mailinglist/`, the refusals in `platform/` and `config/` | extends `Handlers` |
| `WebhookDelivery_proofs` | proofs about the webhook queue, and about publication, requests and endpoints | extends `WebhookDelivery` |
| `MailDelivery_proofs`, `Authenticator_proofs`, `Sessions_proofs` | proofs | extend the modules they are about |
| `Handlers_proofs` | lemmas on what a handler's step leaves of the handlers, on least and greatest numbers, and on ways up a forest | extends `Handlers` |
| `PublicServices_proofs` | proofs about `Documents`, `Community`, `Votes`, `Patches`, `Mirrors`, `Sponsors`, `Images` | extends `Handlers_proofs` and these |
| `AccountServices_proofs` | proofs about `Accounts`, `Administration`, `Mailboxes`, `Startup`, and about all services of `MCAccountServices` together | extends `PublicServices_proofs`, `MCAccountServices` |
| `ContentServices_proofs` | proofs about each service of `MCContentServices`, and of all together | extends `Handlers_proofs`, `MCContentServices` |
| `MCAccountServices` | | the ten services from `Accounts` to `Images`, and `Startup` |
| `MCContentServices` | | the five services from `Lists` to `Proposals` |
| the other `MC...` | scenarios and symmetry for TLC | extend their module |

`Authenticator` and `Sessions` split one flow at the call of `Verify`: `Authenticator` has codes,
links and the lock and lets anybody start any flow; `Sessions` has the account's status and the
order in which sessions are stored and revoked, and takes an accepted code as a choice.

### DeliveryLifecycle

A delivery is absent, waiting, delivered or failed. It is enqueued once; a recorded attempt delivers
it, leaves it waiting if attempts are left, or fails it when the last is used; a refusal fails it
without one. Nothing leaves "delivered" or "failed". Both queues are shown to implement it.

### WebhookDelivery

| State | Code |
| --- | --- |
| `endpoint`, `delivery` | the records under `webhook/endpoint` and `webhook/delivery` |
| `edit` | what `SaveEndpointScoped` or `DeleteEndpointScoped` has decided and not yet written |
| `publish` | the loop of `Publish`: endpoints whose delivery is not stored yet |
| `batch`, `request` | the slice `ProcessPending` iterates over; the HTTP request in flight |
| `stopping` | the runtime context is cancelled |
| `wanted`, `finished`, `tries`, `raced` | history: who was interested, which Publish returned nil, requests sent, writes that overlapped |

Actions: `CreateEndpoint`, `UpdateEndpoint`, `DeleteEndpoint` (read and checks) then `WriteEdit`;
`BeginPublish`, `StoreDelivery`, `EndPublish`, `FailPublish`; `BeginTest`; `Scan` (`Pending`:
due, oldest first, up to the limit); `Attempt` or `SkipMissing` or `RejectLegacy` for the next copy; `Answer`
(the outcome, stored or lost); `Tick`; `Shutdown`, `Stopped`, `Crash`. A test handler posts with
the same `Attempt` and `Answer` as the worker, from a copy of its own.

Time is relative: `wait` counts the minutes before `NextAttemptAt`. Endpoint addresses, request
bodies, signatures and response codes are abstracted to "the request succeeds or fails".

### MailDelivery

| State | Code |
| --- | --- |
| `mailbox` | addresses `MailboxByAddress` finds |
| `to`, `sentBox`, `inbox`, `delivery` | messages' recipients, Sent and Inbox entries, delivery records |
| `send` | a handler inside `SendMail`, `sendSystemMail` or `AcceptSMTP`: recipients still to route |
| `batch`, `request` | the loop of `processDeliveries`, the delivery being sent |

Actions: `SendMail`, `SendSystemMail`, `AcceptSMTP` (checks), `Post` (message and Sent
entry), `FileLocal`, `StoreDelivery`, `Bounce`, `Fail`, `Finish`, `Leave`; `ChangeAddress`,
`OpenMailbox`; `Scan`, `LoadFailed`/`LoadMissed`, `Mark` (status "delivering" and the attempt stored),
`MarkFailed`, `Send`, `Reply`; `Tick` (a minute, whatever is due or being sent), `Crash` (also a shutdown: `Run` does not wait for the worker).

### Authenticator

`factor` is the stored `TOTPFactor`, `link` the stored enrollments and links, `mutex` is
`TOTPService.mu`, `taken` the accounts, `req` where each handler is. A code is a secret and a
30-second step, valid for at most one step around now. `Examine` and `Record` are `Verify`
under the lock; `Reread` and `WriteFactor` are `PutFactorFromEnrollment`, `CompleteRecovery`
and `CompleteEmailVerification`, which do not take it; `CreateAccount`, `StoreFirst` and `StoreMailbox` are
`Register`; `DeleteFactor` and `DeleteAccount` are what it does when one of them fails (`Cleanup`), one call after the other, whether or not the one before
worked. `ledger`, `accepted`, `confirmed` and `uses` record what was
promised; `raced` names the accounts where a lock-free write overlapped another write of the factor, which is exactly
where the promises do not hold. `interrupted` names those whose handler a crash cut short or whose account could not be deleted.

### Sessions

A factor is reduced to its generation, the number of times it was replaced, and each session remembers the
one it was opened with. A sign-in is `BeginSignIn` (status), `Verify` (code), `OpenSession`; a rotation or
recovery is `BeginReplace`, `Replace`, `Unlink`, then `Scan` and `Sweep`, which are `DeleteByAccount`;
a suspension is `BeginStatus`, `StoreStatus`, then the same. `owed` records the sessions a replacement or suspension found open.
`AccountForToken` checks the status again on each request, so what survives a suspension
matters once the account is active again.

### The services over `Handlers`

The fifteen services below `Handlers`, and `Startup`, are written alike. A handler is a record whose field
`at` names the call of the store it makes next; its other fields are the local variables of the Go
method. `Begin` starts one, `Continue` and `Goto` are one call each, `Return` ends it, `Fault` is a call that
returns an error and what the method does then, and `Crash` ends all of them at once. What an operation reads
and keeps in a local variable is kept in the record, so a stale copy is stale in the model as well.

Each behaviour handles the requests of one service (`service`, chosen at the start): services share no
keys except where a module says so (`Votes` is used by two services, `Accounts` includes the mailbox's address,
`Patches` the audit log), so running two at once would only multiply their states.

Each module ends with its type invariant, its properties, and `...Promise`, their conjunction, which the runs check. A
part that does not hold when something overlaps or fails has an exception, a history variable that names the exact records
it happened to (`disturbed`, `overwritten`, `rewritten`, `crossed`, `resaved`, `spent`, `unswept`, `overtaken`, ...), so the property still says
something of all the others.

| Module | Actions for the operations of | Parts of its promise |
| --- | --- | --- |
| `Accounts` | Register, UpdateProfile, UpdateAccountStatus, ChangeWaveAddress, each load, check, transaction, move and undo of them | `IndexExact` a name finds the account that has it, and no other; `MailReaches` its address leads to its mailbox; `LinksLead` a name given up still leads to its last holder; `StatusStands` an edit does not undo a suspension |
| `Administration` | status and role decisions: authorize, check rights, load, store, sweep; sign-ins: status, then code and session | `OwnerRemains` owners cannot lock each other out; `SuspendedSignedOut` a suspended account has no session, but for one whose sweep failed or that was signing in when it was suspended |
| `Mailboxes` | storing and filing a message, edits, the platform's mailbox | `ListingsReadable`, `EditsKept`, `OnePlatformMailbox`, `AddressesComplete` |
| `Votes` | Vote, RecordView as optimistic transactions | `ScoresExact` a score is the sum of the votes; `ViewsExact` no answered view is lost |
| `Patches` | mail that arrives, review, comment, download, audit | `SeriesWhole` a series of several parts is one author's one version of one conversation, whatever the order of arrival, and a patch of its own (`Singles`) is shown alone; `LogComplete` |
| `Documents` | a start with a release: marker, pages, redirects, marker | `CatalogueReadable`, `ReleaseServed`, `ImportedOnce` |
| `Community` | CreatePost, AddReply, Subscribe, call by call | `RepliesBelong`, `PostsWhole` (a post's page, the list and the next start survive whatever was cut short), `SubscribersTold` |
| `Mirrors` | synchronizations, pushes, the four pages that name a commit | `RecordBacked`, `PagesPinned` a page is of one commit, `HeadsForward` |
| `Sponsors` | lock, cache, fetch, time | `SponsorsFresh`, `FetchedHourly`, `ThankedOnce` |
| `Images` | place, conversion, temporary file, rename | `PlacesReturned`, `ServedWhole` |
| `Startup` | starts with and without an administrator: look, ask for the role, register, take back, mailboxes, lists | `StartedWhole` a start that serves has all it needs; `NothingLeft` one that fails leaves no trace; `RefusedForCause` one that refuses its administrator found somebody else, the remains of a halted start, or could not read the role; `FounderStays` starting again is harmless |
| `Lists` | Subscribe, Post, Reply, mail that arrives | `LimitsOvershoot`, `ReservationsSpent`, `RepliesTogether`, `LinksFound` |
| `Questions` | Create, Answer, Accept, View, Query | `StatusAgrees`, `AcceptedShown`, `AcceptanceStands` |
| `Notifications` | Notify with its pruning, MarkRead, MarkAllRead | `StoredBounded`, `NewestKept`, `ReadStays` |
| `Blog` | Save, AddComment, SetCommentStatus, starts of builds, time | `AnnouncedOnce`, `RateOvershoot`, `ImportsYield` |
| `Proposals` | Create with its number, Update, UpdateStatus, AddComment | `DecisionsStand`, `CreationsStand`, `DraftsOnlyEdited` |

`StartupPromise` and `AdministrationPromise` are checked together as `OwnersPromise`: the platform gets an owner and keeps one. A
`Startup` behaviour begins with an empty store, with one that served before without an administrator, or with what a start
left that failed three times over.

Abstractions worth knowing: texts, names and addresses are members of small sets; what a check of wording or of an
outside library decides is a free choice; a record is named after the number of the request that made it, which stands for its
random identifier and its time; what is listed by time is listed by that number. Badger's conflict check is a flag on each
open transaction that a commit sets where it wrote a key the transaction has read.

## 3. Runs

Every bound is a constant named `Max...` and appears as a guard. The bounds are small but
are chosen so that the overlap in question happens: two of whatever must overlap, one loss or
fault at any point, one more request or attempt than a limit allows.

| Run | Question | Instance | Distinct states |
| --- | --- | --- | --- |
| `webhook_delivery` | Do retries stay bounded, settled deliveries settled, and is every delivery settled, over crashes, lost writes and a shutdown? | 2 endpoints (one without a scope), 1 event, an editor, 2 attempts, batch of 2 | 73 037 |
| `webhook_scopes` | What do overlapping saves and deletes do to scopes and limits, and tests, posted beside the worker, to attempts? | 2 editors, 3 endpoints, a tester, a reserved and an ordinary event type, 1 attempt, a loss | 529 970 |
| `mail_routing` | Is a sender told the truth? Is the queue exact about what was sent, and every delivery settled? | 2 local and 1 remote address, 2 messages (one unreadable) to 2 recipients each, batch of 2, a mailbox change, a loss | 456 891 |
| `authenticator` | When do codes count once and wrong codes lock the factor? | 1 account from its registration on, 2 handlers, 3 links, 4 requests, 2 faults | 2 885 830 |
| `sessions` | Does replacing an authenticator or suspending an account end its sessions? | 1 account, 2 handlers, 5 requests, 2 replacements, 1 fault | 275 227 |
| `account_services` | Does each of ten services, and the start, keep its promise? | any 3 requests of one service, 2 at a time, 1 fault; 3 accounts and names, 2 releases | 426 612 |
| `content_services` | Does each of five services keep its promise? | any 4 requests of one service, 2 at a time, 1 fault; daily limit 1, list limit 2, 1 notification kept, 2 builds | 1 027 723 |
| `daily_limit_doc`, `webhook_attempts_doc`, `webhook_retry_doc`, `webhook_scope_doc`, `authenticator_recovery_doc` | five sentences of the documentation and its comments | smallest that shows each | |

Why the bounds are enough: two handlers at a time make every pair of overlapping operations, and a
third or fourth request is what came before or looks at what is left. The services that need a
sequence of four (a question asked, answered twice and accepted; a post past a limit, twice) are in the second
run. One fault at any call is what a promise's exceptions are about; where a fault starts a cleanup
whose calls may fail in turn, two can do what one cannot, so `authenticator` has two.
`webhook_scopes` has one attempt, so that a test's and the worker's counts of one delivery cannot build up there; for more attempts `AttemptsLeft` rests on its theorem. The limits are as small as they can be so that the requests pass them.

What the passing runs show:

- **Webhook queue.** `WorkerCopiesFresh`: although the worker writes whole records back
  from copies read up to a batch ago, for published deliveries these copies are never stale.
  `RetriesExact`: requests exceed recorded attempts by one for each crash or lost write at most, and
  a delivery is given up only after all its attempts, less those a cancelled context consumed.
  `AttemptsLeft`: no copy, not even a test's, leads past the maximum on record. `SettledForGood`,
  `ImplementsLifecycle`, `SettledUnlessOrphans`.
- **Webhook publication and endpoints.** `DeliveriesDue`: a Publish that returned nil stored a delivery for
  each endpoint interested at its scan, nobody else ever has one, and platform events go to accounts' endpoints
  only where saves raced. `EndpointNeverRegresses`: scopes and deletions are only undone by a
  save decided on before another write. `LimitOvershoot`: an owner exceeds the limit by one less than the handlers that overlap.
- **Mail.** `QueueAccounted`, `NeverResent`: storing the attempt first means nothing is sent twice,
  at the price that each loss leaves one delivery "delivering" for ever, and never more.
  `SendersTold`: success means every recipient was routed, and a message shown as "delivered" reached everybody.
  `SettledUnlessStranded`: a delivery that waits is delivered or given up, with two exceptions. A loss may strand it; and a message that cannot be loaded is due again
  each minute for ever, so once as many older ones of that kind wait as a batch takes (`Crowded`; twenty in the code), newer ones may never be tried.
- **Authenticators.** `CodesJudged` (a code counts once, wrong codes lock) and `EnrolmentHolds` hold for every account where no
  lock-free write of the factor overlapped another write (`raced`); a link can do as much as the requests that hold it at a time;
  a user name stays taken that nobody can sign in to only after a crash, or after a failed registration whose account could not be deleted either.
- **Sessions.** `RevokedUnlessInterrupted`: no session open at the time of a replacement or suspension escapes.
  `SurvivorsBounded`: what is left afterwards are sign-ins that had already passed their checks, one for each other handler at most.
  `OwedEnd`: the revocation really finishes.
- **Start.** A call that fails is taken back and the next start succeeds. A crash between the administrator's account and its role is
  not: every later start finds an account of that name that is no owner's and refuses (`halted`), until somebody edits
  the store. A crash after the role leaves a platform that starts, without the audit event or the confirmation mail.
  An owner whose role cannot be read counts as none (`IsOwner`), so that one start refuses; the next may serve.
  An administrator named like one of the platform's own addresses is accepted, and then the start fails for ever.
- **Services.** The promises of section 2. Worth a reader's attention: suspending an account a second time does not end the
  sessions that a fault left open (`unswept`), nor the one that a sign-in stored which had read the status before the suspension (`overtaken`); a post whose first publication is cut short between its record and its event is never announced
  (`unannounced`); of two posts to a list at once both may pass the daily limit (`LimitsOvershoot` says by how much); after a newer release has
  been started, even in vain, going back to the older one serves what the newer left (`ReleaseServed`).

### Fairness

- `WebhookDelivery`: weak fairness of `Scan` and `Deliver(Worker)` (the ticker of `Run` fires again after each batch, and
  the HTTP client has a timeout), of `Tick` (time passes) and of `Stopped` (Compose restarts the process).
  Nothing is promised of endpoints answering well, of editors or of publishers.
- `MailDelivery`: weak fairness of `Scan` and `Process` (the worker goes through its batch, and scans again fifteen seconds later) and of `Tick`. Time does not wait for the worker: a minute
  may pass with deliveries due, in whatever the worker is doing. Senders, failures and crashes are free.
- `Sessions`: weak fairness of each request's next call; the Go scheduler runs every goroutine on.
  Verification may be refused and any call may fail, within the bound on faults.
- The services: none. Their promises are about safety; what a request leaves behind when it never goes on is what a crash leaves.

A bound on losses or faults means the liveness properties speak of runs in which these stop.

### Deadlock

Deadlock is checked everywhere: the request-driven modules have an explicit `Rest` or `Done` step in the
state where every request is answered, so a handler that could not go on would be reported. The queues always let time pass.

## 4. Documentation and code

Four sentences of the documentation and one comment are not what the code does; each has a run whose counterexample shows how.

| Run | Sentence | What happens |
| --- | --- | --- |
| `webhook_attempts_doc` | `src/docs/webhooks.md:124` "A delivery can be attempted up to five times." | a test is stored as queued and due, so its handler and the worker may both post it, each with its own count |
| `webhook_retry_doc` | `src/docs/webhooks.md:124` "If a delivery fails, Wave retries it." | deliveries of a deleted endpoint stay due, are the oldest, and fill the batch |
| `webhook_scope_doc` | `src/docs/webhooks.md:157` "Platform-only events are not delivered to account-scoped endpoints." | an owner's save that overlaps an administrator's puts the scope back while an event waits |
| `authenticator_recovery_doc` | `src/docs/configuration.md:34` "Recovery links ... can be used once." | two completions both read the link before either deletes it |
| `daily_limit_doc` | `src/internal/mailinglist/repository.go:133` "concurrent requests from the same account cannot race past the daily limit" | the transaction counts with an iterator that never reads an item, so Badger has no key to find in conflict, and both commit |

A sixth needs no overlap, and no run of its own: `src/README.md:41` and `src/.env.example:13` say to remove `WAVE_ADMIN_TOTP_SECRET` once
the owner exists. With the other administrator settings left in place, `config/loader.go:207` and `BootstrapTOTPAdmin` refuse the next
start ("must be configured together"); it is `Startup`'s `StartMisconfigured`, which asks nothing of the store. All three settings must go together.

## 5. Proofs

The theorems hold for every value of the constants that satisfies the assumptions of the modules: any number of accounts, endpoints,
messages, readers, requests at a time, faults, attempts.

| Theorem | Statement |
| --- | --- |
| `WebhookDelivery_proofs!TypeCorrect` | `Spec => []TypeOK` |
| `WebhookDelivery_proofs!AttemptsBounded` | `Spec => []AttemptsLeft` |
| `WebhookDelivery_proofs!CopiesFresh` | `Spec => []WorkerCopiesFresh` |
| `WebhookDelivery_proofs!Implements` | `Spec => ImplementsLifecycle` |
| `WebhookDelivery_proofs!Settled` | `Spec => SettledForGood` |
| `WebhookDelivery_proofs!RetriesCounted` | `Spec => []RetriesExact` |
| `WebhookDelivery_proofs!DeliveredToThoseDue` | `Spec => []DeliveriesDue` |
| `WebhookDelivery_proofs!NeverRegresses` | `Spec => EndpointNeverRegresses` |
| `WebhookDelivery_proofs!LimitHolds` | `Spec => []LimitOvershoot` |
| `MailDelivery_proofs!TypeCorrect` | `Spec => []TypeOK` |
| `MailDelivery_proofs!QueueHolds` | `Spec => []QueueAccounted` |
| `MailDelivery_proofs!DeliveredOnce` | `Spec => NeverResent` |
| `MailDelivery_proofs!TellsSenders` | `Spec => []SendersTold` |
| `MailDelivery_proofs!Implements` | `Spec => ImplementsLifecycle` |
| `Authenticator_proofs!TypeCorrect` | `Spec => []TypeOK` |
| `Authenticator_proofs!Enrolment` | `Spec => []EnrolmentHolds` |
| `Authenticator_proofs!Judged` | `Spec => CodesJudged` |
| `Sessions_proofs!TypeCorrect` | `Spec => []TypeOK` |
| `Sessions_proofs!Revoked` | `Spec => []RevokedUnlessInterrupted` |
| `Sessions_proofs!FewSurvive` | `Spec => []SurvivorsBounded` |
| `PublicServices_proofs!VotesKeepTheirPromise` | `VotesSpec => []VotesPromise` |
| `PublicServices_proofs!PatchesKeepTheirPromise` | `PatchesSpec => []PatchesPromise` |
| `PublicServices_proofs!ReleasesServed` | `DocumentsSpec => DocumentsPromise` |
| `PublicServices_proofs!PostsTogether` | `CommunitySpec => []CommunityPromise` |
| `PublicServices_proofs!MirrorsKeepTheirPromise` | `MirrorsSpec => MirrorsPromise` |
| `PublicServices_proofs!SponsorsUpToDate` | `SponsorsSpec => SponsorsPromise` |
| `PublicServices_proofs!UploadsSafe` | `ImagesSpec => []ImagesPromise` |
| `AccountServices_proofs!AccountsKeepTheirPromise` | `AccountsSpec => AccountsPromise` |
| `AccountServices_proofs!AdministrationKeepsItsPromise` | `AdministrationSpec => []AdministrationPromise` |
| `AccountServices_proofs!StartsKeepTheirPromise` | `StartupSpec => StartupPromise` |
| `AccountServices_proofs!MailboxesInOrder` | `MailboxesSpec => []MailboxesPromise` |
| `AccountServices_proofs!AccountServicesKeepTheirPromises` | `Spec => []TypeOK` and every property of the run `account_services` |
| `ContentServices_proofs!ListsKeepTheirPromise` | `ListsSpec => []ListsPromise` |
| `ContentServices_proofs!AnswersAccepted` | `QuestionsSpec => QuestionsPromise` |
| `ContentServices_proofs!NotificationsKeepTheirPromise` | `NotificationsSpec => NotificationsPromise` |
| `ContentServices_proofs!BlogKeepsItsPromise` | `BlogSpec => BlogPromise` |
| `ContentServices_proofs!DecisionsKept` | `ProposalsSpec => ProposalsPromise` |
| `ContentServices_proofs!ContentServicesKeepTheirPromises` | `Spec => []TypeOK` and every property of the run `content_services` |

Every safety property that a passing run checks is a theorem; the three liveness properties are not (see the end of this section).

### Assumptions

`SizeAssumption` and its like: bounds are naturals, positive where the code's are (`PostLimit` and `ListLimit`, `MaxStored`, `Converters`, `Lifetime`,
attempts, batches). Sets of handlers are finite where requests are counted (`RequestsAssumption` of `Authenticator` and `Sessions`, `StoreAssumption` of
`WebhookDelivery`, which also says that the endpoints stored at the start keep to the overshot limit, `ListsAssumption`), and so are the voters whose votes are
summed (`VotesAssumption`); they are finite in every process. `AdministrationAssumption`: there are owners, and nobody is of two kinds at first.
`AccountsAssumption`: the residents are accounts. `ReleasesAssumption`: a release does not retire a page it brings. `PatchesAssumption`: `Singles` are kinds of patches.
All the others say that `None`, which stands for a key that is not stored or a handler that does nothing, is no address, record or
call, and that `Platform` is no account's number (`NameAssumption`, `StartupAssumption`, the other `...Assumption` of the services); the prover, unlike
TLC's model values, does not know. TLC evaluates each of them in the run of its module.

### Arguments

**The webhook queue.** The inductive invariant is `QueueInv`: types, `AttemptsLeft`,
`WorkerCopiesFresh` and `EventsDisjoint`. Types alone are not inductive, since an attempt adds one to the
count of a copy: that stays in range because a waiting delivery has attempts left. That copies are fresh needs that nobody but the worker
holds published deliveries, and that storing a delivery in Publish cannot hit one that is held: each Publish has an event
of its own (`EventsDisjoint`). Refinement follows step by step: a stored outcome is an attempt on an abstract
waiting delivery *because* the copy is fresh. `Settled` needs one more fact, `OnlyPendingWaits`:
time never touches a settled record.

**Webhook accounts.** `RetriesExact` is two inequalities, and neither is inductive: between an attempt's count and its record a request is in
flight, and once the process is stopping the worker counts what it does not send. `Accounted` adds the term for each
(`InFlight`, `Uncounted`); the second is why a shutdown can cost one attempt of *every* delivery that is due, and no more than one. `DeliveriesDue`
needs that an event that is being fanned out is wanted by what is stored or still to do (`FanOutSound`), and that an edit which
nobody overtook is of an endpoint that still is what it was decided on (`EditSound`), which is also all of `NeverRegresses`. `LimitInv` counts the endpoints
that an owner has *or is about to get* (`Adding`): the count is checked with at most the other editors' still to come.

**Mail.** Storing the attempt before sending makes `Tallied` inductive: the sends of a delivery are one behind its attempts exactly while it is held
and not sent, and a crash there only ever leaves it stuck. Each sender routes a message of its own (`RoutesDisjoint`), and a recipient is either still to do or
has its delivery, which is what success may be told from. `StrandedAccounted` counts what is stuck against the losses, one by one, as sets.

**Authenticators.** `JudgeInv`: whoever is between reading a factor and writing it back in `Verify` holds the lock (`LockHeld`), so what it has seen is
what is stored unless a lock-free write came between, and then the account is in `raced` (`FactorsTold`). A factor tells the last step that
was used, the wrong codes since and whether the address is confirmed (`Told`). That a replaced secret cannot be accepted
again rests on `LinksApart`: the secret of a link that replaces a factor is nobody's until it is used. `UsesBounded` counts those that hold a link, and a fault lets
each handler use it once more at most. An account without a factor has a handler that is to store its first or to delete the account, and `Fail` at that
deletion is the only way but a crash to end the handler before.

**Revocation.** The inductive invariant is `RevokeInv`: types with `BusyTyped` (a working request has an account and a
number), `NumbersFresh` and the property. The step that could break the property is
`OpenSession`, which stores a session after the sweep has read the index: `NumbersFresh` says that a session on its way is
not among those owed, since those were open. The steps that make sessions owed go on to revoke them (`ClaimRevoke`),
`Scan` finds all that were to be revoked, `Sweep` gives up none, and faults are recorded. `FewSurvive` counts the sessions that
survive a revocation together with those still on their way to (`LateInv`): each was some other handler's when the revocation was decided.

**The services.** Each has a specification of its own in the proofs (`ImagesSpec`, ...), with any number of handlers of that service. Their
invariants have the same three parts: what a handler read or stored before its next call (`ProposalRead`, `FilingInOrder`, `WritersInOrder`,
`ImportedSoFar`, `VoteRead`, `EditRead`), that no two handlers make one record (`ImagesApart`, `FilersApart`, `WritersApart`, `NumbersApart`, `AsksApart`,
`NoticesApart`), and what the store's keys say of each other.

- *Accounts.* `IndexExact` is inductive alone: each name moves within one transaction. The rest is not. A registration has its account for itself until it
  is stored, and nobody moves the account before its mailbox is there (`Registering`), so that taking it back takes nothing of another's. For
  accounts that nothing disturbed or left half done (`Whole`): name and mailbox agree, or some operation is between the two (`InPlace`), and whoever got a name last is
  found by it, or the operation that gives it up has still to store the alias (`Links`, `Linked`).
- *Administration.* A status that is about to be stored was decided by whoever may manage the account (`Decided`): an
  owner is suspended only by another one, who is still active when the status is stored, or `lapsed` says not. A handler that has passed a sign-in's check has an account that is active or `overtaken` (`SignInKnown`), so what it stores breaks nothing; a sweep
  takes an account from `overtaken` only when nobody is signing in to it any more.
- *Startup.* A start is alone. What it has found and stored is as far as its next call says (`Administering`, `Made`, `Through`), what is left behind by those that failed
  or were cut short is an account that is in `halted` or nothing (`Remains`), and between starts an owner has all that is his (`Appointed`, `Settled`).
  A refusal is of a role that was read as missing, and then `Remains` or `Before` says whose it was, or of one that was not read (`CheckRoleKept`, `FailStartKept`).
- *Mailboxes.* The first mailbox to take the first address is the platform's, because the address is taken in one transaction (`OneTakesAddresses`).
- *Votes.* What an open transaction has read is what is stored, unless it is going to fail (`VoteRead`); so a commit changes the score by what it changes the vote. The sum over voters is
  split at the one who votes.
- *Patches.* Each decision is its handler's until it is in the log, which keeps the order in which they were entered (`Deciding`). `SeriesWhole` needs no state: it is
  that climbing from mail to mail ends in one place for all the mail of a series of several parts, in whatever order it arrived.
- *Documents.* A start is alone (`StartedAlone`), and its release is whole as far as its next call says; a release's marker means it was whole when it was the last to write.
- *Community.* A reply's notification is owed to whoever subscribed before it started; it has been sent, or is still to do, or its author's own (`NotifiersInOrder`).
- *Mirrors.* A record's head is a commit its mirror has, and the stored record is never ahead of the one in memory (`Backed`); what a synchronization carries from
  call to call stays true because mirrors only grow and one synchronizes at a time (`Synchronizing`). A page's parts are read at the commit it resolved first.
- *Sponsors.* Only who holds the lock fetches, and found the cache expired (`FetchersInOrder`); a cached answer expires an hour after it was asked for.
- *Images.* Places taken are the uploads between `acquire` and the end, counted as a finite set.
- *Lists.* The limits count those on their way besides what is stored (`Limits`), each of whom was let through by a count that had left out the other handlers at most. A published thread leads to its root
  or turns in a circle, or was overtaken by its own reply (`Leads`); what an entry answers to is another entry that is there (`Settled`), so the way up from it can be climbed.
- *Questions.* Answers are only ever added, so that what an old copy says of them stays true (`Sound`), whichever copy is stored.
- *Notifications.* Whatever a pruning is about to delete has as many newer items as are kept, counted with those already deleted (`NoticesListed`), so that overlapping prunings together never take
  a newest one; and an old item that is still there has a handler that will delete it, unless one was cut short (`OldPruned`).
- *Blog.* A post's first publication is announced, or is about to be by one handler, or is in `unannounced` (`AnnouncedOf`); a comment is stored by an author who had none in
  what the check read (`CommentRead`), and those it did not see are the other handlers'.
- *RFCs.* Numbers given out are no more than requests begun (`NumbersSuffice`, so that the counter stays in its type), and each is one creation's.

**Ways up a forest.** The root of a series or thread is a recursive function: n steps up from a mail. `Handlers_proofs` shows by induction (as a set of numbers without a
least counterexample, `Least` and `Upwards`) that such a way exists and stays within any set that is closed upwards, and by the pigeonhole principle that one as long as
the set is large has come to a top, unless it turns in a circle (`WayEnds`); whether it does is the same for a mail and the one above it (`AboveTurns`).

**The services together.** `AllInv` of each instance: the service at work has its invariant, the others are as they were at first; the services share no variable but the handlers.
So the theorems of the single services carry over to the specification that the run checks, and its properties hold there for every value of the constants.

### What proving and reading again have corrected

- `Documents` had no record of a start that could not read a marker, imported again and was cut short. It leaves a half
  import behind a marker that says it was whole, until a start gets through (`misread`; `document/service.go:40`). TLC does not get there with three
  requests and one fault.
- `LinksLead` of `Accounts` was false with three handlers at a time, as a failed step showed and TLC confirmed: between an address change's transaction and
  its end, the name it gave up can go to somebody else and on again. Who last held a name is now recorded when the name is got (`Given`), and an account whose mailbox loses its address to
  another's change is in `disturbed` (`UpdateAddress`). `Accounts` alone passes with three handlers, three requests and one fault.

Four steps were too coarse, and what was proved of them was more than the code does:

- `Administration` had a sign-in in one step. The status is read two calls before the session is stored (`identity/service.go:421`, `:427`), and a suspension with its sweep
  fits in between; `overtaken` names those accounts.
- `Authenticator` took a failed registration back at once and always. Its deletions are calls that may fail (`identity/service.go:170-186`), so that a taken name without an
  authenticator needs no crash; two faults in one run show it.
- `Startup` had a failing role look-up end as a failure; `IsOwner` swallows the error, and the rightful owner's name is refused (`identity/service.go:251`, `:717`).
- `MailDelivery` let no time pass while something was due, which gave each delivery its turn; `SettledUnlessStranded` now has `Crowded`.

`Patches` had put one author's patches of one part, sent in one conversation, into a series; `patcharchive/service.go:454` shows each alone.

### What only TLC checks

The three liveness properties, `SettledUnlessOrphans`, `SettledUnlessStranded` and `OwedEnd`: the prover does not reason about fairness or ENABLED here.

Before they were proved, some services were also run with more than the runs' bounds, with no error: `Accounts` and `Administration` at 4 requests and 2 faults, `Startup` at 4 and 3, `Mirrors` at 4 and 2, `Blog` and
`Notifications` at 5 and 2. At 4 requests `Accounts` showed two overlaps that three cannot make: a registration taken back after its name had been given to somebody else,
whose index entry goes with it, and an address put back after two more changes had come and gone, over a mailbox that has not moved with
them. Both are staleness that `disturbed` records (`TakeBack`, `StaleCopy`).

## 6. What is not modelled

- Wording, layout, encodings, HTTP and SMTP syntax, signatures and encryption: text and data, no control.
- Native code, Git, SMTP peers, the browser and Android clients: outside the server.
- The store itself: its contract (section 1) is built into every module.
- The creation of default spaces at the start, and settings: each overwrites what it names with a constant and nothing reads it in between.
- The deletion of announcements in the form of an old version at a start (`community/seed.go:94`, before the import's marker): nothing reads them.
- `Questions` stores an answer in one step, where `UpsertMessage` writes the message and then its place in the thread: nothing looks for a message of a question but through its thread.
- The clean-up of mailbox entries that an old version left (`community/migration.go`) only as the reads that a start depends on.
- In `gitmirror`, the page of all branches and tags, and origins whose history was rewritten.
- Mail that a mailbox's owner sees page by page, search, the dashboard: reads of records whose modules say what they hold.
- The components marked "not_modelled" in `PROJECT.json`, with the reason for each.

## 7. What is left

The plan was: the two delivery queues and their abstract lifecycle first, then authenticators and sessions, then the services over one module of
handlers, smallest first; each with a run, then with its theorems, safety before refinement; last the services side by side. All of it is done. What would come next:

- A change to a service starts with its module: `Begin...` for a new operation, one disjunct per call, the invariant's part for what the new handler has read. The failing step of the proof names the overlap to look at.
- Liveness for every value of the constants, with a prover that knows fairness.
- The components of section 6, of which the pages of `web/` are the largest; they read what the services keep.

## 8. Running

    tlc -config webhook_delivery.cfg MCWebhookDelivery.tla
    tlapm WebhookDelivery_proofs.tla

`PROJECT.json` lists each run with its module, the lines of code each definition models ("map"), and for every
property a plausible bug ("mutants") that breaks it: the mutated operator stands before the one it replaces.
