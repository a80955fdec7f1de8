-------------------------- MODULE WebhookDelivery --------------------------
(***************************************************************************)
(* The webhook subsystem (internal/webhook).  Administrators and account   *)
(* owners edit endpoints, services publish events, Publish stores one      *)
(* delivery per interested endpoint, and a single background worker posts  *)
(* the stored deliveries, retrying with an exponential delay.  The "send   *)
(* test" request handler stores a delivery too and posts it inline, beside *)
(* the worker.  Nothing takes a lock: every repository call is a           *)
(* transaction of its own, and what a thread decided on may have changed   *)
(* by the time it writes.                                                  *)
(*                                                                         *)
(* Time is relative: a delivery carries the whole minutes left before its  *)
(* NextAttemptAt, and Tick lets one minute pass.  An event number stands   *)
(* for the event's OccurredAt, which orders the deliveries by CreatedAt.   *)
(***************************************************************************)
EXTENDS Integers, FiniteSets

CONSTANTS
  Accounts,       \* ordinary accounts that own account-scoped endpoints
  Admin,          \* the actor of the administrator routes (allowAll)
  Types,          \* supported event types
  PlatformOnly,   \* the event types reserved to platform-scoped endpoints
  Editors,        \* request handlers running a save or a delete
  Publishers,     \* goroutines inside Publish
  Testers,        \* request handlers running "send test"
  Worker,         \* the goroutine of Run
  MaxAttempts,    \* attempts before a delivery is failed (5)
  BatchLimit,     \* deliveries taken by one ProcessPending (20)
  EndpointLimit,  \* account endpoints per owner (10)
  Legacy,         \* endpoints stored before scopes were introduced
  StoredPlatform, \* platform endpoints stored when the system starts
  StoredCount,    \* endpoints stored when the system starts
  MaxEndpoints,   \* bound: endpoints ever created
  MaxEvents,      \* bound: events and tests ever published
  MaxEdits,       \* bound: saves and deletes ever started
  MaxLosses,      \* bound: crashes and failed writes
  MaxShutdowns,   \* bound: graceful shutdowns
  None            \* no call in progress

Actors      == Accounts \cup {Admin}
TestType    == "webhook.test"
EndpointIds == 1 .. MaxEndpoints
Events      == 0 .. MaxEvents
Deliveries  == Events \X EndpointIds
Threads     == Testers \cup {Worker}

EventOf(d)    == d[1]
EndpointOf(d) == d[2]

Scopes    == {"account", "platform"}
Endpoints == [owner : Actors, scope : Scopes \cup {"legacy", "absent", "deleted"},
              events : SUBSET Types, enabled : BOOLEAN]
Records   == [status : {"absent", "queued", "deferred", "delivered", "failed"},
              attempts : 0 .. MaxAttempts, wait : Nat]
Copies    == [id : Deliveries, attempts : 0 .. MaxAttempts - 1]
Requests  == [id : Deliveries, attempts : 1 .. MaxAttempts, wait : Nat, live : BOOLEAN]
Edits     == [id : EndpointIds, item : Endpoints, fresh : BOOLEAN]
Fanouts   == [event : Events, todo : SUBSET EndpointIds]

ASSUME SizeAssumption ==
  /\ MaxAttempts \in Nat \ {0}
  /\ BatchLimit \in Nat \ {0}
  /\ EndpointLimit \in Nat
  /\ MaxEndpoints \in Nat
  /\ MaxEvents \in Nat
  /\ MaxEdits \in Nat
  /\ MaxLosses \in Nat
  /\ MaxShutdowns \in Nat
  /\ StoredCount \in 0 .. MaxEndpoints

ASSUME NameAssumption ==
  /\ PlatformOnly \subseteq Types
  /\ TestType \notin Types
  /\ Legacy \subseteq 1 .. StoredCount
  /\ StoredPlatform \subseteq (1 .. StoredCount) \ Legacy
  /\ Worker \notin Testers
  /\ Admin \notin Accounts
  /\ None \notin Edits
  /\ None \notin Fanouts
  /\ None \notin Requests

\* What is stored when the system starts was left by request handlers like these.
ASSUME StoreAssumption ==
  /\ IsFiniteSet(Editors)
  /\ Cardinality((1 .. StoredCount) \ (Legacy \cup StoredPlatform))
       <= EndpointLimit + Cardinality(Editors) - 1

VARIABLES
  endpoint,      \* the stored endpoints
  lastEndpoint,  \* the newest endpoint identifier handed out
  delivery,      \* the stored deliveries
  eventType,     \* the type of each published event
  lastEvent,     \* the newest event
  edit,          \* what each save or delete is about to write
  publish,       \* the endpoints each running Publish has still to store for
  batch,         \* the copies of deliveries each thread has still to post
  request,       \* the request each thread is waiting for
  stopping,      \* the runtime context is cancelled
  edits, losses, shutdowns,   \* counters of what the bounds limit
  wanted,        \* history: the endpoints each event was meant for
  finished,      \* history: the events whose Publish returned no error
  tries,         \* history: requests sent for each delivery
  raced          \* history: endpoints written by a save or delete that was
                 \*          decided on before another write of that endpoint

vars == <<endpoint, lastEndpoint, delivery, eventType, lastEvent, edit, publish,
          batch, request, stopping, edits, losses, shutdowns, wanted, finished,
          tries, raced>>
endpointVars == <<endpoint, lastEndpoint, edit, edits, raced>>
fanoutVars   == <<eventType, lastEvent, publish, wanted, finished>>
workVars     == <<delivery, batch, request, tries>>
faultVars    == <<stopping, losses, shutdowns>>

-----------------------------------------------------------------------------
Least(m, n) == IF m < n THEN m ELSE n

\* Minutes until the next attempt after the n-th failed one: 1 << min(n, 6).
Backoff(n) == <<2, 4, 8, 16, 32, 64>>[Least(n, 6)]

NoEndpoint  == [owner |-> Admin, scope |-> "absent", events |-> {}, enabled |-> FALSE]
NoDelivery  == [status |-> "absent", attempts |-> 0, wait |-> 0]
NewDelivery == [status |-> "queued", attempts |-> 0, wait |-> 0]

Exists(e)     == endpoint[e].scope \notin {"absent", "deleted"}

\* Mutant: given-up deliveries are selected again.
PendingOrFailed(d) == delivery[d].status \in {"queued", "deferred", "failed"}

Pending(d) == delivery[d].status \in {"queued", "deferred"}
Due(d)     == Pending(d) /\ delivery[d].wait = 0

Published(d) == eventType[EventOf(d)] # TestType

\* Publish stores a delivery for the endpoints that subscribe to the type
\* and whose scope may see it.
Interested(type) ==
  {e \in EndpointIds : /\ endpoint[e].scope \in Scopes
                       /\ endpoint[e].enabled
                       /\ type \in endpoint[e].events
                       /\ type \in PlatformOnly => endpoint[e].scope = "platform"}

OwnedBy(a) == {e \in EndpointIds : endpoint[e].scope = "account" /\ endpoint[e].owner = a}

\* Mutant: owning the endpoint is enough, whatever its scope.
MayEditOwned(a, e) == a = Admin \/ endpoint[e].owner = a

\* An actor of the account routes may only touch its own account endpoints.
MayEdit(a, e) == a = Admin \/ e \in OwnedBy(a)

-----------------------------------------------------------------------------
\* The store may hold endpoints, among them some without a scope for each of
\* which the delivery of an old event waits.
StoredEndpoint(e, a) ==
  [owner   |-> IF e \in Legacy \cup StoredPlatform THEN Admin ELSE a,
   scope   |-> IF e \in Legacy THEN "legacy"
               ELSE IF e \in StoredPlatform THEN "platform" ELSE "account",
   events  |-> IF e \in Legacy \cup StoredPlatform THEN Types ELSE Types \ PlatformOnly,
   enabled |-> TRUE]

Init ==
  /\ \E a \in Accounts :
       endpoint = [e \in EndpointIds |->
                     IF e <= StoredCount THEN StoredEndpoint(e, a) ELSE NoEndpoint]
  /\ lastEndpoint = StoredCount
  /\ delivery = [d \in Deliveries |->
                   IF EventOf(d) = 0 /\ EndpointOf(d) \in Legacy THEN NewDelivery ELSE NoDelivery]
  /\ \E type \in Types : eventType = [v \in Events |-> type]
  /\ lastEvent = 0
  /\ edit = [s \in Editors |-> None]
  /\ publish = [p \in Publishers |-> None]
  /\ batch = [t \in Threads |-> {}]
  /\ request = [t \in Threads |-> None]
  /\ stopping = FALSE
  /\ edits = 0 /\ losses = 0 /\ shutdowns = 0
  /\ wanted = [v \in Events |-> IF v = 0 THEN Legacy ELSE {}]
  /\ finished = {0}
  /\ tries = [d \in Deliveries |-> 0]
  /\ raced = {}

-----------------------------------------------------------------------------
(* Endpoint edits: load, decide, write.                                    *)

StartEdit(s, e, item) ==
  /\ edit[s] = None
  /\ edits < MaxEdits
  /\ edits' = edits + 1
  /\ edit' = [edit EXCEPT ![s] = [id |-> e, item |-> item, fresh |-> TRUE]]
  /\ UNCHANGED <<endpoint, raced, fanoutVars, workVars, faultVars>>

\* Only administrators may subscribe to platform-only events.
ValidEvents(a, types) ==
  types # {} /\ (a # Admin => types \cap PlatformOnly = {})

ScopeOf(a) == IF a = Admin THEN "platform" ELSE "account"

\* Mutant: the owner's endpoints are not counted.
CreateUnlimited(s, a, types, enabled) ==
  /\ lastEndpoint < MaxEndpoints
  /\ ValidEvents(a, types)
  /\ lastEndpoint' = lastEndpoint + 1
  /\ StartEdit(s, lastEndpoint + 1,
               [owner |-> a, scope |-> ScopeOf(a), events |-> types, enabled |-> enabled])

\* SaveEndpointScoped without an identifier: the owner's endpoints are counted
\* now, the new one is stored later.
CreateEndpoint(s, a, types, enabled) ==
  /\ lastEndpoint < MaxEndpoints
  /\ ValidEvents(a, types)
  /\ a # Admin => Cardinality(OwnedBy(a)) < EndpointLimit
  /\ lastEndpoint' = lastEndpoint + 1
  /\ StartEdit(s, lastEndpoint + 1,
               [owner |-> a, scope |-> ScopeOf(a), events |-> types, enabled |-> enabled])

\* SaveEndpointScoped with an identifier: an administrator's save turns the
\* endpoint into a platform endpoint and leaves its owner.
UpdateEndpoint(s, a, e, types, enabled) ==
  /\ Exists(e)
  /\ ValidEvents(a, types)
  /\ MayEdit(a, e)
  /\ StartEdit(s, e, [owner |-> endpoint[e].owner, scope |-> ScopeOf(a),
                      events |-> types, enabled |-> enabled])
  /\ UNCHANGED lastEndpoint

DeleteEndpoint(s, a, e) ==
  /\ Exists(e)
  /\ MayEdit(a, e)
  /\ StartEdit(s, e, [endpoint[e] EXCEPT !.scope = "deleted"])
  /\ UNCHANGED lastEndpoint

\* PutEndpoint or DeleteEndpoint: a blind write of what was decided on.
WriteEdit(s) ==
  /\ edit[s] # None
  /\ LET e == edit[s].id
     IN  /\ endpoint' = [endpoint EXCEPT ![e] = edit[s].item]
         /\ raced' = IF edit[s].fresh THEN raced ELSE raced \cup {e}
         /\ edit' = [r \in Editors |->
                       IF r = s \/ edit[r] = None \/ edit[r].id # e
                         THEN IF r = s THEN None ELSE edit[r]
                         ELSE [edit[r] EXCEPT !.fresh = FALSE]]
  /\ UNCHANGED <<lastEndpoint, edits, fanoutVars, workVars, faultVars>>

-----------------------------------------------------------------------------
(* Publish: scan the endpoints once, then store the deliveries one by one. *)

BeginPublish(p, type) ==
  /\ publish[p] = None
  /\ lastEvent < MaxEvents
  /\ LET v == lastEvent + 1
     IN  /\ lastEvent' = v
         /\ eventType' = [eventType EXCEPT ![v] = type]
         /\ wanted' = [wanted EXCEPT ![v] = Interested(type)]
         /\ publish' = [publish EXCEPT ![p] = [event |-> v, todo |-> Interested(type)]]
  /\ UNCHANGED <<finished, endpointVars, workVars, faultVars>>

StoreDelivery(p) ==
  /\ publish[p] # None
  /\ \E e \in publish[p].todo :
       /\ \A f \in publish[p].todo : e <= f
       /\ delivery' = [delivery EXCEPT ![<<publish[p].event, e>>] = NewDelivery]
       /\ publish' = [publish EXCEPT ![p].todo = @ \ {e}]
  /\ UNCHANGED <<eventType, lastEvent, wanted, finished, batch, request, tries,
                 endpointVars, faultVars>>

\* Mutant: success is reported before every delivery is stored.
EndPublishEarly(p) ==
  /\ publish[p] # None
  /\ finished' = finished \cup {publish[p].event}
  /\ publish' = [publish EXCEPT ![p] = None]
  /\ UNCHANGED <<eventType, lastEvent, wanted, endpointVars, workVars, faultVars>>

EndPublish(p) ==
  /\ publish[p] # None
  /\ publish[p].todo = {}
  /\ finished' = finished \cup {publish[p].event}
  /\ publish' = [publish EXCEPT ![p] = None]
  /\ UNCHANGED <<eventType, lastEvent, wanted, endpointVars, workVars, faultVars>>

\* A failed PutDelivery ends the fan-out; the callers ignore the error.
FailPublish(p) ==
  /\ publish[p] # None
  /\ publish[p].todo # {}
  /\ losses < MaxLosses
  /\ losses' = losses + 1
  /\ publish' = [publish EXCEPT ![p] = None]
  /\ UNCHANGED <<eventType, lastEvent, wanted, finished, stopping, shutdowns,
                 endpointVars, workVars>>

-----------------------------------------------------------------------------
(* Delivering.                                                             *)

CopyOf(d) == [id |-> d, attempts |-> delivery[d].attempts]

\* TestEndpointScoped stores a queued delivery, which the worker may pick up,
\* and keeps a copy that it posts itself.
BeginTest(t, a, e) ==
  /\ batch[t] = {} /\ request[t] = None
  /\ lastEvent < MaxEvents
  /\ endpoint[e].scope \in Scopes
  /\ MayEdit(a, e)
  /\ LET v == lastEvent + 1
         d == <<v, e>>
     IN  /\ lastEvent' = v
         /\ eventType' = [eventType EXCEPT ![v] = TestType]
         /\ delivery' = [delivery EXCEPT ![d] = NewDelivery]
         /\ batch' = [batch EXCEPT ![t] = {[id |-> d, attempts |-> 0]}]
  /\ UNCHANGED <<publish, wanted, finished, request, tries, endpointVars, faultVars>>

\* The sets Pending(now, limit) may return: the oldest due deliveries.
OldestDue(B) ==
  LET due == {d \in Deliveries : Due(d)}
  IN  /\ B \subseteq due
      /\ Cardinality(B) = Least(BatchLimit, Cardinality(due))
      /\ \A d \in B, f \in due \ B : EventOf(d) <= EventOf(f)

\* Mutant: the ticker starts a scan while the last request is in flight.
ScanOverlapping ==
  /\ batch[Worker] = {}
  /\ \E B \in SUBSET {d \in Deliveries : Due(d)} :
       /\ OldestDue(B)
       /\ batch' = [batch EXCEPT ![Worker] = {CopyOf(d) : d \in B}]
  /\ UNCHANGED <<delivery, request, tries, endpointVars, fanoutVars, faultVars>>

\* ProcessPending reads the due deliveries once and works on these copies.
Scan ==
  /\ batch[Worker] = {} /\ request[Worker] = None
  /\ \E B \in SUBSET {d \in Deliveries : Due(d)} :
       /\ OldestDue(B)
       /\ batch' = [batch EXCEPT ![Worker] = {CopyOf(d) : d \in B}]
  /\ UNCHANGED <<delivery, request, tries, endpointVars, fanoutVars, faultVars>>

\* The copy deliver is called with next: the oldest of the batch.
IsNext(t, c) ==
  /\ request[t] = None
  /\ c \in batch[t]
  /\ \A o \in batch[t] : EventOf(c.id) <= EventOf(o.id)

TakeCopy(t, c) == batch' = [batch EXCEPT ![t] = @ \ {c}]

\* deliver up to client.Do.  The context of the worker is the runtime's, that
\* of a test is its request's: on a cancelled context nothing is sent, but the
\* attempt is counted.
Attempt(t, c, live) ==
  /\ IsNext(t, c)
  /\ endpoint[EndpointOf(c.id)].scope \in Scopes
  /\ t = Worker => live = ~stopping
  /\ TakeCopy(t, c)
  /\ request' = [request EXCEPT ![t] =
                   [id |-> c.id, attempts |-> c.attempts + 1,
                    wait |-> Backoff(c.attempts + 1), live |-> live]]
  /\ tries' = IF live THEN [tries EXCEPT ![c.id] = @ + 1] ELSE tries
  /\ UNCHANGED <<delivery, endpointVars, fanoutVars, faultVars>>

\* The delivery of a missing endpoint is left as it is stored.
SkipMissing(t, c) ==
  /\ IsNext(t, c)
  /\ ~Exists(EndpointOf(c.id))
  /\ TakeCopy(t, c)
  /\ UNCHANGED <<delivery, request, tries, endpointVars, fanoutVars, faultVars>>

\* Mutant: one attempt too many is allowed.
OutcomeOneMore(r, ok) ==
  IF ok THEN [status |-> "delivered", attempts |-> r.attempts, wait |-> 0]
  ELSE IF r.attempts > MaxAttempts
         THEN [status |-> "failed", attempts |-> r.attempts, wait |-> 0]
         ELSE [status |-> "deferred", attempts |-> r.attempts, wait |-> r.wait]

\* Mutant: one attempt too few is made.
OutcomeOneLess(r, ok) ==
  IF ok THEN [status |-> "delivered", attempts |-> r.attempts, wait |-> 0]
  ELSE IF r.attempts + 1 >= MaxAttempts
         THEN [status |-> "failed", attempts |-> r.attempts, wait |-> 0]
         ELSE [status |-> "deferred", attempts |-> r.attempts, wait |-> r.wait]

\* Mutant: a deferred delivery is stored with a status that is never selected.
OutcomeRetrying(r, ok) ==
  IF ok THEN [status |-> "delivered", attempts |-> r.attempts, wait |-> 0]
  ELSE [status |-> IF r.attempts >= MaxAttempts THEN "failed" ELSE "retrying",
        attempts |-> r.attempts, wait |-> r.wait]

\* The record PutDelivery stores once a request has been answered.
Outcome(r, ok) ==
  CASE ok                                  -> [status |-> "delivered", attempts |-> r.attempts, wait |-> 0]
    [] ~ok /\ r.attempts >= MaxAttempts    -> [status |-> "failed", attempts |-> r.attempts, wait |-> 0]
    [] ~ok /\ ~(r.attempts >= MaxAttempts) -> [status |-> "deferred", attempts |-> r.attempts, wait |-> r.wait]

\* PutDelivery; its error is ignored.
Put(d, record) ==
  \/ /\ delivery' = [delivery EXCEPT ![d] = record]
     /\ UNCHANGED losses
  \/ /\ losses < MaxLosses
     /\ losses' = losses + 1
     /\ UNCHANGED delivery

\* An endpoint without a scope fails its deliveries at once.
RejectLegacy(t, c) ==
  /\ IsNext(t, c)
  /\ endpoint[EndpointOf(c.id)].scope = "legacy"
  /\ TakeCopy(t, c)
  /\ Put(c.id, [status |-> "failed", attempts |-> c.attempts, wait |-> 0])
  /\ UNCHANGED <<request, tries, stopping, shutdowns, endpointVars, fanoutVars>>

\* The receiver answers (a 2xx status or not), the client times out, or the
\* cancelled request returns; the copy is written over whatever is stored.
Answer(t, ok) ==
  /\ request[t] # None
  /\ ok => request[t].live
  /\ Put(request[t].id, Outcome(request[t], ok))
  /\ request' = [request EXCEPT ![t] = None]
  /\ UNCHANGED <<batch, tries, stopping, shutdowns, endpointVars, fanoutVars>>

-----------------------------------------------------------------------------
(* Time, shutdown and crash.                                               *)

Tock(n) == IF n = 0 THEN 0 ELSE n - 1

\* One minute passes.  A request lasts at most twelve seconds (the client's
\* timeout), so no request sees two ticks; a shutdown sees none, and a test is
\* posted at once.  The copies of a batch do grow old: twenty requests of twelve
\* seconds take minutes.
Tick ==
  /\ ~stopping
  /\ \A t \in Testers : batch[t] = {}
  /\ \A t \in Threads : request[t] # None => request[t].wait = Backoff(request[t].attempts)
  /\ \E d \in Deliveries : delivery[d].wait > 0
  /\ delivery' = [d \in Deliveries |-> [delivery[d] EXCEPT !.wait = Tock(@)]]
  /\ request' = [t \in Threads |->
                   IF request[t] = None THEN None ELSE [request[t] EXCEPT !.wait = Tock(@)]]
  /\ UNCHANGED <<batch, tries, endpointVars, fanoutVars, faultVars>>

\* A termination signal cancels the runtime context; the process then waits
\* for the worker to return.
Shutdown ==
  /\ ~stopping
  /\ shutdowns < MaxShutdowns
  /\ shutdowns' = shutdowns + 1
  /\ stopping' = TRUE
  /\ UNCHANGED <<losses, endpointVars, fanoutVars, workVars>>

\* Everything that is not stored is gone.
Restart ==
  /\ stopping' = FALSE
  /\ edit' = [s \in Editors |-> None]
  /\ publish' = [p \in Publishers |-> None]
  /\ batch' = [t \in Threads |-> {}]
  /\ request' = [t \in Threads |-> None]
  /\ UNCHANGED <<endpoint, lastEndpoint, delivery, eventType, lastEvent, edits,
                 shutdowns, wanted, finished, tries, raced>>

\* The worker has returned: Run returns, the process ends and is started again.
Stopped ==
  /\ stopping
  /\ batch[Worker] = {} /\ request[Worker] = None
  /\ Restart
  /\ UNCHANGED losses

Crash ==
  /\ losses < MaxLosses
  /\ losses' = losses + 1
  /\ Restart

-----------------------------------------------------------------------------
Edit(s) ==
  \/ \E a \in Actors, types \in SUBSET Types, enabled \in BOOLEAN :
       \/ CreateEndpoint(s, a, types, enabled)
       \/ \E e \in EndpointIds : UpdateEndpoint(s, a, e, types, enabled)
  \/ \E a \in Actors, e \in EndpointIds : DeleteEndpoint(s, a, e)
  \/ WriteEdit(s)

Fanout(p) ==
  \/ \E type \in Types : BeginPublish(p, type)
  \/ StoreDelivery(p)
  \/ EndPublish(p)
  \/ FailPublish(p)

Deliver(t) ==
  \/ \E c \in batch[t] : \/ \E live \in BOOLEAN : Attempt(t, c, live)
                         \/ SkipMissing(t, c)
                         \/ RejectLegacy(t, c)
  \/ \E ok \in BOOLEAN : Answer(t, ok)

Next ==
  \/ \E s \in Editors : Edit(s)
  \/ \E p \in Publishers : Fanout(p)
  \/ \E t \in Testers, a \in Actors, e \in EndpointIds : BeginTest(t, a, e)
  \/ Scan
  \/ \E t \in Threads : Deliver(t)
  \/ Tick
  \/ Shutdown
  \/ Stopped
  \/ Crash

Spec == Init /\ [][Next]_vars

\* The ticker of Run keeps firing, HTTP requests end by the client's timeout
\* and time passes; nothing else is promised.
Fairness ==
  /\ WF_vars(Scan)
  /\ WF_vars(Deliver(Worker))
  /\ WF_vars(Tick)
  /\ WF_vars(Stopped)

FairSpec == Spec /\ Fairness

-----------------------------------------------------------------------------
(* Properties.                                                             *)

\* Every variable holds values of its type.
TypeOK ==
  /\ endpoint \in [EndpointIds -> Endpoints]
  /\ lastEndpoint \in 0 .. MaxEndpoints
  /\ delivery \in [Deliveries -> Records]
  /\ eventType \in [Events -> Types \cup {TestType}]
  /\ lastEvent \in Events
  /\ edit \in [Editors -> Edits \cup {None}]
  /\ publish \in [Publishers -> Fanouts \cup {None}]
  /\ batch \in [Threads -> SUBSET Copies]
  /\ request \in [Threads -> Requests \cup {None}]
  /\ stopping \in BOOLEAN
  /\ edits \in 0 .. MaxEdits
  /\ losses \in 0 .. MaxLosses
  /\ shutdowns \in 0 .. MaxShutdowns
  /\ wanted \in [Events -> SUBSET EndpointIds]
  /\ finished \in SUBSET Events
  /\ tries \in [Deliveries -> Nat]
  /\ raced \in SUBSET EndpointIds

\* A delivery waits only while it has attempts left, and no thread holds a
\* copy, however old, from which it would record one attempt too many.
AttemptsLeft ==
  /\ \A d \in Deliveries : Pending(d) => delivery[d].attempts < MaxAttempts
  /\ \A t \in Threads : request[t] # None => request[t].attempts <= MaxAttempts

\* A published delivery (not a test) is only ever held by the worker, and the
\* worker's copy is never stale: the record it will overwrite is still waiting
\* with the attempts the copy was taken with.
WorkerCopiesFresh ==
  \A t \in Threads :
    /\ \A c \in batch[t] : Published(c.id) =>
         /\ t = Worker
         /\ Pending(c.id)
         /\ delivery[c.id].attempts = c.attempts
    /\ request[t] # None /\ Published(request[t].id) =>
         /\ t = Worker
         /\ Pending(request[t].id)
         /\ delivery[request[t].id].attempts + 1 = request[t].attempts
         /\ \A c \in batch[t] : c.id # request[t].id

\* Nothing refers to an event that has not begun, and each running Publish has
\* an event of its own whose remaining deliveries nobody else has stored.
EventsDisjoint ==
  /\ \A d \in Deliveries : EventOf(d) > lastEvent => delivery[d].status = "absent"
  /\ \A t \in Threads :
       /\ \A c \in batch[t] : EventOf(c.id) <= lastEvent
       /\ request[t] # None => EventOf(request[t].id) <= lastEvent
  /\ \A p \in Publishers : publish[p] # None =>
       /\ publish[p].event <= lastEvent
       /\ eventType[publish[p].event] # TestType
       /\ \A e \in publish[p].todo : delivery[<<publish[p].event, e>>].status = "absent"
       /\ \A q \in Publishers : q # p /\ publish[q] # None => publish[q].event # publish[p].event

\* The inductive invariant of the queue.
QueueInv == TypeOK /\ AttemptsLeft /\ WorkerCopiesFresh /\ EventsDisjoint

InFlight(d) == \E t \in Threads : request[t] # None /\ request[t].id = d

\* Requests are not repeated at will: for a published delivery, the requests
\* sent exceed the attempts on record by at most the one in flight and one for
\* each crash or lost write.
RequestsAccounted ==
  \A d \in Deliveries : Published(d) =>
    tries[d] <= delivery[d].attempts + losses + (IF InFlight(d) THEN 1 ELSE 0)

\* A published delivery is given up only after MaxAttempts requests were sent,
\* less one for each graceful shutdown (whose cancelled context counts
\* attempts that send nothing); only an endpoint without a scope fails sooner.
FailedAfterRetries ==
  \A d \in Deliveries :
    /\ Published(d)
    /\ delivery[d].status = "failed"
    /\ EndpointOf(d) \notin Legacy
    => /\ delivery[d].attempts = MaxAttempts
       /\ tries[d] + shutdowns >= MaxAttempts

\* Attempts on record are requests sent, neither more nor fewer, but for what is lost.
RetriesExact == RequestsAccounted /\ FailedAfterRetries

\* When Publish returned no error every endpoint that was interested when it
\* scanned has its delivery; no other endpoint ever has one.
FanOutExact ==
  \A v \in Events : eventType[v] # TestType =>
    /\ \A e \in EndpointIds : delivery[<<v, e>>].status # "absent" => e \in wanted[v]
    /\ v \in finished => \A e \in wanted[v] : delivery[<<v, e>>].status # "absent"

\* An event reserved to platform endpoints waits for, or was sent to, an
\* endpoint that is platform-scoped, that has no scope or no longer exists, or
\* that was written by a save decided on before another write.
PlatformOnlyUnlessRaced ==
  \A d \in Deliveries :
    /\ eventType[EventOf(d)] \in PlatformOnly
    /\ delivery[d].status # "absent"
    => \/ endpoint[EndpointOf(d)].scope # "account"
       \/ EndpointOf(d) \in raced

\* Deliveries are made for those whom an event is for, all of them and nobody else.
DeliveriesDue == FanOutExact /\ PlatformOnlyUnlessRaced

\* Each editor can take an owner at most one endpoint past the limit that
\* CreateEndpoint checks, except the last.
LimitOvershoot ==
  \A a \in Accounts : Cardinality(OwnedBy(a)) <= EndpointLimit + Cardinality(Editors) - 1

\* A platform endpoint becomes an account endpoint again, and a deleted one
\* comes back, only by a write decided on before another write.
EndpointNeverRegresses ==
  [][\A e \in EndpointIds :
       \/ endpoint[e].scope = "platform" /\ endpoint'[e].scope = "account"
       \/ endpoint[e].scope = "deleted" /\ endpoint'[e].scope # "deleted"
       => e \in raced']_vars

\* What has been delivered or given up is never attempted or changed again:
\* restarts, crashes and old copies of the batch included (tests excepted).
SettledForGood ==
  [][\A d \in Deliveries :
       Published(d) /\ delivery[d].status \in {"delivered", "failed"}
       => delivery'[d] = delivery[d] /\ tries'[d] = tries[d]]_vars

\* The refinement of the abstract queue; tests are not deliveries of it.
StageOf(d) ==
  IF ~Published(d) THEN "absent"
  ELSE IF Pending(d) THEN "waiting"
  ELSE delivery[d].status

Stages   == [d \in Deliveries |-> StageOf(d)]
Recorded == [d \in Deliveries |-> IF StageOf(d) = "absent" THEN 0 ELSE delivery[d].attempts]

Lifecycle == INSTANCE DeliveryLifecycle WITH
  Ids <- Deliveries, stage <- Stages, attempts <- Recorded

\* A published delivery does what the abstract queue allows and nothing else,
\* through stale batches, crashes and restarts alike.
ImplementsLifecycle == Lifecycle!LifeSpec

\* A waiting delivery is eventually settled, or some waiting delivery has lost
\* its endpoint (which may then occupy the worker's batch for good).
SettledUnlessOrphans ==
  \A d \in Deliveries :
    Pending(d) ~> \/ delivery[d].status \in {"delivered", "failed"}
                  \/ \E o \in Deliveries : Pending(o) /\ ~Exists(EndpointOf(o))

-----------------------------------------------------------------------------
(* Claims of the documentation that the code does not keep.                *)

\* "A delivery can be attempted up to five times."
AttemptedAtMost == \A d \in Deliveries : tries[d] <= MaxAttempts

\* "If a delivery fails, Wave retries it", until it is delivered or failed, as
\* long as its endpoint exists.
RetriedUntilSettled ==
  \A d \in Deliveries :
    Pending(d) ~> \/ delivery[d].status \in {"delivered", "failed"}
                  \/ ~Exists(EndpointOf(d))

\* "Platform-only events are not delivered to account-scoped endpoints."
PlatformOnlyDelivery ==
  [][\A d \in Deliveries :
       tries'[d] # tries[d] /\ eventType[EventOf(d)] \in PlatformOnly
       => endpoint[EndpointOf(d)].scope # "account"]_vars
=============================================================================
