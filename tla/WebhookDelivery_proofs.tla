----------------------- MODULE WebhookDelivery_proofs -----------------------
(***************************************************************************)
(* Machine-checked proofs about WebhookDelivery, for every value of its    *)
(* constants: first of its queue, then of what it promises beyond that, who *)
(* a delivery is for, how often it was posted, and what stale endpoint edits *)
(* can do.                                                                 *)
(***************************************************************************)
EXTENDS WebhookDelivery, TLAPS, FiniteSetTheorems

\* The delay table yields minutes.
LEMMA BackoffNat ==
  ASSUME NEW n \in Nat \ {0}
  PROVE  Backoff(n) \in Nat
<1>1. Least(n, 6) \in 1 .. 6
  BY DEF Least
<1>2. \A k \in 1 .. 6 : <<2, 4, 8, 16, 32, 64>>[k] \in Nat
  OBVIOUS
<1>3. QED
  BY <1>1, <1>2 DEF Backoff

\* What PutDelivery stores after an answer is a delivery record.
LEMMA OutcomeType ==
  ASSUME NEW r \in Requests, NEW ok \in BOOLEAN
  PROVE  /\ Outcome(r, ok) \in Records
         /\ Outcome(r, ok).attempts = r.attempts
<1> USE SizeAssumption
<1>1. CASE ok
  BY <1>1 DEF Outcome, Requests, Records
<1>2. CASE ~ok /\ r.attempts >= MaxAttempts
  BY <1>2 DEF Outcome, Requests, Records
<1>3. CASE ~ok /\ ~(r.attempts >= MaxAttempts)
  BY <1>3 DEF Outcome, Requests, Records
<1>4. QED
  BY <1>1, <1>2, <1>3

LEMMA InitType == Init => TypeOK
<1> SUFFICES ASSUME Init PROVE TypeOK
  OBVIOUS
<1> USE SizeAssumption, NameAssumption
<1>1. \A a \in Accounts, e \in EndpointIds : StoredEndpoint(e, a) \in Endpoints
  BY DEF StoredEndpoint, Endpoints, Scopes, Actors
<1>2. NoEndpoint \in Endpoints
  BY DEF NoEndpoint, Endpoints, Actors
<1>3. endpoint \in [EndpointIds -> Endpoints]
  BY <1>1, <1>2 DEF Init
<1>4. NoDelivery \in Records /\ NewDelivery \in Records
  BY DEF NoDelivery, NewDelivery, Records
<1>5. delivery \in [Deliveries -> Records]
  BY <1>4 DEF Init
<1>6. wanted \in [Events -> SUBSET EndpointIds]
  BY DEF Init, EndpointIds
<1>7. eventType \in [Events -> Types \cup {TestType}]
  BY DEF Init
<1>8. /\ lastEndpoint \in 0 .. MaxEndpoints
      /\ lastEvent \in Events
      /\ finished \in SUBSET Events
      /\ edits \in 0 .. MaxEdits
      /\ losses \in 0 .. MaxLosses
      /\ shutdowns \in 0 .. MaxShutdowns
  BY DEF Init, Events
<1>9. /\ edit \in [Editors -> Edits \cup {None}]
      /\ publish \in [Publishers -> Fanouts \cup {None}]
      /\ batch \in [Threads -> SUBSET Copies]
      /\ request \in [Threads -> Requests \cup {None}]
      /\ tries \in [Deliveries -> Nat]
      /\ raced \in SUBSET EndpointIds
      /\ stopping \in BOOLEAN
  BY DEF Init
<1>10. QED
  BY <1>3, <1>5, <1>6, <1>7, <1>8, <1>9 DEF TypeOK

\* Types are kept by every step; that a waiting delivery has attempts left is
\* what bounds the copies Scan takes.
LEMMA NextType == TypeOK /\ AttemptsLeft /\ [Next]_vars => TypeOK'
<1> SUFFICES ASSUME TypeOK, AttemptsLeft, [Next]_vars PROVE TypeOK'
  OBVIOUS
<1> USE SizeAssumption, NameAssumption DEF TypeOK, endpointVars, fanoutVars, workVars, faultVars
<1>1. ASSUME NEW s \in Editors, NEW e \in EndpointIds, NEW item \in Endpoints,
             StartEdit(s, e, item), lastEndpoint' \in 0 .. MaxEndpoints
      PROVE  TypeOK'
  <2>1. [id |-> e, item |-> item, fresh |-> TRUE] \in Edits
    BY DEF Edits
  <2>2. edits' \in 0 .. MaxEdits
    BY <1>1 DEF StartEdit
  <2>3. edit' \in [Editors -> Edits \cup {None}]
    BY <1>1, <2>1 DEF StartEdit
  <2>4. QED
    BY <1>1, <2>2, <2>3 DEF StartEdit
<1>2. ASSUME NEW s \in Editors, NEW a \in Actors, NEW types \in SUBSET Types,
             NEW enabled \in BOOLEAN, CreateEndpoint(s, a, types, enabled)
      PROVE  TypeOK'
  <2>1. [owner |-> a, scope |-> ScopeOf(a), events |-> types, enabled |-> enabled] \in Endpoints
    BY DEF ScopeOf, Endpoints, Scopes
  <2>2. lastEndpoint' \in 0 .. MaxEndpoints /\ lastEndpoint + 1 \in EndpointIds
    BY <1>2 DEF CreateEndpoint, EndpointIds
  <2>3. QED
    BY <1>1, <1>2, <2>1, <2>2 DEF CreateEndpoint
<1>3. ASSUME NEW s \in Editors, NEW a \in Actors, NEW e \in EndpointIds, NEW types \in SUBSET Types,
             NEW enabled \in BOOLEAN, UpdateEndpoint(s, a, e, types, enabled)
      PROVE  TypeOK'
  <2>1. [owner |-> endpoint[e].owner, scope |-> ScopeOf(a), events |-> types,
         enabled |-> enabled] \in Endpoints
    BY DEF ScopeOf, Endpoints, Scopes
  <2>2. QED
    BY <1>1, <1>3, <2>1 DEF UpdateEndpoint
<1>4. ASSUME NEW s \in Editors, NEW a \in Actors, NEW e \in EndpointIds, DeleteEndpoint(s, a, e)
      PROVE  TypeOK'
  <2>1. [endpoint[e] EXCEPT !.scope = "deleted"] \in Endpoints
    BY DEF Endpoints
  <2>2. QED
    BY <1>1, <1>4, <2>1 DEF DeleteEndpoint
<1>5. ASSUME NEW s \in Editors, WriteEdit(s)
      PROVE  TypeOK'
  <2>1. edit[s] \in Edits
    BY <1>5 DEF WriteEdit
  <2>2. edit[s].id \in EndpointIds /\ edit[s].item \in Endpoints
    BY <2>1 DEF Edits
  <2>3. endpoint' \in [EndpointIds -> Endpoints] /\ raced' \in SUBSET EndpointIds
    BY <1>5, <2>2 DEF WriteEdit
  <2>4. \A r \in Editors : edit[r] # None => [edit[r] EXCEPT !.fresh = FALSE] \in Edits
    BY DEF Edits
  <2>5. edit' \in [Editors -> Edits \cup {None}]
    BY <1>5, <2>4 DEF WriteEdit
  <2>6. QED
    BY <1>5, <2>3, <2>5 DEF WriteEdit
<1>6. ASSUME NEW p \in Publishers, NEW type \in Types, BeginPublish(p, type)
      PROVE  TypeOK'
  <2>1. lastEvent + 1 \in Events /\ Interested(type) \in SUBSET EndpointIds
    BY <1>6 DEF BeginPublish, Events, Interested
  <2>2. [event |-> lastEvent + 1, todo |-> Interested(type)] \in Fanouts
    BY <2>1 DEF Fanouts
  <2>3. publish' \in [Publishers -> Fanouts \cup {None}]
    BY <1>6, <2>2 DEF BeginPublish
  <2>4. /\ lastEvent' \in Events
        /\ eventType' \in [Events -> Types \cup {TestType}]
        /\ wanted' \in [Events -> SUBSET EndpointIds]
    BY <1>6, <2>1 DEF BeginPublish
  <2>5. QED
    BY <1>6, <2>3, <2>4 DEF BeginPublish
<1>7. ASSUME NEW p \in Publishers, StoreDelivery(p)
      PROVE  TypeOK'
  <2>1. publish[p] \in Fanouts
    BY <1>7 DEF StoreDelivery
  <2>2. PICK e \in publish[p].todo :
          /\ delivery' = [delivery EXCEPT ![<<publish[p].event, e>>] = NewDelivery]
          /\ publish' = [publish EXCEPT ![p].todo = @ \ {e}]
    BY <1>7 DEF StoreDelivery
  <2>3. NewDelivery \in Records
    BY DEF NewDelivery, Records
  <2>4. delivery' \in [Deliveries -> Records]
    BY <2>2, <2>3
  <2>5. [publish[p] EXCEPT !.todo = @ \ {e}] \in Fanouts
    BY <2>1 DEF Fanouts
  <2>6. publish' \in [Publishers -> Fanouts \cup {None}]
    BY <2>2, <2>5
  <2>7. QED
    BY <1>7, <2>4, <2>6 DEF StoreDelivery
<1>8. ASSUME NEW p \in Publishers, EndPublish(p)
      PROVE  TypeOK'
  <2>1. publish[p].event \in Events
    BY <1>8 DEF EndPublish, Fanouts
  <2>2. QED
    BY <1>8, <2>1 DEF EndPublish
<1>9. ASSUME NEW p \in Publishers, FailPublish(p)
      PROVE  TypeOK'
  <2>1. losses' \in 0 .. MaxLosses
    BY <1>9 DEF FailPublish
  <2>2. QED
    BY <1>9, <2>1 DEF FailPublish
<1>10. ASSUME NEW t \in Testers, NEW a \in Actors, NEW e \in EndpointIds, BeginTest(t, a, e)
       PROVE  TypeOK'
  <2>1. lastEvent + 1 \in Events /\ <<lastEvent + 1, e>> \in Deliveries
    BY <1>10 DEF BeginTest, Events, Deliveries
  <2>2. NewDelivery \in Records
    BY DEF NewDelivery, Records
  <2>3. [id |-> <<lastEvent + 1, e>>, attempts |-> 0] \in Copies
    BY <2>1 DEF Copies
  <2>4. /\ lastEvent' \in Events
        /\ eventType' \in [Events -> Types \cup {TestType}]
        /\ delivery' \in [Deliveries -> Records]
        /\ batch' \in [Threads -> SUBSET Copies]
    BY <1>10, <2>1, <2>2, <2>3 DEF BeginTest
  <2>5. QED
    BY <1>10, <2>4 DEF BeginTest
<1>11. ASSUME Scan
       PROVE  TypeOK'
  <2>1. PICK B \in SUBSET {d \in Deliveries : Due(d)} :
          batch' = [batch EXCEPT ![Worker] = {CopyOf(d) : d \in B}]
    BY <1>11 DEF Scan
  <2>2. \A d \in B : CopyOf(d) \in Copies
    BY DEF AttemptsLeft, Due, CopyOf, Copies, Records
  <2>3. {CopyOf(d) : d \in B} \in SUBSET Copies
    BY <2>2
  <2>4. batch' \in [Threads -> SUBSET Copies]
    BY <2>1, <2>3
  <2>5. QED
    BY <1>11, <2>4 DEF Scan
<1>12. ASSUME NEW t \in Threads, NEW c \in batch[t], TakeCopy(t, c)
       PROVE  batch' \in [Threads -> SUBSET Copies]
  BY <1>12 DEF TakeCopy
<1>13. ASSUME NEW t \in Threads, NEW c \in batch[t], NEW live \in BOOLEAN, Attempt(t, c, live)
       PROVE  TypeOK'
  <2>1. c \in Copies
    OBVIOUS
  <2>2. c.id \in Deliveries /\ c.attempts + 1 \in 1 .. MaxAttempts
    BY <2>1 DEF Copies
  <2>3. Backoff(c.attempts + 1) \in Nat
    BY <2>2, BackoffNat
  <2>4. [id |-> c.id, attempts |-> c.attempts + 1,
         wait |-> Backoff(c.attempts + 1), live |-> live] \in Requests
    BY <2>2, <2>3 DEF Requests
  <2>5. request' \in [Threads -> Requests \cup {None}]
    BY <1>13, <2>4 DEF Attempt
  <2>6. tries' \in [Deliveries -> Nat]
    BY <1>13, <2>2 DEF Attempt
  <2>7. QED
    BY <1>12, <1>13, <2>5, <2>6 DEF Attempt
<1>14. ASSUME NEW t \in Threads, NEW c \in batch[t], SkipMissing(t, c)
       PROVE  TypeOK'
  BY <1>12, <1>14 DEF SkipMissing
<1>15. ASSUME NEW d \in Deliveries, NEW record \in Records, Put(d, record)
       PROVE  delivery' \in [Deliveries -> Records] /\ losses' \in 0 .. MaxLosses
  BY <1>15 DEF Put
<1>16. ASSUME NEW t \in Threads, NEW c \in batch[t], RejectLegacy(t, c)
       PROVE  TypeOK'
  <2>1. c \in Copies
    OBVIOUS
  <2>2. [status |-> "failed", attempts |-> c.attempts, wait |-> 0] \in Records /\ c.id \in Deliveries
    BY <2>1 DEF Copies, Records
  <2>3. QED
    BY <1>12, <1>15, <1>16, <2>2 DEF RejectLegacy
<1>17. ASSUME NEW t \in Threads, NEW ok \in BOOLEAN, Answer(t, ok)
       PROVE  TypeOK'
  <2>1. request[t] \in Requests
    BY <1>17 DEF Answer
  <2>2. request[t].id \in Deliveries /\ Outcome(request[t], ok) \in Records
    BY <2>1, OutcomeType DEF Requests
  <2>3. QED
    BY <1>15, <1>17, <2>2 DEF Answer
<1>18. ASSUME Tick
       PROVE  TypeOK'
  <2>1. \A n \in Nat : Tock(n) \in Nat
    BY DEF Tock
  <2>2. \A d \in Deliveries : [delivery[d] EXCEPT !.wait = Tock(@)] \in Records
    BY <2>1 DEF Records
  <2>3. delivery' \in [Deliveries -> Records]
    BY <1>18, <2>2 DEF Tick
  <2>4. \A t \in Threads : request[t] # None => [request[t] EXCEPT !.wait = Tock(@)] \in Requests
    BY <2>1 DEF Requests
  <2>5. request' \in [Threads -> Requests \cup {None}]
    BY <1>18, <2>4 DEF Tick
  <2>6. QED
    BY <1>18, <2>3, <2>5 DEF Tick
<1>19. ASSUME Shutdown
       PROVE  TypeOK'
  <2>1. shutdowns' \in 0 .. MaxShutdowns
    BY <1>19 DEF Shutdown
  <2>2. stopping' \in BOOLEAN
    BY <1>19 DEF Shutdown
  <2>3. QED
    BY <1>19, <2>1, <2>2 DEF Shutdown
<1>20. ASSUME Restart, losses' \in 0 .. MaxLosses
       PROVE  TypeOK'
  <2>1. /\ edit' \in [Editors -> Edits \cup {None}]
        /\ publish' \in [Publishers -> Fanouts \cup {None}]
        /\ batch' \in [Threads -> SUBSET Copies]
        /\ request' \in [Threads -> Requests \cup {None}]
        /\ stopping' \in BOOLEAN
    BY <1>20 DEF Restart
  <2>2. QED
    BY <1>20, <2>1 DEF Restart
<1>21. ASSUME Stopped
       PROVE  TypeOK'
  BY <1>20, <1>21 DEF Stopped
<1>22. ASSUME Crash
       PROVE  TypeOK'
  <2>1. losses' \in 0 .. MaxLosses
    BY <1>22 DEF Crash
  <2>2. QED
    BY <1>20, <1>22, <2>1 DEF Crash
<1>23. CASE UNCHANGED vars
  BY <1>23 DEF vars
<1> HIDE DEF TypeOK, endpointVars, fanoutVars, workVars, faultVars
<1>24. ASSUME NEW s \in Editors, Edit(s)
       PROVE  TypeOK'
  BY <1>2, <1>3, <1>4, <1>5, <1>24 DEF Edit
<1>25. ASSUME NEW p \in Publishers, Fanout(p)
       PROVE  TypeOK'
  BY <1>6, <1>7, <1>8, <1>9, <1>25 DEF Fanout
<1>26. ASSUME NEW t \in Threads, Deliver(t)
       PROVE  TypeOK'
  BY <1>13, <1>14, <1>16, <1>17, <1>26 DEF Deliver
<1>27. QED
  BY <1>10, <1>11, <1>18, <1>19, <1>21, <1>22, <1>23, <1>24, <1>25, <1>26 DEF Next

-----------------------------------------------------------------------------
(* The queue: copies, attempts and events.                                 *)

LEMMA InitQueue == Init => QueueInv
<1> SUFFICES ASSUME Init PROVE QueueInv
  OBVIOUS
<1>1. TypeOK
  BY InitType
<1>2. AttemptsLeft
  BY SizeAssumption DEF Init, AttemptsLeft, Pending, NewDelivery, NoDelivery
<1>3. WorkerCopiesFresh
  BY DEF Init, WorkerCopiesFresh
<1>4. EventsDisjoint
  BY DEF Init, EventsDisjoint, NoDelivery, Deliveries, Events, EventOf
<1>5. QED
  BY <1>1, <1>2, <1>3, <1>4 DEF QueueInv

queueVars == <<delivery, batch, request, eventType, lastEvent, publish>>

\* What the queue says of its own variables holds as long as they do not change.
LEMMA QueueFrame ==
  ASSUME QueueInv, UNCHANGED queueVars
  PROVE  AttemptsLeft' /\ WorkerCopiesFresh' /\ EventsDisjoint'
<1> USE DEF QueueInv, queueVars
<1>1. AttemptsLeft'
  BY DEF AttemptsLeft, Pending
<1>2. WorkerCopiesFresh'
  BY DEF WorkerCopiesFresh, Pending, Published
<1>3. EventsDisjoint'
  BY DEF EventsDisjoint
<1>4. QED
  BY <1>1, <1>2, <1>3

LEMMA PublishQueue ==
  ASSUME QueueInv, NEW p \in Publishers, NEW type \in Types, BeginPublish(p, type)
  PROVE  AttemptsLeft' /\ WorkerCopiesFresh' /\ EventsDisjoint'
<1> USE DEF QueueInv, BeginPublish, endpointVars, workVars, faultVars
<1>1. AttemptsLeft'
  BY DEF AttemptsLeft, Pending
<1>2. lastEvent + 1 \in Events
  BY SizeAssumption DEF TypeOK, Events
<1>3. \A d \in Deliveries : EventOf(d) <= lastEvent => (Published(d)' <=> Published(d))
  BY <1>2 DEF TypeOK, Published, Events, Deliveries, EventOf
<1>4. \A t \in Threads : /\ \A c \in batch[t] : c.id \in Deliveries
                         /\ request[t] # None => request[t].id \in Deliveries
  BY DEF TypeOK, Copies, Requests
<1>5. WorkerCopiesFresh'
  BY <1>3, <1>4 DEF WorkerCopiesFresh, EventsDisjoint, Pending
<1>6. EventsDisjoint'
  <2>1. \A d \in Deliveries : EventOf(d) > lastEvent' => delivery'[d].status = "absent"
    BY <1>2 DEF TypeOK, Events, EventsDisjoint, Deliveries, EventOf
  <2>2. \A t \in Threads :
          /\ \A c \in batch'[t] : EventOf(c.id) <= lastEvent'
          /\ request'[t] # None => EventOf(request'[t].id) <= lastEvent'
    BY <1>2, <1>4 DEF TypeOK, Events, EventsDisjoint, Deliveries, EventOf
  <2>3. ASSUME NEW q \in Publishers, publish'[q] # None
        PROVE  /\ publish'[q].event <= lastEvent'
               /\ eventType'[publish'[q].event] # TestType
               /\ \A e \in publish'[q].todo : delivery'[<<publish'[q].event, e>>].status = "absent"
               /\ \A r \in Publishers : r # q /\ publish'[r] # None => publish'[r].event # publish'[q].event
    <3>1. publish'[p] = [event |-> lastEvent + 1, todo |-> Interested(type)]
      BY DEF TypeOK
    <3>2. \A r \in Publishers : r # p => publish'[r] = publish[r]
      BY DEF TypeOK
    <3>3. \A r \in Publishers : publish[r] # None => publish[r].event \in Events
      BY DEF TypeOK, Fanouts
    <3>4. eventType'[lastEvent + 1] = type /\ \A v \in Events : v # lastEvent + 1 => eventType'[v] = eventType[v]
      BY <1>2 DEF TypeOK
    <3>5. CASE q = p
      <4>1. \A e \in EndpointIds : delivery[<<lastEvent + 1, e>>].status = "absent"
        BY <1>2 DEF EventsDisjoint, Deliveries, EventOf, TypeOK, Events
      <4>2. Interested(type) \subseteq EndpointIds
        BY DEF Interested
      <4>3. \A r \in Publishers : r # p /\ publish[r] # None => publish[r].event < lastEvent + 1
        BY <3>3 DEF EventsDisjoint, TypeOK, Events
      <4>4. publish'[q].event = lastEvent + 1 /\ publish'[q].todo = Interested(type)
        BY <3>1, <3>5
      <4>5. publish'[q].event <= lastEvent' /\ eventType'[publish'[q].event] # TestType
        BY <3>4, <4>4, NameAssumption DEF TypeOK, Events
      <4>6. \A r \in Publishers : r # q /\ publish'[r] # None => publish'[r].event # publish'[q].event
        BY <3>2, <3>3, <3>5, <4>3, <4>4 DEF TypeOK, Events
      <4>7. \A e \in publish'[q].todo : delivery'[<<publish'[q].event, e>>].status = "absent"
        BY <4>1, <4>2, <4>4
      <4>8. QED
        BY <4>5, <4>6, <4>7
    <3>6. CASE q # p
      <4>1. publish'[q] = publish[q] /\ publish[q].event <= lastEvent /\ publish[q].event \in Events
        BY <2>3, <3>2, <3>3, <3>6 DEF EventsDisjoint
      <4>2. publish[q].event # lastEvent + 1 /\ publish[q].event <= lastEvent + 1
        BY <4>1 DEF TypeOK, Events
      <4>3. eventType'[publish[q].event] # TestType
        BY <2>3, <3>4, <4>1, <4>2 DEF EventsDisjoint
      <4>4. \A e \in publish'[q].todo : delivery'[<<publish'[q].event, e>>].status = "absent"
        BY <2>3, <4>1 DEF EventsDisjoint
      <4>5. \A r \in Publishers : r # q /\ publish'[r] # None => publish'[r].event # publish'[q].event
        BY <2>3, <3>1, <3>2, <4>1, <4>2 DEF EventsDisjoint
      <4>6. QED
        BY <4>1, <4>2, <4>3, <4>4, <4>5
    <3>7. QED
      BY <3>5, <3>6
  <2>4. QED
    BY <2>1, <2>2, <2>3 DEF EventsDisjoint
<1>7. QED
  BY <1>1, <1>5, <1>6

LEMMA StoreQueue ==
  ASSUME QueueInv, NEW p \in Publishers, StoreDelivery(p)
  PROVE  AttemptsLeft' /\ WorkerCopiesFresh' /\ EventsDisjoint'
<1> USE DEF QueueInv
<1>1. PICK e \in publish[p].todo :
        /\ delivery' = [delivery EXCEPT ![<<publish[p].event, e>>] = NewDelivery]
        /\ publish' = [publish EXCEPT ![p].todo = @ \ {e}]
  BY DEF StoreDelivery
<1>2. UNCHANGED <<batch, request, eventType, lastEvent>>
  BY DEF StoreDelivery
<1>3. publish[p] # None /\ publish[p] \in Fanouts
  BY DEF StoreDelivery, TypeOK
<1> DEFINE new == <<publish[p].event, e>>
<1>4. new \in Deliveries /\ EventOf(new) = publish[p].event
  BY <1>3 DEF Deliveries, Fanouts, EventOf
<1>5. delivery[new].status = "absent" /\ Published(new) /\ EventOf(new) <= lastEvent
  BY <1>3, <1>4 DEF EventsDisjoint, Published
<1>6. \A d \in Deliveries : d # new => delivery'[d] = delivery[d]
  BY <1>1, <1>4 DEF TypeOK
<1>7. delivery'[new] = NewDelivery
  BY <1>1, <1>4 DEF TypeOK
<1>8. AttemptsLeft'
  BY <1>2, <1>6, <1>7, SizeAssumption DEF AttemptsLeft, Pending, NewDelivery
<1>9. \A t \in Threads : /\ \A c \in batch[t] : c.id \in Deliveries
                         /\ request[t] # None => request[t].id \in Deliveries
  BY DEF TypeOK, Copies, Requests
<1>10. \A t \in Threads : /\ \A c \in batch[t] : c.id # new
                          /\ request[t] # None => request[t].id # new
  BY <1>5 DEF WorkerCopiesFresh, Pending
<1>11. WorkerCopiesFresh'
  BY <1>2, <1>6, <1>9, <1>10 DEF WorkerCopiesFresh, Published, Pending
<1>12. \A d \in Deliveries : EventOf(d) > lastEvent' => delivery'[d].status = "absent"
  BY <1>2, <1>4, <1>5, <1>6 DEF EventsDisjoint, TypeOK, Events, Deliveries, EventOf
<1>13. ASSUME NEW q \in Publishers, publish'[q] # None
       PROVE  /\ publish'[q].event <= lastEvent'
              /\ eventType'[publish'[q].event] # TestType
              /\ \A f \in publish'[q].todo : delivery'[<<publish'[q].event, f>>].status = "absent"
              /\ \A r \in Publishers : r # q /\ publish'[r] # None => publish'[r].event # publish'[q].event
  <2>1. \A r \in Publishers : /\ publish'[r] # None => publish[r] # None
                              /\ publish[r] # None => publish'[r].event = publish[r].event
                              /\ publish[r] # None => publish'[r].todo \subseteq publish[r].todo
                              /\ r = p => publish'[r].todo = publish[r].todo \ {e}
    BY <1>1, <1>3 DEF TypeOK, Fanouts
  <2>2. \A f \in publish'[q].todo : <<publish[q].event, f>> # new
    <3>1. CASE q = p
      BY <2>1, <3>1
    <3>2. CASE q # p
      BY <1>3, <1>13, <2>1, <3>2 DEF EventsDisjoint
    <3>3. QED
      BY <3>1, <3>2
  <2>3. publish[q] \in Fanouts /\ publish[q] # None
    BY <1>13, <2>1 DEF TypeOK
  <2>4. \A f \in publish'[q].todo : <<publish[q].event, f>> \in Deliveries
    BY <2>1, <2>3 DEF Fanouts, Deliveries
  <2>5. \A f \in publish'[q].todo : delivery'[<<publish'[q].event, f>>].status = "absent"
    BY <1>6, <2>1, <2>2, <2>3, <2>4 DEF EventsDisjoint
  <2>6. QED
    BY <1>2, <2>1, <2>3, <2>5 DEF EventsDisjoint
<1>14. EventsDisjoint'
  BY <1>2, <1>12, <1>13 DEF EventsDisjoint
<1>15. QED
  BY <1>8, <1>11, <1>14

\* Dropping running Publishes, copies and requests loses nothing the queue relies on.
LEMMA DropQueue ==
  ASSUME QueueInv, UNCHANGED <<delivery, eventType, lastEvent>>,
         \A p \in Publishers : publish'[p] \in {publish[p], None},
         \A t \in Threads : batch'[t] \subseteq batch[t] /\ request'[t] \in {request[t], None}
  PROVE  AttemptsLeft' /\ WorkerCopiesFresh' /\ EventsDisjoint'
<1> USE DEF QueueInv
<1>1. \A t \in Threads : request'[t] # None => request'[t] = request[t]
  OBVIOUS
<1>2. AttemptsLeft'
  BY <1>1 DEF AttemptsLeft, Pending
<1>3. WorkerCopiesFresh'
  BY <1>1 DEF WorkerCopiesFresh, Pending, Published
<1>4. \A p \in Publishers : publish'[p] # None => publish'[p] = publish[p]
  OBVIOUS
<1>5. EventsDisjoint'
  BY <1>1, <1>4 DEF EventsDisjoint
<1>6. QED
  BY <1>2, <1>3, <1>5

LEMMA TestQueue ==
  ASSUME QueueInv, NEW t \in Testers, NEW a \in Actors, NEW e \in EndpointIds, BeginTest(t, a, e)
  PROVE  AttemptsLeft' /\ WorkerCopiesFresh' /\ EventsDisjoint'
<1> USE DEF QueueInv
<1>0. PICK v \in Events : v = lastEvent + 1
  BY SizeAssumption DEF BeginTest, TypeOK, Events
<1> DEFINE new == <<v, e>>
<1>1. v \in Events /\ new \in Deliveries /\ EventOf(new) = v /\ lastEvent \in Events /\ v = lastEvent + 1
  BY <1>0 DEF TypeOK, Deliveries, EventOf
<1>2. /\ lastEvent' = v
      /\ eventType' = [eventType EXCEPT ![v] = TestType]
      /\ delivery' = [delivery EXCEPT ![new] = NewDelivery]
      /\ batch' = [batch EXCEPT ![t] = {[id |-> new, attempts |-> 0]}]
      /\ UNCHANGED <<publish, request>>
      /\ request[t] = None
  BY <1>0 DEF BeginTest
<1>3. t \in Threads /\ t # Worker
  BY NameAssumption DEF Threads
<1>4. \A d \in Deliveries : d # new => delivery'[d] = delivery[d]
  BY <1>1, <1>2 DEF TypeOK
<1>5. \A u \in Threads : /\ \A c \in batch[u] : c.id \in Deliveries /\ EventOf(c.id) < v
                         /\ request[u] # None => request[u].id \in Deliveries /\ EventOf(request[u].id) < v
  BY <1>1 DEF EventsDisjoint, TypeOK, Copies, Requests, Events, Deliveries, EventOf
<1>6. \A d \in Deliveries : EventOf(d) < v => d # new /\ (Published(d)' <=> Published(d))
  BY <1>1, <1>2 DEF TypeOK, Published, Events, Deliveries, EventOf
<1>7. ~Published(new)'
  BY <1>1, <1>2 DEF TypeOK, Published
<1>8. AttemptsLeft'
  BY <1>1, <1>2, <1>4, SizeAssumption DEF AttemptsLeft, Pending, NewDelivery, TypeOK
<1>9. ASSUME NEW u \in Threads
      PROVE  /\ \A c \in batch'[u] : c.id \in Deliveries /\ EventOf(c.id) <= v
             /\ \A c \in batch'[u] : Published(c.id)' => c \in batch[u] /\ Published(c.id)
  <2>1. CASE u = t
    <3>1. batch'[u] = {[id |-> new, attempts |-> 0]}
      BY <1>2, <1>3, <2>1 DEF TypeOK
    <3>2. QED
      BY <1>1, <1>7, <3>1 DEF Events
  <2>2. CASE u # t
    <3>1. batch'[u] = batch[u]
      BY <1>2, <1>3, <2>2 DEF TypeOK
    <3>2. QED
      BY <1>1, <1>5, <1>6, <3>1 DEF Events, Deliveries, EventOf
  <2>3. QED
    BY <2>1, <2>2
<1>10. \A u \in Threads : request[u] # None /\ eventType'[EventOf(request[u].id)] # TestType =>
         Published(request[u].id) /\ u # t
  BY <1>2, <1>5, <1>6 DEF Published
<1>11. \A d \in Deliveries : EventOf(d) < v => delivery'[d] = delivery[d]
  BY <1>4, <1>6
<1>12. WorkerCopiesFresh'
  <2>1. ASSUME NEW u \in Threads, NEW c \in batch'[u], Published(c.id)'
        PROVE  u = Worker /\ Pending(c.id)' /\ delivery'[c.id].attempts = c.attempts
    BY <1>5, <1>9, <1>11, <2>1 DEF WorkerCopiesFresh, Pending
  <2>2. ASSUME NEW u \in Threads, request[u] # None, eventType'[EventOf(request[u].id)] # TestType
        PROVE  /\ u = Worker
               /\ delivery'[request[u].id].status \in {"queued", "deferred"}
               /\ delivery'[request[u].id].attempts + 1 = request[u].attempts
               /\ \A c \in batch'[u] : c.id # request[u].id
    <3>1. u # t /\ Published(request[u].id)
      BY <1>10, <2>2
    <3>2. batch'[u] = batch[u]
      BY <1>2, <1>3, <3>1 DEF TypeOK
    <3>3. delivery'[request[u].id] = delivery[request[u].id]
      BY <1>5, <1>11, <2>2
    <3>4. QED
      BY <2>2, <3>1, <3>2, <3>3 DEF WorkerCopiesFresh, Pending
  <2>3. request' = request
    BY <1>2
  <2>4. QED
    BY <2>1, <2>2, <2>3 DEF WorkerCopiesFresh, Published, Pending
<1>13. EventsDisjoint'
  <2>1. \A d \in Deliveries : EventOf(d) > lastEvent' => delivery'[d].status = "absent"
    BY <1>1, <1>2, <1>4 DEF EventsDisjoint, TypeOK, Events, Deliveries, EventOf
  <2>2. \A u \in Threads : /\ \A c \in batch'[u] : EventOf(c.id) <= lastEvent'
                           /\ request'[u] # None => EventOf(request'[u].id) <= lastEvent'
    BY <1>1, <1>2, <1>5, <1>9 DEF Events, Deliveries, EventOf
  <2>3. ASSUME NEW q \in Publishers, publish'[q] # None
        PROVE  /\ publish'[q].event <= lastEvent'
               /\ eventType'[publish'[q].event] # TestType
               /\ \A f \in publish'[q].todo : delivery'[<<publish'[q].event, f>>].status = "absent"
               /\ \A r \in Publishers : r # q /\ publish'[r] # None => publish'[r].event # publish'[q].event
    <3>1. publish'[q] = publish[q] /\ publish[q] \in Fanouts
      BY <1>2, <2>3 DEF TypeOK
    <3>2. publish[q].event \in Events /\ publish[q].event <= lastEvent
      BY <1>2, <2>3, <3>1 DEF EventsDisjoint, Fanouts
    <3>3. publish[q].event < v /\ publish[q].event # v
      BY <1>1, <3>2 DEF Events
    <3>4. \A f \in publish[q].todo : <<publish[q].event, f>> \in Deliveries /\ <<publish[q].event, f>> # new
      BY <3>1, <3>2, <3>3 DEF Fanouts, Deliveries
    <3>5. eventType'[publish[q].event] = eventType[publish[q].event]
      BY <1>2, <3>2, <3>3 DEF TypeOK
    <3>6. eventType'[publish'[q].event] # TestType
      BY <1>2, <2>3, <3>1, <3>5 DEF EventsDisjoint
    <3>7. \A f \in publish'[q].todo : delivery'[<<publish'[q].event, f>>].status = "absent"
      BY <1>2, <1>4, <2>3, <3>1, <3>4 DEF EventsDisjoint
    <3>8. \A r \in Publishers : r # q /\ publish'[r] # None => publish'[r].event # publish'[q].event
      BY <1>2, <2>3 DEF EventsDisjoint
    <3>9. publish'[q].event <= lastEvent'
      BY <1>1, <1>2, <3>1, <3>2 DEF Events
    <3>10. QED
      BY <3>6, <3>7, <3>8, <3>9
  <2>4. QED
    BY <2>1, <2>2, <2>3 DEF EventsDisjoint
<1>14. QED
  BY <1>8, <1>12, <1>13

LEMMA ScanQueue ==
  ASSUME QueueInv, Scan
  PROVE  AttemptsLeft' /\ WorkerCopiesFresh' /\ EventsDisjoint'
<1> USE DEF QueueInv
<1>1. PICK B \in SUBSET {d \in Deliveries : Due(d)} :
        batch' = [batch EXCEPT ![Worker] = {CopyOf(d) : d \in B}]
  BY DEF Scan
<1>2. UNCHANGED <<delivery, request, eventType, lastEvent, publish>> /\ request[Worker] = None
  BY DEF Scan, fanoutVars
<1>3. Worker \in Threads
  BY DEF Threads
<1>4. \A t \in Threads : t # Worker => batch'[t] = batch[t]
  BY <1>1, <1>3 DEF TypeOK
<1>5. \A c \in batch'[Worker] : \E d \in Deliveries : Due(d) /\ c = CopyOf(d)
  BY <1>1, <1>3 DEF TypeOK
<1>6. \A c \in batch'[Worker] : c.id \in Deliveries /\ Due(c.id) /\ c.attempts = delivery[c.id].attempts
  BY <1>5 DEF CopyOf
<1>7. AttemptsLeft'
  BY <1>2 DEF AttemptsLeft, Pending
<1>8. WorkerCopiesFresh'
  <2>1. ASSUME NEW t \in Threads, NEW c \in batch'[t], Published(c.id)
        PROVE  t = Worker /\ Pending(c.id) /\ delivery[c.id].attempts = c.attempts
    BY <1>4, <1>6, <2>1 DEF WorkerCopiesFresh, Due
  <2>2. ASSUME NEW t \in Threads, request[t] # None, Published(request[t].id)
        PROVE  FALSE
    BY <1>2, <2>2 DEF WorkerCopiesFresh
  <2>3. UNCHANGED <<delivery, request, eventType>>
    BY <1>2
  <2>4. QED
    BY <2>1, <2>2, <2>3 DEF WorkerCopiesFresh, Published, Pending
<1>9. \A d \in Deliveries : Due(d) => EventOf(d) <= lastEvent
  <2>1. \A d \in Deliveries : EventOf(d) \in Int /\ lastEvent \in Int
    BY SizeAssumption DEF TypeOK, Events, Deliveries, EventOf
  <2>2. \A d \in Deliveries : Due(d) => ~(EventOf(d) > lastEvent)
    BY DEF EventsDisjoint, Due, Pending
  <2>3. QED
    BY <2>1, <2>2
<1>10. \A t \in Threads : \A c \in batch'[t] : EventOf(c.id) <= lastEvent
  BY <1>4, <1>6, <1>9 DEF EventsDisjoint
<1>11. EventsDisjoint'
  BY <1>2, <1>10 DEF EventsDisjoint
<1>12. QED
  BY <1>7, <1>8, <1>11

LEMMA AttemptQueue ==
  ASSUME QueueInv, NEW t \in Threads, NEW c \in batch[t], NEW live \in BOOLEAN, Attempt(t, c, live)
  PROVE  AttemptsLeft' /\ WorkerCopiesFresh' /\ EventsDisjoint'
<1> USE DEF QueueInv
<1>1. UNCHANGED <<delivery, eventType, lastEvent, publish>> /\ request[t] = None
  BY DEF Attempt, IsNext, fanoutVars
<1>2. c \in Copies
  BY DEF TypeOK
<1>3. c.id \in Deliveries /\ c.attempts \in 0 .. MaxAttempts - 1
  BY <1>2 DEF Copies
<1>4. /\ request'[t].id = c.id
      /\ request'[t].attempts = c.attempts + 1
      /\ \A u \in Threads : u # t => request'[u] = request[u]
  BY DEF Attempt, TypeOK
<1>5. batch'[t] = batch[t] \ {c} /\ \A u \in Threads : batch'[u] \subseteq batch[u]
  BY DEF Attempt, TakeCopy, TypeOK
<1>6. AttemptsLeft'
  <2>1. request'[t].attempts <= MaxAttempts
    BY <1>3, <1>4, SizeAssumption
  <2>2. QED
    BY <1>1, <1>4, <2>1 DEF AttemptsLeft, Pending
<1>7. WorkerCopiesFresh'
  <2>1. ASSUME NEW u \in Threads, NEW o \in batch'[u], Published(o.id)
        PROVE  u = Worker /\ Pending(o.id) /\ delivery[o.id].attempts = o.attempts
    BY <1>5, <2>1 DEF WorkerCopiesFresh
  <2>2. ASSUME NEW u \in Threads, request'[u] # None, eventType[EventOf(request'[u].id)] # TestType
        PROVE  /\ u = Worker
               /\ delivery[request'[u].id].status \in {"queued", "deferred"}
               /\ delivery[request'[u].id].attempts + 1 = request'[u].attempts
               /\ \A o \in batch'[u] : o.id # request'[u].id
    <3>1. CASE u = t
      <4>1. u = Worker /\ Pending(c.id) /\ delivery[c.id].attempts = c.attempts
        BY <1>4, <2>2, <3>1 DEF WorkerCopiesFresh, Published
      <4>2. ASSUME NEW o \in batch'[u], o.id = c.id
            PROVE  FALSE
        <5>1. o \in batch[t] /\ o # c /\ o \in Copies
          BY <1>5, <3>1, <4>2 DEF TypeOK
        <5>2. o.attempts = c.attempts
          BY <1>4, <2>2, <3>1, <4>1, <4>2, <5>1 DEF WorkerCopiesFresh, Published
        <5>3. o = c
          BY <1>2, <4>2, <5>1, <5>2 DEF Copies
        <5>4. QED
          BY <5>1, <5>3
      <4>3. QED
        BY <1>4, <3>1, <4>1, <4>2 DEF Pending
    <3>2. CASE u # t
      BY <1>4, <1>5, <2>2, <3>2 DEF WorkerCopiesFresh, Published, Pending
    <3>3. QED
      BY <3>1, <3>2
  <2>3. QED
    BY <1>1, <2>1, <2>2 DEF WorkerCopiesFresh, Published, Pending
<1>8. \A u \in Threads : /\ \A o \in batch'[u] : EventOf(o.id) <= lastEvent
                         /\ request'[u] # None => EventOf(request'[u].id) <= lastEvent
  BY <1>4, <1>5 DEF EventsDisjoint
<1>9. EventsDisjoint'
  BY <1>1, <1>8 DEF EventsDisjoint
<1>10. QED
  BY <1>6, <1>7, <1>9

\* Storing the outcome of a copy keeps the queue in order when no other copy or
\* request for the same published delivery remains.
LEMMA PutQueue ==
  ASSUME QueueInv, NEW d \in Deliveries, NEW record \in Records, Put(d, record),
         UNCHANGED <<eventType, lastEvent, publish>>,
         EventOf(d) <= lastEvent,
         Published(d) => Pending(d),
         record.status \in {"queued", "deferred"} => record.attempts < MaxAttempts,
         \A t \in Threads : /\ batch'[t] \subseteq batch[t]
                            /\ request'[t] \in {request[t], None}
                            /\ Published(d) => /\ \A c \in batch'[t] : c.id # d
                                               /\ request'[t] # None => request'[t].id # d
  PROVE  AttemptsLeft' /\ WorkerCopiesFresh' /\ EventsDisjoint'
<1> USE DEF QueueInv
<1>1. \A t \in Threads : request'[t] # None => request'[t] = request[t]
  OBVIOUS
<1>2. \A f \in Deliveries : f # d => delivery'[f] = delivery[f]
  BY DEF Put, TypeOK
<1>3. delivery'[d] \in {record, delivery[d]}
  BY DEF Put, TypeOK
<1>4. AttemptsLeft'
  BY <1>1, <1>2, <1>3 DEF AttemptsLeft, Pending
<1>5. \A t \in Threads : /\ \A c \in batch[t] : c.id \in Deliveries
                         /\ request[t] # None => request[t].id \in Deliveries
  BY DEF TypeOK, Copies, Requests
<1>6. ASSUME NEW t \in Threads, NEW c \in batch'[t], Published(c.id)
      PROVE  t = Worker /\ Pending(c.id) /\ delivery'[c.id] = delivery[c.id]
             /\ delivery[c.id].attempts = c.attempts
  BY <1>2, <1>5, <1>6 DEF WorkerCopiesFresh
<1>7. ASSUME NEW t \in Threads, request'[t] # None, eventType[EventOf(request[t].id)] # TestType
      PROVE  /\ t = Worker
             /\ Pending(request[t].id)
             /\ delivery'[request[t].id] = delivery[request[t].id]
             /\ delivery[request[t].id].attempts + 1 = request[t].attempts
             /\ \A c \in batch'[t] : c.id # request[t].id
  BY <1>1, <1>2, <1>5, <1>7 DEF WorkerCopiesFresh, Published
<1>8. WorkerCopiesFresh'
  BY <1>1, <1>6, <1>7 DEF WorkerCopiesFresh, Published, Pending
<1>9. \A f \in Deliveries : EventOf(f) > lastEvent => delivery'[f].status = "absent"
  BY <1>2 DEF EventsDisjoint, TypeOK, Events, Deliveries, EventOf
<1>10. ASSUME NEW p \in Publishers, publish[p] # None, NEW e \in publish[p].todo
       PROVE  delivery'[<<publish[p].event, e>>].status = "absent"
  <2>1. publish[p] \in Fanouts
    BY <1>10 DEF TypeOK
  <2>2. <<publish[p].event, e>> \in Deliveries
    BY <1>10, <2>1 DEF Fanouts, Deliveries
  <2>3. delivery[<<publish[p].event, e>>].status = "absent" /\ Published(<<publish[p].event, e>>)
    BY <1>10 DEF EventsDisjoint, Published, EventOf
  <2>4. <<publish[p].event, e>> # d
    BY <2>3 DEF Pending
  <2>5. QED
    BY <1>2, <2>2, <2>3, <2>4
<1>11. EventsDisjoint'
  BY <1>1, <1>9, <1>10 DEF EventsDisjoint
<1>12. QED
  BY <1>4, <1>8, <1>11

LEMMA RejectQueue ==
  ASSUME QueueInv, NEW t \in Threads, NEW c \in batch[t], RejectLegacy(t, c)
  PROVE  AttemptsLeft' /\ WorkerCopiesFresh' /\ EventsDisjoint'
<1> USE DEF QueueInv
<1> DEFINE record == [status |-> "failed", attempts |-> c.attempts, wait |-> 0]
<1>1. c \in Copies
  BY DEF TypeOK
<1>2. record \in Records /\ c.id \in Deliveries
  BY <1>1, SizeAssumption DEF Copies, Records
<1>3. Put(c.id, record) /\ UNCHANGED <<eventType, lastEvent, publish, request>> /\ request[t] = None
  BY DEF RejectLegacy, IsNext, fanoutVars
<1>4. EventOf(c.id) <= lastEvent /\ (Published(c.id) => Pending(c.id) /\ t = Worker)
  BY DEF EventsDisjoint, WorkerCopiesFresh
<1>5. batch'[t] = batch[t] \ {c} /\ \A u \in Threads : batch'[u] \subseteq batch[u]
  BY DEF RejectLegacy, TakeCopy, TypeOK
<1>6. ASSUME Published(c.id), NEW u \in Threads, NEW o \in batch'[u], o.id = c.id
      PROVE  FALSE
  <2>1. o \in batch[u] /\ o \in Copies
    BY <1>5 DEF TypeOK
  <2>2. u = t /\ o.attempts = c.attempts
    BY <1>4, <1>6, <2>1 DEF WorkerCopiesFresh
  <2>3. o = c
    BY <1>1, <1>6, <2>1, <2>2 DEF Copies
  <2>4. QED
    BY <1>5, <2>2, <2>3
<1>7. ASSUME Published(c.id), NEW u \in Threads, request[u] # None
      PROVE  request[u].id # c.id
  BY <1>3, <1>4, <1>7 DEF WorkerCopiesFresh
<1>8. record.status \notin {"queued", "deferred"}
  OBVIOUS
<1> HIDE DEF record
<1>9. QED
  BY <1>2, <1>3, <1>4, <1>5, <1>6, <1>7, <1>8, PutQueue

LEMMA AnswerQueue ==
  ASSUME QueueInv, NEW t \in Threads, NEW ok \in BOOLEAN, Answer(t, ok)
  PROVE  AttemptsLeft' /\ WorkerCopiesFresh' /\ EventsDisjoint'
<1> USE DEF QueueInv
<1>1. PICK r \in Requests : r = request[t]
  BY DEF Answer, TypeOK
<1>2. request[t] # None
  BY DEF Answer
<1>3. r.id \in Deliveries /\ Outcome(r, ok) \in Records /\ Outcome(r, ok).attempts = r.attempts
  BY OutcomeType DEF Requests
<1>4. Outcome(r, ok).status \in {"queued", "deferred"} => Outcome(r, ok).attempts < MaxAttempts
  <2>1. r.attempts \in Int /\ MaxAttempts \in Int
    BY SizeAssumption DEF Requests
  <2>2. CASE ok
    BY <2>2 DEF Outcome
  <2>3. CASE ~ok /\ r.attempts >= MaxAttempts
    BY <2>3 DEF Outcome
  <2>4. CASE ~ok /\ ~(r.attempts >= MaxAttempts)
    BY <1>3, <2>1, <2>4
  <2>5. QED
    BY <2>2, <2>3, <2>4
<1>5. Put(r.id, Outcome(r, ok)) /\ UNCHANGED <<eventType, lastEvent, publish, batch>>
  BY <1>1 DEF Answer, fanoutVars
<1>6. EventOf(r.id) <= lastEvent /\ (Published(r.id) => Pending(r.id) /\ t = Worker)
  BY <1>1, <1>2 DEF EventsDisjoint, WorkerCopiesFresh
<1>7. request'[t] = None /\ \A u \in Threads : u # t => request'[u] = request[u]
  BY DEF Answer, TypeOK
<1>8. ASSUME Published(r.id), NEW u \in Threads
      PROVE  /\ \A c \in batch[u] : c.id # r.id
             /\ request'[u] # None => request'[u].id # r.id
  BY <1>1, <1>2, <1>6, <1>7, <1>8 DEF WorkerCopiesFresh
<1>9. QED
  BY <1>3, <1>4, <1>5, <1>6, <1>7, <1>8, PutQueue

\* Time changes neither statuses nor attempts nor what the threads hold.
LEMMA TickQueue ==
  ASSUME QueueInv, Tick
  PROVE  AttemptsLeft' /\ WorkerCopiesFresh' /\ EventsDisjoint'
<1> USE DEF QueueInv
<1>1. UNCHANGED <<batch, eventType, lastEvent, publish>>
  BY DEF Tick, fanoutVars
<1>2. \A d \in Deliveries : /\ delivery'[d].status = delivery[d].status
                            /\ delivery'[d].attempts = delivery[d].attempts
  BY DEF Tick, TypeOK, Records
<1>3. \A t \in Threads : /\ request'[t] # None => request[t] # None
                         /\ request[t] # None => /\ request'[t].id = request[t].id
                                                 /\ request'[t].attempts = request[t].attempts
  BY DEF Tick, TypeOK, Requests
<1>4. \A t \in Threads : /\ \A c \in batch[t] : c.id \in Deliveries
                         /\ request[t] # None => request[t].id \in Deliveries
  BY DEF TypeOK, Copies, Requests
<1>5. AttemptsLeft'
  BY <1>2, <1>3 DEF AttemptsLeft, Pending
<1>6. ASSUME NEW t \in Threads, NEW c \in batch[t], Published(c.id)
      PROVE  /\ t = Worker
             /\ delivery'[c.id].status \in {"queued", "deferred"}
             /\ delivery'[c.id].attempts = c.attempts
  BY <1>2, <1>4, <1>6 DEF WorkerCopiesFresh, Pending
<1>7. ASSUME NEW t \in Threads, request[t] # None, Published(request[t].id)
      PROVE  /\ t = Worker
             /\ delivery'[request[t].id].status \in {"queued", "deferred"}
             /\ delivery'[request[t].id].attempts + 1 = request[t].attempts
             /\ \A c \in batch[t] : c.id # request[t].id
  BY <1>2, <1>4, <1>7 DEF WorkerCopiesFresh, Pending
<1>8. WorkerCopiesFresh'
  BY <1>1, <1>3, <1>6, <1>7 DEF WorkerCopiesFresh, Pending, Published
<1>9. \A p \in Publishers : publish[p] # None =>
        \A e \in publish[p].todo : <<publish[p].event, e>> \in Deliveries
  BY DEF TypeOK, Fanouts, Deliveries
<1>10. EventsDisjoint'
  BY <1>1, <1>2, <1>3, <1>9 DEF EventsDisjoint
<1>11. QED
  BY <1>5, <1>8, <1>10

LEMMA NextQueue == QueueInv /\ [Next]_vars => QueueInv'
<1> SUFFICES ASSUME QueueInv, [Next]_vars PROVE QueueInv'
  OBVIOUS
<1> DEFINE Kept == AttemptsLeft' /\ WorkerCopiesFresh' /\ EventsDisjoint'
<1>1. TypeOK'
  BY NextType DEF QueueInv
<1>2. ASSUME NEW s \in Editors, Edit(s)
      PROVE  Kept
  <2>1. UNCHANGED queueVars
    BY <1>2 DEF Edit, CreateEndpoint, UpdateEndpoint, DeleteEndpoint, StartEdit, WriteEdit,
                queueVars, fanoutVars, workVars
  <2>2. QED
    BY <2>1, QueueFrame
<1>3. ASSUME NEW p \in Publishers, Fanout(p)
      PROVE  Kept
  <2>1. CASE EndPublish(p) \/ FailPublish(p)
    <3>1. /\ UNCHANGED <<delivery, eventType, lastEvent, batch, request>>
          /\ \A q \in Publishers : publish'[q] \in {publish[q], None}
      BY <2>1 DEF EndPublish, FailPublish, workVars, QueueInv, TypeOK
    <3>2. QED
      BY <3>1, DropQueue
  <2>2. QED
    BY <1>3, <2>1, PublishQueue, StoreQueue DEF Fanout
<1>4. ASSUME NEW t \in Threads, Deliver(t)
      PROVE  Kept
  <2>1. ASSUME NEW c \in batch[t], SkipMissing(t, c)
        PROVE  Kept
    <3>1. /\ UNCHANGED <<delivery, eventType, lastEvent, publish, request>>
          /\ \A u \in Threads : batch'[u] \subseteq batch[u]
      BY <2>1 DEF SkipMissing, TakeCopy, fanoutVars, QueueInv, TypeOK
    <3>2. QED
      BY <3>1, DropQueue
  <2>2. QED
    BY <1>4, <2>1, AttemptQueue, RejectQueue, AnswerQueue DEF Deliver
<1>5. ASSUME Restart
      PROVE  Kept
  <2>1. /\ UNCHANGED <<delivery, eventType, lastEvent>>
        /\ \A p \in Publishers : publish'[p] = None
        /\ \A t \in Threads : batch'[t] = {} /\ request'[t] = None
    BY <1>5 DEF Restart
  <2>2. QED
    BY <2>1, DropQueue
<1>6. CASE Shutdown \/ UNCHANGED vars
  <2>1. UNCHANGED queueVars
    BY <1>6 DEF Shutdown, vars, queueVars, fanoutVars, workVars
  <2>2. QED
    BY <1>1, <2>1, QueueFrame DEF QueueInv
<1>7. Kept
  BY <1>2, <1>3, <1>4, <1>5, <1>6, TestQueue, ScanQueue, TickQueue
     DEF Next, Stopped, Crash, QueueInv
<1>8. QED
  BY <1>1, <1>7 DEF QueueInv

\* The inductive invariant holds in every reachable state.
THEOREM QueueInvariant == Spec => []QueueInv
<1>1. Init => QueueInv
  BY InitQueue
<1>2. QueueInv /\ [Next]_vars => QueueInv'
  BY NextQueue
<1>3. QED
  BY <1>1, <1>2, PTL DEF Spec

\* Every variable keeps to its type, whatever the threads interleave and however
\* often the process stops.
THEOREM TypeCorrect == Spec => []TypeOK
<1>1. QueueInv => TypeOK
  BY DEF QueueInv
<1>2. QED
  BY <1>1, QueueInvariant, PTL

\* No waiting delivery, copy or request can lead to an attempt past the maximum.
THEOREM AttemptsBounded == Spec => []AttemptsLeft
<1>1. QueueInv => AttemptsLeft
  BY DEF QueueInv
<1>2. QED
  BY <1>1, QueueInvariant, PTL

\* The worker's copies of published deliveries are never stale.
THEOREM CopiesFresh == Spec => []WorkerCopiesFresh
<1>1. QueueInv => WorkerCopiesFresh
  BY DEF QueueInv
<1>2. QED
  BY <1>1, QueueInvariant, PTL

-----------------------------------------------------------------------------
(* Settled deliveries and the refinement of the abstract queue.            *)

\* How a step may change what is stored of the published deliveries: not at all,
\* by storing one that was absent, or by writing over one that was waiting.
Untouched(d) == /\ Published(d)' <=> Published(d)
                /\ delivery'[d].status = delivery[d].status
                /\ delivery'[d].attempts = delivery[d].attempts

\* The abstract state only depends on the status and the attempts.
LEMMA UntouchedStage ==
  ASSUME NEW d \in Deliveries, Untouched(d)
  PROVE  Stages'[d] = Stages[d] /\ Recorded'[d] = Recorded[d]
<1>1. StageOf(d)' = StageOf(d)
  BY DEF Untouched, StageOf, Pending
<1>2. QED
  BY <1>1 DEF Untouched, Stages, Recorded

LEMMA AllUntouched ==
  ASSUME \A d \in Deliveries : Untouched(d)
  PROVE  UNCHANGED <<Stages, Recorded>>
<1>1. \A d \in Deliveries : Stages'[d] = Stages[d] /\ Recorded'[d] = Recorded[d]
  BY UntouchedStage
<1>2. QED
  BY <1>1 DEF Stages, Recorded

\* A new event, published or test, has no delivery yet.
LEMMA BeginUntouched ==
  ASSUME QueueInv, NEW v \in Events, v = lastEvent + 1, NEW type,
         eventType' = [eventType EXCEPT ![v] = type],
         NEW d \in Deliveries
  PROVE  (EventOf(d) # v /\ (Published(d)' <=> Published(d))) \/ (EventOf(d) = v /\ delivery[d].status = "absent")
<1> USE DEF QueueInv
<1>1. CASE EventOf(d) = v
  <2>1. EventOf(d) > lastEvent
    BY <1>1 DEF TypeOK, Events
  <2>2. QED
    BY <1>1, <2>1 DEF EventsDisjoint
<1>2. CASE EventOf(d) # v
  <2>1. EventOf(d) \in Events
    BY DEF Deliveries, EventOf
  <2>2. eventType'[EventOf(d)] = eventType[EventOf(d)]
    BY <1>2, <2>1 DEF TypeOK
  <2>3. QED
    BY <1>2, <2>2 DEF Published
<1>3. QED
  BY <1>1, <1>2

LEMMA AbsentStage ==
  ASSUME NEW d \in Deliveries, delivery[d].status = "absent"
  PROVE  Stages[d] = "absent" /\ Recorded[d] = 0
BY DEF Stages, Recorded, StageOf, Pending

\* Writing one delivery, in the abstract state.
LEMMA StageExcept ==
  ASSUME NEW d \in Deliveries, \A f \in Deliveries : f # d => Untouched(f)
  PROVE  /\ Stages' = [Stages EXCEPT ![d] = Stages'[d]]
         /\ Recorded' = [Recorded EXCEPT ![d] = Recorded'[d]]
<1>1. \A f \in Deliveries : f # d => Stages'[f] = Stages[f] /\ Recorded'[f] = Recorded[f]
  BY UntouchedStage
<1>2. QED
  BY <1>1 DEF Stages, Recorded

\* Storing the outcome of a published delivery's copy is an abstract step.
LEMMA PutRefines ==
  ASSUME QueueInv, NEW d \in Deliveries, NEW record \in Records,
         delivery' = [delivery EXCEPT ![d] = record], eventType' = eventType,
         Published(d) => Pending(d),
         \/ /\ record.attempts = delivery[d].attempts + 1
            /\ \/ record.status = "delivered"
               \/ record.status = "deferred" /\ record.attempts < MaxAttempts
               \/ record.status = "failed" /\ record.attempts = MaxAttempts
         \/ record.status = "failed" /\ record.attempts = delivery[d].attempts
         \/ ~Published(d)
  PROVE  [Lifecycle!LifeNext]_(Lifecycle!lifeVars)
<1> USE DEF QueueInv
<1>1. \A f \in Deliveries : f # d => Untouched(f)
  BY DEF Untouched, Published, TypeOK
<1>2. delivery'[d] = record
  BY DEF TypeOK
<1>3. CASE ~Published(d)
  <2>1. Stages'[d] = Stages[d] /\ Recorded'[d] = Recorded[d]
    BY <1>3 DEF Stages, Recorded, StageOf, Published
  <2>2. UNCHANGED <<Stages, Recorded>>
    BY <1>1, <2>1, UntouchedStage DEF Stages, Recorded
  <2>3. QED
    BY <2>2 DEF Lifecycle!lifeVars
<1>4. CASE Published(d)
  <2>1. Pending(d) /\ Published(d)'
    BY <1>4 DEF Published
  <2>2. Stages[d] = "waiting" /\ Recorded[d] = delivery[d].attempts
    BY <1>4, <2>1 DEF Stages, Recorded, StageOf
  <2>3. record.status \in {"delivered", "failed"} => Stages'[d] = record.status /\ Recorded'[d] = record.attempts
    BY <1>2, <2>1 DEF Stages, Recorded, StageOf, Pending
  <2>4. record.status = "deferred" => Stages'[d] = "waiting" /\ Recorded'[d] = record.attempts
    BY <1>2, <2>1 DEF Stages, Recorded, StageOf, Pending
  <2>5. /\ Stages' = [Stages EXCEPT ![d] = Stages'[d]]
        /\ Recorded' = [Recorded EXCEPT ![d] = Recorded'[d]]
    BY <1>1, StageExcept
  <2>6. Stages = [Stages EXCEPT ![d] = Stages[d]] /\ Recorded = [Recorded EXCEPT ![d] = Recorded[d]]
    BY DEF Stages, Recorded
  <2>7. CASE record.status = "delivered" /\ record.attempts = delivery[d].attempts + 1
    BY <2>2, <2>3, <2>5, <2>7 DEF Lifecycle!LifeNext, Lifecycle!Succeed, Lifecycle!Record
  <2>8. CASE record.status = "deferred" /\ record.attempts = delivery[d].attempts + 1 /\ record.attempts < MaxAttempts
    <3>1. Lifecycle!Defer(d)
      BY <2>2, <2>4, <2>5, <2>6, <2>8 DEF Lifecycle!Defer, Lifecycle!Record
    <3>2. QED
      BY <3>1 DEF Lifecycle!LifeNext
  <2>9. CASE record.status = "failed" /\ record.attempts = delivery[d].attempts + 1 /\ record.attempts = MaxAttempts
    BY <2>2, <2>3, <2>5, <2>9 DEF Lifecycle!LifeNext, Lifecycle!GiveUp, Lifecycle!Record
  <2>10. CASE record.status = "failed" /\ record.attempts = delivery[d].attempts
    BY <2>2, <2>3, <2>5, <2>6, <2>10 DEF Lifecycle!LifeNext, Lifecycle!Refuse
  <2>11. QED
    BY <1>4, <2>7, <2>8, <2>9, <2>10
<1>5. QED
  BY <1>3, <1>4

LEMMA StutterRefines ==
  ASSUME \A d \in Deliveries : Untouched(d)
  PROVE  [Lifecycle!LifeNext]_(Lifecycle!lifeVars)
BY AllUntouched DEF Lifecycle!lifeVars

LEMMA FrameRefines ==
  ASSUME UNCHANGED <<delivery, eventType>>
  PROVE  [Lifecycle!LifeNext]_(Lifecycle!lifeVars)
<1>1. \A d \in Deliveries : Untouched(d)
  BY DEF Untouched, Published
<1>2. QED
  BY <1>1, StutterRefines

\* A new event has no abstract delivery, before or after its type is known.
LEMMA PublishRefines ==
  ASSUME QueueInv, NEW p \in Publishers, NEW type \in Types, BeginPublish(p, type)
  PROVE  [Lifecycle!LifeNext]_(Lifecycle!lifeVars)
<1> USE DEF QueueInv
<1>1. PICK v \in Events : v = lastEvent + 1 /\ eventType' = [eventType EXCEPT ![v] = type]
  <2>1. lastEvent + 1 \in Events
    BY SizeAssumption DEF BeginPublish, TypeOK, Events
  <2>2. eventType' = [eventType EXCEPT ![lastEvent + 1] = type]
    BY DEF BeginPublish
  <2>3. QED
    BY <2>1, <2>2
<1>2. UNCHANGED delivery
  BY DEF BeginPublish, workVars
<1>3. ASSUME NEW d \in Deliveries
      PROVE  Stages'[d] = Stages[d] /\ Recorded'[d] = Recorded[d]
  <2>1. CASE EventOf(d) # v /\ (Published(d)' <=> Published(d))
    BY <1>2, <2>1, UntouchedStage DEF Untouched
  <2>2. CASE delivery[d].status = "absent"
    BY <1>2, <2>2 DEF Stages, Recorded, StageOf, Pending
  <2>3. QED
    BY <1>1, <2>1, <2>2, BeginUntouched
<1>4. UNCHANGED <<Stages, Recorded>>
  BY <1>3 DEF Stages, Recorded
<1>5. QED
  BY <1>4 DEF Lifecycle!lifeVars

\* A test is no delivery of the abstract queue.
LEMMA TestRefines ==
  ASSUME QueueInv, NEW t \in Testers, NEW a \in Actors, NEW e \in EndpointIds, BeginTest(t, a, e)
  PROVE  [Lifecycle!LifeNext]_(Lifecycle!lifeVars)
<1> USE DEF QueueInv
<1>1. PICK v \in Events : v = lastEvent + 1 /\ eventType' = [eventType EXCEPT ![v] = TestType]
                          /\ delivery' = [delivery EXCEPT ![<<v, e>>] = NewDelivery]
  <2>1. lastEvent + 1 \in Events
    BY SizeAssumption DEF BeginTest, TypeOK, Events
  <2>2. /\ eventType' = [eventType EXCEPT ![lastEvent + 1] = TestType]
        /\ delivery' = [delivery EXCEPT ![<<lastEvent + 1, e>>] = NewDelivery]
    BY DEF BeginTest
  <2>3. QED
    BY <2>1, <2>2
<1>2. eventType'[v] = TestType
  BY <1>1 DEF TypeOK
<1>3. ASSUME NEW d \in Deliveries
      PROVE  Stages'[d] = Stages[d] /\ Recorded'[d] = Recorded[d]
  <2>1. CASE EventOf(d) # v /\ (Published(d)' <=> Published(d))
    <3>1. d # <<v, e>>
      BY <2>1 DEF EventOf
    <3>2. delivery'[d] = delivery[d]
      BY <1>1, <3>1 DEF TypeOK
    <3>3. QED
      BY <2>1, <3>2, UntouchedStage DEF Untouched
  <2>2. CASE EventOf(d) = v /\ delivery[d].status = "absent"
    BY <1>2, <2>2, AbsentStage DEF Stages, Recorded, StageOf, Published
  <2>3. QED
    BY <1>1, <2>1, <2>2, BeginUntouched
<1>4. UNCHANGED <<Stages, Recorded>>
  BY <1>3 DEF Stages, Recorded
<1>5. QED
  BY <1>4 DEF Lifecycle!lifeVars

\* Publish stores a delivery that was absent.
LEMMA StoreRefines ==
  ASSUME QueueInv, NEW p \in Publishers, StoreDelivery(p)
  PROVE  [Lifecycle!LifeNext]_(Lifecycle!lifeVars)
<1> USE DEF QueueInv
<1>1. PICK e \in publish[p].todo :
        delivery' = [delivery EXCEPT ![<<publish[p].event, e>>] = NewDelivery]
  BY DEF StoreDelivery
<1>2. publish[p] \in Fanouts
  BY DEF StoreDelivery, TypeOK
<1>3. PICK d \in Deliveries : d = <<publish[p].event, e>>
  BY <1>2 DEF Fanouts, Deliveries
<1>4. delivery[d].status = "absent" /\ Published(d)
  BY <1>3 DEF StoreDelivery, EventsDisjoint, Published, EventOf
<1>5. eventType' = eventType /\ delivery' = [delivery EXCEPT ![d] = NewDelivery]
  BY <1>1, <1>3 DEF StoreDelivery
<1>6. \A f \in Deliveries : f # d => Untouched(f)
  BY <1>5 DEF Untouched, Published, TypeOK
<1>7. Stages[d] = "absent" /\ Recorded[d] = 0
  BY <1>4, AbsentStage
<1>8. delivery'[d] = NewDelivery /\ Published(d)'
  BY <1>4, <1>5 DEF TypeOK, Published
<1>9. Stages'[d] = "waiting" /\ Recorded'[d] = 0
  BY <1>8 DEF Stages, Recorded, StageOf, Pending, NewDelivery
<1>10. /\ Stages' = [Stages EXCEPT ![d] = "waiting"]
       /\ Recorded' = [Recorded EXCEPT ![d] = Recorded[d]]
  BY <1>6, <1>7, <1>9, StageExcept
<1>11. Recorded' = Recorded
  BY <1>10 DEF Recorded
<1>12. Lifecycle!Enqueue(d)
  BY <1>7, <1>10, <1>11 DEF Lifecycle!Enqueue
<1>13. QED
  BY <1>12 DEF Lifecycle!LifeNext

LEMMA RejectRefines ==
  ASSUME QueueInv, NEW t \in Threads, NEW c \in batch[t], RejectLegacy(t, c)
  PROVE  [Lifecycle!LifeNext]_(Lifecycle!lifeVars)
<1> USE DEF QueueInv
<1> DEFINE record == [status |-> "failed", attempts |-> c.attempts, wait |-> 0]
<1>1. c \in Copies
  BY DEF TypeOK
<1>2. record \in Records /\ c.id \in Deliveries
  BY <1>1, SizeAssumption DEF Copies, Records
<1>3. Put(c.id, record) /\ eventType' = eventType
  BY DEF RejectLegacy, fanoutVars
<1>4. Published(c.id) => Pending(c.id) /\ delivery[c.id].attempts = c.attempts
  BY DEF WorkerCopiesFresh
<1>5. record.status = "failed" /\ record.attempts = c.attempts
  OBVIOUS
<1> HIDE DEF record
<1>6. CASE delivery' = [delivery EXCEPT ![c.id] = record]
  BY <1>2, <1>3, <1>4, <1>5, <1>6, PutRefines
<1>7. CASE UNCHANGED delivery
  BY <1>3, <1>7, FrameRefines
<1>8. QED
  BY <1>3, <1>6, <1>7 DEF Put

LEMMA AnswerRefines ==
  ASSUME QueueInv, NEW t \in Threads, NEW ok \in BOOLEAN, Answer(t, ok)
  PROVE  [Lifecycle!LifeNext]_(Lifecycle!lifeVars)
<1> USE DEF QueueInv
<1>1. PICK r \in Requests : r = request[t]
  BY DEF Answer, TypeOK
<1>2. request[t] # None
  BY DEF Answer
<1>3. r.id \in Deliveries /\ Outcome(r, ok) \in Records /\ Outcome(r, ok).attempts = r.attempts
  BY OutcomeType DEF Requests
<1>4. Published(r.id) => Pending(r.id) /\ r.attempts = delivery[r.id].attempts + 1
  BY <1>1, <1>2 DEF WorkerCopiesFresh
<1>5. \/ Outcome(r, ok).status = "delivered"
      \/ Outcome(r, ok).status = "deferred" /\ r.attempts < MaxAttempts
      \/ Outcome(r, ok).status = "failed" /\ r.attempts = MaxAttempts
  <2>1. r.attempts \in 1 .. MaxAttempts /\ MaxAttempts \in Nat
    BY SizeAssumption DEF Requests
  <2>2. CASE ok
    BY <2>2 DEF Outcome
  <2>3. CASE ~ok /\ r.attempts >= MaxAttempts
    BY <2>1, <2>3 DEF Outcome
  <2>4. CASE ~ok /\ ~(r.attempts >= MaxAttempts)
    BY <2>1, <2>4 DEF Outcome
  <2>5. QED
    BY <2>2, <2>3, <2>4
<1>6. Put(r.id, Outcome(r, ok)) /\ eventType' = eventType
  BY <1>1 DEF Answer, fanoutVars
<1>7. CASE delivery' = [delivery EXCEPT ![r.id] = Outcome(r, ok)]
  BY <1>3, <1>4, <1>5, <1>6, <1>7, PutRefines
<1>8. CASE UNCHANGED delivery
  BY <1>6, <1>8, FrameRefines
<1>9. QED
  BY <1>6, <1>7, <1>8 DEF Put

LEMMA TickRefines ==
  ASSUME QueueInv, Tick
  PROVE  [Lifecycle!LifeNext]_(Lifecycle!lifeVars)
<1>1. eventType' = eventType
  BY DEF Tick, fanoutVars
<1>2. \A d \in Deliveries : /\ delivery'[d].status = delivery[d].status
                            /\ delivery'[d].attempts = delivery[d].attempts
  BY DEF Tick, QueueInv, TypeOK, Records
<1>3. \A d \in Deliveries : Untouched(d)
  BY <1>1, <1>2 DEF Untouched, Published
<1>4. QED
  BY <1>3, StutterRefines

LEMMA InitRefines == Init => Lifecycle!LifeInit
<1> SUFFICES ASSUME Init PROVE Lifecycle!LifeInit
  OBVIOUS
<1>1. \A d \in Deliveries : delivery[d] \in {NewDelivery, NoDelivery}
  BY DEF Init
<1>2. \A d \in Deliveries : Stages[d] \in {"absent", "waiting"} /\ Recorded[d] = 0
  BY <1>1 DEF Stages, Recorded, StageOf, Pending, NewDelivery, NoDelivery
<1>3. Stages \in [Deliveries -> {"absent", "waiting"}] /\ Recorded = [d \in Deliveries |-> 0]
  BY <1>2 DEF Stages, Recorded
<1>4. QED
  BY <1>3 DEF Lifecycle!LifeInit

\* Every step is a step of the abstract queue or leaves it unchanged.
LEMMA NextRefines ==
  ASSUME QueueInv, [Next]_vars
  PROVE  [Lifecycle!LifeNext]_(Lifecycle!lifeVars)
<1> DEFINE Refines == [Lifecycle!LifeNext]_(Lifecycle!lifeVars)
<1>1. ASSUME NEW s \in Editors, Edit(s)
      PROVE  UNCHANGED <<delivery, eventType>>
  BY <1>1 DEF Edit, CreateEndpoint, UpdateEndpoint, DeleteEndpoint, StartEdit, WriteEdit,
              fanoutVars, workVars
<1>2. ASSUME NEW p \in Publishers, Fanout(p)
      PROVE  Refines
  <2>1. CASE EndPublish(p) \/ FailPublish(p)
    BY <2>1, FrameRefines DEF EndPublish, FailPublish, workVars
  <2>2. QED
    BY <1>2, <2>1, PublishRefines, StoreRefines DEF Fanout
<1>3. ASSUME NEW t \in Threads, Deliver(t)
      PROVE  Refines
  <2>1. ASSUME NEW c \in batch[t], NEW live \in BOOLEAN, Attempt(t, c, live) \/ SkipMissing(t, c)
        PROVE  UNCHANGED <<delivery, eventType>>
    BY <2>1 DEF Attempt, SkipMissing, fanoutVars
  <2>2. QED
    BY <1>3, <2>1, FrameRefines, RejectRefines, AnswerRefines DEF Deliver
<1>4. ASSUME Scan \/ Shutdown \/ Stopped \/ Crash \/ UNCHANGED vars
      PROVE  UNCHANGED <<delivery, eventType>>
  BY <1>4 DEF Scan, Shutdown, Stopped, Crash, Restart, vars, fanoutVars, workVars
<1>5. QED
  BY <1>1, <1>2, <1>3, <1>4, FrameRefines, TestRefines, TickRefines DEF Next

\* The queue implements its abstract specification: a published delivery is
\* attempted at most MaxAttempts times on record and settled exactly once.
THEOREM Implements == Spec => ImplementsLifecycle
<1>1. Init => Lifecycle!LifeInit
  BY InitRefines
<1>2. QueueInv /\ [Next]_vars => [Lifecycle!LifeNext]_(Lifecycle!lifeVars)
  BY NextRefines
<1>3. QED
  BY <1>1, <1>2, QueueInvariant, PTL DEF Spec, ImplementsLifecycle, Lifecycle!LifeSpec

\* Only a waiting delivery has a next attempt to wait for, so time leaves the
\* others alone.
OnlyPendingWaits == \A d \in Deliveries : ~Pending(d) => delivery[d].wait = 0

LEMMA PutWaits ==
  ASSUME TypeOK, OnlyPendingWaits, NEW d \in Deliveries, NEW record \in Records, Put(d, record),
         record.status \notin {"queued", "deferred"} => record.wait = 0
  PROVE  OnlyPendingWaits'
<1>1. delivery' = [delivery EXCEPT ![d] = record] \/ delivery' = delivery
  BY DEF Put
<1>2. \A f \in Deliveries : delivery'[f] \in {delivery[f], record}
  BY <1>1 DEF TypeOK
<1>3. QED
  BY <1>2 DEF OnlyPendingWaits, Pending

LEMMA NextWaits == TypeOK /\ OnlyPendingWaits /\ [Next]_vars => OnlyPendingWaits'
<1> SUFFICES ASSUME TypeOK, OnlyPendingWaits, [Next]_vars PROVE OnlyPendingWaits'
  OBVIOUS
<1>1. ASSUME UNCHANGED delivery
      PROVE  OnlyPendingWaits'
  BY <1>1 DEF OnlyPendingWaits, Pending
<1>2. ASSUME NEW s \in Editors, Edit(s)
      PROVE  UNCHANGED delivery
  BY <1>2 DEF Edit, CreateEndpoint, UpdateEndpoint, DeleteEndpoint, StartEdit, WriteEdit, workVars
<1>3. NewDelivery.wait = 0
  BY DEF NewDelivery
<1>4. ASSUME NEW id, delivery' = [delivery EXCEPT ![id] = NewDelivery]
      PROVE  OnlyPendingWaits'
  <2>1. \A d \in Deliveries : delivery'[d] = delivery[d] \/ delivery'[d] = NewDelivery
    BY <1>4 DEF TypeOK
  <2>2. QED
    BY <1>3, <2>1 DEF OnlyPendingWaits, Pending
<1>5. ASSUME NEW p \in Publishers, Fanout(p)
      PROVE  OnlyPendingWaits'
  <2>1. CASE StoreDelivery(p)
    BY <1>4, <2>1 DEF StoreDelivery
  <2>2. QED
    BY <1>1, <1>5, <2>1 DEF Fanout, BeginPublish, EndPublish, FailPublish, workVars
<1>6. ASSUME NEW t \in Testers, NEW a \in Actors, NEW e \in EndpointIds, BeginTest(t, a, e)
      PROVE  OnlyPendingWaits'
  BY <1>4, <1>6 DEF BeginTest
<1>7. ASSUME NEW t \in Threads, NEW c \in batch[t], RejectLegacy(t, c)
      PROVE  OnlyPendingWaits'
  <2>1. PICK r \in Records : /\ r = [status |-> "failed", attempts |-> c.attempts, wait |-> 0]
                             /\ Put(c.id, r)
    <3>1. c \in Copies
      BY DEF TypeOK
    <3>2. [status |-> "failed", attempts |-> c.attempts, wait |-> 0] \in Records
      BY <3>1, SizeAssumption DEF Copies, Records
    <3>3. QED
      BY <1>7, <3>2 DEF RejectLegacy
  <2>2. c.id \in Deliveries
    BY DEF TypeOK, Copies
  <2>3. QED
    BY <2>1, <2>2, PutWaits
<1>8. ASSUME NEW t \in Threads, NEW ok \in BOOLEAN, Answer(t, ok)
      PROVE  OnlyPendingWaits'
  <2>1. PICK r \in Requests : r = request[t] /\ Put(r.id, Outcome(r, ok))
    BY <1>8 DEF Answer, TypeOK
  <2>2. r.id \in Deliveries /\ Outcome(r, ok) \in Records
    BY OutcomeType DEF Requests
  <2>3. Outcome(r, ok).status \notin {"queued", "deferred"} => Outcome(r, ok).wait = 0
    <3>1. CASE ok
      BY <3>1 DEF Outcome
    <3>2. CASE ~ok /\ r.attempts >= MaxAttempts
      BY <3>2 DEF Outcome
    <3>3. CASE ~ok /\ ~(r.attempts >= MaxAttempts)
      BY <3>3 DEF Outcome
    <3>4. QED
      BY <3>1, <3>2, <3>3
  <2>4. QED
    BY <2>1, <2>2, <2>3, PutWaits
<1>9. ASSUME NEW t \in Threads, Deliver(t)
      PROVE  OnlyPendingWaits'
  BY <1>1, <1>7, <1>8, <1>9 DEF Deliver, Attempt, SkipMissing
<1>10. ASSUME Tick
       PROVE  OnlyPendingWaits'
  <2>1. \A d \in Deliveries : /\ delivery'[d].status = delivery[d].status
                              /\ delivery[d].wait = 0 => delivery'[d].wait = 0
    BY <1>10 DEF Tick, Tock, TypeOK, Records
  <2>2. QED
    BY <2>1 DEF OnlyPendingWaits, Pending
<1>11. ASSUME Scan \/ Shutdown \/ Stopped \/ Crash \/ UNCHANGED vars
       PROVE  UNCHANGED delivery
  BY <1>11 DEF Scan, Shutdown, Stopped, Crash, Restart, vars, workVars
<1>12. QED
  BY <1>1, <1>2, <1>5, <1>6, <1>9, <1>10, <1>11 DEF Next

THEOREM WaitsInvariant == Spec => []OnlyPendingWaits
<1>1. Init => OnlyPendingWaits
  BY DEF Init, OnlyPendingWaits, NewDelivery, NoDelivery
<1>2. TypeOK /\ OnlyPendingWaits /\ [Next]_vars => OnlyPendingWaits'
  BY NextWaits
<1>3. QED
  BY <1>1, <1>2, TypeCorrect, PTL DEF Spec

\* A settled delivery is waiting for nobody: no copy and no request of it exist,
\* and none can be taken.
LEMMA SettledStep ==
  ASSUME QueueInv, OnlyPendingWaits, [Next]_vars, NEW d \in Deliveries,
         Published(d), delivery[d].status \in {"delivered", "failed"}
  PROVE  delivery'[d] = delivery[d] /\ tries'[d] = tries[d]
<1> USE DEF QueueInv
<1> DEFINE Same == delivery'[d] = delivery[d] /\ tries'[d] = tries[d]
<1>1. ~Pending(d) /\ delivery[d].status # "absent"
  BY DEF Pending
<1>2. ASSUME UNCHANGED <<delivery, tries>>
      PROVE  Same
  BY <1>2
<1>3. ASSUME NEW s \in Editors, Edit(s)
      PROVE  UNCHANGED <<delivery, tries>>
  BY <1>3 DEF Edit, CreateEndpoint, UpdateEndpoint, DeleteEndpoint, StartEdit, WriteEdit, workVars
<1>4. ASSUME NEW p \in Publishers, StoreDelivery(p)
      PROVE  Same
  <2>1. PICK e \in publish[p].todo :
          delivery' = [delivery EXCEPT ![<<publish[p].event, e>>] = NewDelivery]
    BY <1>4 DEF StoreDelivery
  <2>2. <<publish[p].event, e>> # d
    BY <1>1, <1>4, <2>1 DEF StoreDelivery, EventsDisjoint
  <2>3. delivery'[d] = delivery[d]
    BY <2>1, <2>2 DEF TypeOK
  <2>4. UNCHANGED tries
    BY <1>4 DEF StoreDelivery
  <2>5. QED
    BY <2>3, <2>4
<1>5. ASSUME NEW p \in Publishers, Fanout(p)
      PROVE  Same
  BY <1>2, <1>4, <1>5 DEF Fanout, BeginPublish, EndPublish, FailPublish, workVars
<1>6. ASSUME NEW t \in Testers, NEW a \in Actors, NEW e \in EndpointIds, BeginTest(t, a, e)
      PROVE  Same
  <2>1. delivery' = [delivery EXCEPT ![<<lastEvent + 1, e>>] = NewDelivery] /\ UNCHANGED tries
    BY <1>6 DEF BeginTest
  <2>2. ~(EventOf(d) > lastEvent)
    BY <1>1 DEF EventsDisjoint
  <2>3. d # <<lastEvent + 1, e>>
    BY <2>2 DEF EventOf, TypeOK, Events
  <2>4. QED
    BY <2>1, <2>3 DEF TypeOK
<1>7. ASSUME NEW f \in Deliveries, f # d, NEW record, Put(f, record)
      PROVE  delivery'[d] = delivery[d]
  BY <1>7 DEF Put, TypeOK
<1>8. ASSUME NEW t \in Threads, NEW c \in batch[t]
      PROVE  c.id # d /\ c.id \in Deliveries
  BY <1>1, <1>8 DEF WorkerCopiesFresh, TypeOK, Copies
<1>9. ASSUME NEW t \in Threads, request[t] # None
      PROVE  request[t].id # d /\ request[t].id \in Deliveries
  BY <1>1, <1>9 DEF WorkerCopiesFresh, TypeOK, Requests
<1>10. ASSUME NEW t \in Threads, NEW c \in batch[t], NEW live \in BOOLEAN, Attempt(t, c, live)
       PROVE  Same
  <2>1. tries'[d] = tries[d]
    BY <1>8, <1>10 DEF Attempt, TypeOK
  <2>2. QED
    BY <1>10, <2>1 DEF Attempt
<1>11. ASSUME NEW t \in Threads, NEW c \in batch[t], RejectLegacy(t, c)
       PROVE  Same
  <2>1. delivery'[d] = delivery[d]
    BY <1>7, <1>8, <1>11 DEF RejectLegacy
  <2>2. QED
    BY <1>11, <2>1 DEF RejectLegacy
<1>12. ASSUME NEW t \in Threads, NEW ok \in BOOLEAN, Answer(t, ok)
       PROVE  Same
  <2>1. delivery'[d] = delivery[d]
    BY <1>7, <1>9, <1>12 DEF Answer
  <2>2. QED
    BY <1>12, <2>1 DEF Answer
<1>13. ASSUME NEW t \in Threads, Deliver(t)
       PROVE  Same
  BY <1>2, <1>10, <1>11, <1>12, <1>13 DEF Deliver, SkipMissing
<1>14. ASSUME Tick
       PROVE  Same
  <2>1. delivery[d].wait = 0
    BY <1>1 DEF OnlyPendingWaits
  <2>2. QED
    BY <1>14, <2>1 DEF Tick, Tock, TypeOK, Records
<1>15. ASSUME Scan \/ Shutdown \/ Stopped \/ Crash \/ UNCHANGED vars
       PROVE  UNCHANGED <<delivery, tries>>
  BY <1>15 DEF Scan, Shutdown, Stopped, Crash, Restart, vars, workVars
<1>16. QED
  BY <1>2, <1>3, <1>5, <1>6, <1>13, <1>14, <1>15 DEF Next

\* What has been delivered or given up is never attempted or changed again, for
\* any number of threads, events, crashes and restarts.
THEOREM Settled == Spec => SettledForGood
<1>1. QueueInv /\ OnlyPendingWaits /\ [Next]_vars =>
        [\A d \in Deliveries :
           Published(d) /\ delivery[d].status \in {"delivered", "failed"}
           => delivery'[d] = delivery[d] /\ tries'[d] = tries[d]]_vars
  BY SettledStep
<1>2. QED
  BY <1>1, QueueInvariant, WaitsInvariant, PTL DEF Spec, SettledForGood

-----------------------------------------------------------------------------
(* Beyond the queue: the inductive invariants.                             *)

\* An edit stays what it was decided to be: never of an endpoint to come, and
\* while no other write came between, of an endpoint that still is what the
\* decision saw.
EditSound(s) ==
  LET e == edit[s].id
  IN  /\ e <= lastEndpoint
      /\ edit[s].item.scope \in {"account", "platform", "deleted"}
      /\ edit[s].fresh => /\ endpoint[e].scope # "deleted"
                          /\ edit[s].item.scope = "account" => endpoint[e].scope \in {"account", "absent"}

EditsSound ==
  /\ \A e \in EndpointIds : /\ e > lastEndpoint => endpoint[e].scope = "absent"
                            /\ endpoint[e].scope = "legacy" => e \in Legacy
  /\ \A s \in Editors : edit[s] # None => EditSound(s)

\* Whom an event is for may see it, but for a stale edit.
WantedVisible ==
  \A v \in Events : \A e \in wanted[v] :
    /\ endpoint[e].scope # "absent"
    /\ eventType[v] \in PlatformOnly => endpoint[e].scope # "account" \/ e \in raced

Present(d) == delivery[d].status # "absent"

\* A running Publish has stored what it has not still to do.
FanOutSound(p) ==
  LET v == publish[p].event
  IN  /\ publish[p].todo \subseteq wanted[v]
      /\ \A e \in wanted[v] \ publish[p].todo : Present(<<v, e>>)

FanOutsSound ==
  /\ \A v \in finished : v <= lastEvent
  /\ \A p \in Publishers : publish[p] # None => FanOutSound(p)

FanOutInv == QueueInv /\ EditsSound /\ WantedVisible /\ FanOutsSound /\ FanOutExact

\* An attempt may still be recorded for which nothing is sent any more: one that
\* is in flight is counted already, and while the process is stopping the
\* worker counts attempts of what is due or in its batch without sending them.
Uncounted(d) ==
  \/ InFlight(d)
  \/ stopping /\ Pending(d) /\ (delivery[d].wait = 0 \/ \E c \in batch[Worker] : c.id = d)

\* The requests sent and the attempts on record, between the two bounds.
Accounted(d) ==
  /\ ~Present(d) => delivery[d].attempts = 0
  /\ EventOf(d) > lastEvent => tries[d] = 0
  /\ Published(d) =>
       /\ tries[d] <= delivery[d].attempts + losses + (IF InFlight(d) THEN 1 ELSE 0)
       /\ delivery[d].attempts + (IF Uncounted(d) THEN 1 ELSE 0) <= tries[d] + shutdowns
       /\ delivery[d].status = "failed" =>
            delivery[d].attempts = MaxAttempts \/ EndpointOf(d) \in Legacy

AllAccounted ==
  /\ \A d \in Deliveries : Accounted(d)
  /\ stopping => shutdowns > 0
  /\ \A t \in Threads : request[t] # None => request[t].wait > 0

\* The endpoints an account owns or will own once the edits in progress are written.
Adding(a) == {e \in EndpointIds : \E s \in Editors :
                /\ edit[s] # None /\ edit[s].id = e
                /\ edit[s].item.scope = "account" /\ edit[s].item.owner = a}

Owning(a) == OwnedBy(a) \cup Adding(a)

LimitInv == \A a \in Accounts : Cardinality(Owning(a)) <= EndpointLimit + Cardinality(Editors) - 1

-----------------------------------------------------------------------------
(* Endpoint edits.                                                         *)

LEMMA EditFields ==
  ASSUME TypeOK, NEW s \in Editors, edit[s] # None
  PROVE  /\ edit[s] \in Edits
         /\ edit[s].id \in EndpointIds
         /\ edit[s].item \in Endpoints
         /\ edit[s].fresh \in BOOLEAN
BY DEF TypeOK, Edits

\* Edits stay sound while the endpoints are left alone; a crash only drops them.
LEMMA EditsFrame ==
  ASSUME EditsSound, UNCHANGED <<endpoint, lastEndpoint>>,
         \A s \in Editors : edit'[s] = edit[s] \/ edit'[s] = None
  PROVE  EditsSound'
BY DEF EditsSound, EditSound

\* An edit that starts was decided on what is stored now.
LEMMA StartSound ==
  ASSUME TypeOK, EditsSound, NEW s \in Editors, NEW e \in EndpointIds, NEW item \in Endpoints,
         StartEdit(s, e, item),
         lastEndpoint' \in Nat, lastEndpoint <= lastEndpoint', e <= lastEndpoint',
         item.scope \in {"account", "platform", "deleted"},
         endpoint[e].scope # "deleted",
         item.scope = "account" => endpoint[e].scope \in {"account", "absent"}
  PROVE  EditsSound'
<1>1. endpoint' = endpoint /\ edit' = [edit EXCEPT ![s] = [id |-> e, item |-> item, fresh |-> TRUE]]
  BY DEF StartEdit
<1>2. \A f \in EndpointIds : f > lastEndpoint' => f > lastEndpoint
  BY DEF TypeOK, EndpointIds
<1>3. ASSUME NEW r \in Editors, edit'[r] # None
      PROVE  EditSound(r)'
  <2>1. CASE r = s
    <3>1. edit'[r] = [id |-> e, item |-> item, fresh |-> TRUE]
      BY <1>1, <2>1 DEF TypeOK
    <3>2. QED
      BY <1>1, <3>1 DEF EditSound
  <2>2. CASE r # s
    <3>1. edit'[r] = edit[r]
      BY <1>1, <2>2 DEF TypeOK
    <3>2. edit[r].id <= lastEndpoint' /\ EditSound(r)
      BY <1>3, <3>1, EditFields DEF EditsSound, EditSound, TypeOK, EndpointIds
    <3>3. QED
      BY <1>1, <3>1, <3>2 DEF EditSound
  <2>3. QED
    BY <2>1, <2>2
<1>4. QED
  BY <1>1, <1>2, <1>3 DEF EditsSound

\* What a write stores, and what is known of it.
LEMMA WriteFacts ==
  ASSUME TypeOK, EditsSound, NEW s \in Editors, WriteEdit(s)
  PROVE  /\ EditSound(s)
         /\ edit[s].id \in EndpointIds
         /\ endpoint'[edit[s].id] = edit[s].item
         /\ \A e \in EndpointIds : e # edit[s].id => endpoint'[e] = endpoint[e]
         /\ edit[s].fresh \/ edit[s].id \in raced'
         /\ raced \subseteq raced'
         /\ lastEndpoint' = lastEndpoint
         /\ \A r \in Editors : edit'[r] # None =>
              /\ r # s /\ edit[r] # None
              /\ edit'[r].id = edit[r].id /\ edit'[r].item = edit[r].item
              /\ edit'[r].fresh => edit[r].fresh /\ edit[r].id # edit[s].id
<1>1. edit[s] # None /\ edit[s].id \in EndpointIds /\ EditSound(s)
  BY EditFields DEF WriteEdit, EditsSound
<1>2. ASSUME NEW r \in Editors, edit'[r] # None
      PROVE  /\ r # s /\ edit[r] # None
             /\ edit'[r].id = edit[r].id /\ edit'[r].item = edit[r].item
             /\ edit'[r].fresh => edit[r].fresh /\ edit[r].id # edit[s].id
  <2>1. edit'[r] = IF r = s \/ edit[r] = None \/ edit[r].id # edit[s].id
                     THEN IF r = s THEN None ELSE edit[r]
                     ELSE [edit[r] EXCEPT !.fresh = FALSE]
    BY DEF WriteEdit
  <2>2. r # s /\ edit[r] # None
    BY <1>2, <2>1
  <2>3. edit[r] \in Edits
    BY <2>2, EditFields
  <2>4. CASE edit[r].id # edit[s].id
    BY <2>1, <2>2, <2>4
  <2>5. CASE edit[r].id = edit[s].id
    <3>1. edit'[r] = [edit[r] EXCEPT !.fresh = FALSE]
      BY <2>1, <2>2, <2>5
    <3>2. QED
      BY <2>2, <2>3, <3>1 DEF Edits
  <2>6. QED
    BY <2>4, <2>5
<1>3. QED
  BY <1>1, <1>2 DEF WriteEdit, TypeOK

LEMMA WriteSound ==
  ASSUME TypeOK, EditsSound, NEW s \in Editors, WriteEdit(s)
  PROVE  EditsSound'
<1>1. ASSUME NEW e \in EndpointIds
      PROVE  /\ e > lastEndpoint' => endpoint'[e].scope = "absent"
             /\ endpoint'[e].scope = "legacy" => e \in Legacy
  <2>1. edit[s].id <= lastEndpoint /\ lastEndpoint \in Nat /\ edit[s].id \in Nat
    BY WriteFacts DEF EditSound, TypeOK, EndpointIds
  <2>2. CASE e = edit[s].id
    BY <2>1, <2>2, WriteFacts DEF EditSound, EndpointIds
  <2>3. CASE e # edit[s].id
    BY <2>3, WriteFacts DEF EditsSound
  <2>4. QED
    BY <2>2, <2>3
<1>2. ASSUME NEW r \in Editors, edit'[r] # None
      PROVE  EditSound(r)'
  <2>1. /\ edit[r] # None /\ edit'[r].id = edit[r].id /\ edit'[r].item = edit[r].item
        /\ edit'[r].fresh => edit[r].fresh /\ edit[r].id # edit[s].id
        /\ lastEndpoint' = lastEndpoint
    BY <1>2, WriteFacts
  <2>2. EditSound(r) /\ edit[r].id \in EndpointIds
    BY <2>1, EditFields DEF EditsSound
  <2>3. edit'[r].fresh => endpoint'[edit[r].id] = endpoint[edit[r].id]
    BY <2>1, <2>2, WriteFacts
  <2>4. QED
    BY <2>1, <2>2, <2>3 DEF EditSound
<1>3. QED
  BY <1>1, <1>2 DEF EditsSound

LEMMA CreateSound ==
  ASSUME TypeOK, EditsSound, NEW s \in Editors, NEW a \in Actors, NEW types \in SUBSET Types,
         NEW enabled \in BOOLEAN, CreateEndpoint(s, a, types, enabled)
  PROVE  EditsSound'
<1> DEFINE item == [owner |-> a, scope |-> ScopeOf(a), events |-> types, enabled |-> enabled]
<1>1. PICK e \in EndpointIds : e = lastEndpoint + 1
  BY SizeAssumption DEF CreateEndpoint, TypeOK, EndpointIds
<1>2. item \in Endpoints /\ item.scope \in {"account", "platform"}
  BY DEF Endpoints, ScopeOf, Scopes
<1>3. endpoint[e].scope = "absent"
  BY <1>1 DEF EditsSound, TypeOK
<1>4. StartEdit(s, e, item) /\ lastEndpoint' = e
  BY <1>1 DEF CreateEndpoint
<1> HIDE DEF item
<1>5. e \in Nat /\ lastEndpoint <= e
  BY <1>1 DEF TypeOK, EndpointIds
<1>6. QED
  BY <1>2, <1>3, <1>4, <1>5, StartSound

LEMMA UpdateSound ==
  ASSUME TypeOK, EditsSound, NEW s \in Editors, NEW a \in Actors, NEW e \in EndpointIds,
         NEW types \in SUBSET Types, NEW enabled \in BOOLEAN,
         UpdateEndpoint(s, a, e, types, enabled) \/ DeleteEndpoint(s, a, e)
  PROVE  EditsSound'
<1>1. Exists(e) /\ MayEdit(a, e) /\ lastEndpoint' = lastEndpoint
  BY DEF UpdateEndpoint, DeleteEndpoint
<1>2. e <= lastEndpoint /\ lastEndpoint \in Nat
  BY <1>1 DEF Exists, EditsSound, TypeOK, EndpointIds
<1>3. PICK item \in Endpoints :
        /\ StartEdit(s, e, item)
        /\ item.scope \in {"account", "platform", "deleted"}
        /\ item.scope = "account" => a # Admin
  <2>1. CASE UpdateEndpoint(s, a, e, types, enabled)
    <3> DEFINE item == [owner |-> endpoint[e].owner, scope |-> ScopeOf(a), events |-> types,
                        enabled |-> enabled]
    <3>1. item \in Endpoints /\ item.scope = ScopeOf(a)
      BY DEF TypeOK, Endpoints, ScopeOf, Scopes
    <3>2. StartEdit(s, e, item)
      BY <2>1 DEF UpdateEndpoint
    <3> HIDE DEF item
    <3>3. QED
      BY <3>1, <3>2 DEF ScopeOf
  <2>2. CASE DeleteEndpoint(s, a, e)
    <3> DEFINE item == [endpoint[e] EXCEPT !.scope = "deleted"]
    <3>1. item \in Endpoints /\ item.scope = "deleted"
      BY DEF TypeOK, Endpoints
    <3>2. StartEdit(s, e, item)
      BY <2>2 DEF DeleteEndpoint
    <3> HIDE DEF item
    <3>3. QED
      BY <3>1, <3>2
  <2>3. QED
    BY <2>1, <2>2
<1>4. item.scope = "account" => endpoint[e].scope = "account"
  BY <1>1, <1>3 DEF MayEdit, OwnedBy
<1>5. QED
  BY <1>1, <1>2, <1>3, <1>4, StartSound DEF Exists

\* Edits stay sound under every step.
LEMMA NextEdits == TypeOK /\ EditsSound /\ [Next]_vars => EditsSound'
<1> SUFFICES ASSUME TypeOK, EditsSound, [Next]_vars PROVE EditsSound'
  OBVIOUS
<1>1. ASSUME NEW s \in Editors, Edit(s)
      PROVE  EditsSound'
  BY <1>1, CreateSound, UpdateSound, WriteSound DEF Edit
<1>2. ASSUME UNCHANGED <<endpoint, lastEndpoint, edit>>
      PROVE  EditsSound'
  BY <1>2, EditsFrame
<1>3. ASSUME NEW p \in Publishers, Fanout(p)
      PROVE  UNCHANGED <<endpoint, lastEndpoint, edit>>
  BY <1>3 DEF Fanout, BeginPublish, StoreDelivery, EndPublish, FailPublish, endpointVars
<1>4. ASSUME NEW t \in Threads, Deliver(t)
      PROVE  UNCHANGED <<endpoint, lastEndpoint, edit>>
  BY <1>4 DEF Deliver, Attempt, SkipMissing, RejectLegacy, Answer, endpointVars
<1>5. ASSUME \/ \E t \in Testers, a \in Actors, e \in EndpointIds : BeginTest(t, a, e)
             \/ Scan \/ Tick \/ Shutdown \/ UNCHANGED vars
      PROVE  UNCHANGED <<endpoint, lastEndpoint, edit>>
  BY <1>5 DEF BeginTest, Scan, Tick, Shutdown, vars, endpointVars
<1>6. CASE Stopped \/ Crash
  BY <1>6, EditsFrame DEF Stopped, Crash, Restart
<1>7. QED
  BY <1>1, <1>2, <1>3, <1>4, <1>5, <1>6 DEF Next

LEMMA InitEdits == Init => EditsSound
<1> SUFFICES ASSUME Init PROVE EditsSound
  OBVIOUS
<1>1. \A e \in EndpointIds : e > lastEndpoint => endpoint[e] = NoEndpoint
  BY SizeAssumption DEF Init, EndpointIds
<1>2. \A e \in EndpointIds : endpoint[e].scope = "legacy" => e \in Legacy
  BY DEF Init, StoredEndpoint, NoEndpoint
<1>3. QED
  BY <1>1, <1>2 DEF EditsSound, NoEndpoint, Init

LEMMA EditsInvariant == Spec => [](TypeOK /\ EditsSound)
<1>1. TypeOK /\ EditsSound /\ [Next]_vars => EditsSound'
  BY NextEdits
<1>2. QED
  BY <1>1, InitEdits, TypeCorrect, PTL DEF Spec

\* A platform endpoint becomes an account endpoint again, and a deleted one
\* comes back, only by a write that was decided on before another write.
THEOREM NeverRegresses == Spec => EndpointNeverRegresses
<1> DEFINE Regress(e) == \/ endpoint[e].scope = "platform" /\ endpoint'[e].scope = "account"
                         \/ endpoint[e].scope = "deleted" /\ endpoint'[e].scope # "deleted"
<1>1. TypeOK /\ EditsSound /\ [Next]_vars => \A e \in EndpointIds : Regress(e) => e \in raced'
  <2> SUFFICES ASSUME TypeOK, EditsSound, [Next]_vars, NEW e \in EndpointIds, Regress(e)
               PROVE  e \in raced'
    OBVIOUS
  <2>1. ASSUME NEW s \in Editors, WriteEdit(s)
        PROVE  e \in raced'
    <3>1. e = edit[s].id
      BY <2>1, WriteFacts
    <3>2. ~edit[s].fresh
      BY <2>1, <3>1, WriteFacts DEF EditSound
    <3>3. QED
      BY <2>1, <3>1, <3>2, WriteFacts
  <2>2. ASSUME NEW s \in Editors, Edit(s), ~WriteEdit(s)
        PROVE  UNCHANGED endpoint
    BY <2>2 DEF Edit, CreateEndpoint, UpdateEndpoint, DeleteEndpoint, StartEdit
  <2>3. ASSUME NEW p \in Publishers, Fanout(p)
        PROVE  UNCHANGED endpoint
    BY <2>3 DEF Fanout, BeginPublish, StoreDelivery, EndPublish, FailPublish, endpointVars
  <2>4. ASSUME NEW t \in Threads, Deliver(t)
        PROVE  UNCHANGED endpoint
    BY <2>4 DEF Deliver, Attempt, SkipMissing, RejectLegacy, Answer, endpointVars
  <2>5. ASSUME \/ \E t \in Testers, a \in Actors, f \in EndpointIds : BeginTest(t, a, f)
               \/ Scan \/ Tick \/ Shutdown \/ UNCHANGED vars \/ Stopped \/ Crash
        PROVE  UNCHANGED endpoint
    BY <2>5 DEF BeginTest, Scan, Tick, Shutdown, vars, endpointVars, Stopped, Crash, Restart
  <2>6. QED
    BY <2>1, <2>2, <2>3, <2>4, <2>5 DEF Next
<1>2. QED
  BY <1>1, EditsInvariant, PTL DEF EndpointNeverRegresses, Spec

-----------------------------------------------------------------------------
(* Whom an event is for.                                                   *)

\* A write takes an endpoint that an event was for from its sight only when
\* it was decided on before another write.
LEMMA WriteVisible ==
  ASSUME TypeOK, EditsSound, WantedVisible, NEW s \in Editors, WriteEdit(s)
  PROVE  WantedVisible'
<1>1. UNCHANGED <<wanted, eventType>>
  BY DEF WriteEdit, fanoutVars
<1>2. ASSUME NEW v \in Events, NEW e \in wanted[v]
      PROVE  /\ endpoint'[e].scope # "absent"
             /\ eventType[v] \in PlatformOnly => endpoint'[e].scope # "account" \/ e \in raced'
  <2>1. /\ e \in EndpointIds /\ endpoint[e].scope # "absent"
        /\ eventType[v] \in PlatformOnly => endpoint[e].scope # "account" \/ e \in raced
    BY DEF WantedVisible, TypeOK
  <2>2. CASE e = edit[s].id
    <3>1. EditSound(s) /\ endpoint'[e] = edit[s].item /\ raced \subseteq raced'
      BY <2>2, WriteFacts
    <3>2. edit[s].fresh \/ e \in raced'
      BY <2>2, WriteFacts
    <3>3. QED
      BY <2>1, <2>2, <3>1, <3>2 DEF EditSound
  <2>3. CASE e # edit[s].id
    <3>1. endpoint'[e] = endpoint[e] /\ raced \subseteq raced'
      BY <2>1, <2>3, WriteFacts
    <3>2. QED
      BY <2>1, <3>1
  <2>4. QED
    BY <2>2, <2>3
<1>3. QED
  BY <1>1, <1>2 DEF WantedVisible

\* Publish scans for the endpoints that may see the event; a test is none of the
\* events reserved to platform endpoints.
LEMMA BeginVisible ==
  ASSUME TypeOK, WantedVisible, NEW v \in Events, NEW type \in Types \cup {TestType},
         UNCHANGED <<endpoint, raced>>,
         eventType' = [eventType EXCEPT ![v] = type],
         \/ wanted' = wanted /\ type = TestType
         \/ wanted' = [wanted EXCEPT ![v] = Interested(type)]
  PROVE  WantedVisible'
<1>1. ASSUME NEW u \in Events, u # v, NEW e \in wanted'[u]
      PROVE  /\ endpoint'[e].scope # "absent"
             /\ eventType'[u] \in PlatformOnly => endpoint'[e].scope # "account" \/ e \in raced'
  <2>1. wanted'[u] = wanted[u] /\ eventType'[u] = eventType[u]
    BY <1>1 DEF TypeOK
  <2>2. QED
    BY <1>1, <2>1 DEF WantedVisible
<1>2. eventType'[v] = type
  BY DEF TypeOK
<1>3. ASSUME NEW e \in wanted'[v]
      PROVE  /\ endpoint'[e].scope # "absent"
             /\ eventType'[v] \in PlatformOnly => endpoint'[e].scope # "account" \/ e \in raced'
  <2>1. CASE wanted' = wanted /\ type = TestType
    BY <1>2, <2>1, NameAssumption DEF WantedVisible
  <2>2. CASE wanted' = [wanted EXCEPT ![v] = Interested(type)]
    <3>1. e \in Interested(type)
      BY <1>3, <2>2 DEF TypeOK
    <3>2. QED
      BY <1>2, <3>1 DEF Interested, Scopes
  <2>3. QED
    BY <2>1, <2>2
<1>4. QED
  BY <1>1, <1>3 DEF WantedVisible

LEMMA NextVisible == TypeOK /\ EditsSound /\ WantedVisible /\ [Next]_vars => WantedVisible'
<1> SUFFICES ASSUME TypeOK, EditsSound, WantedVisible, [Next]_vars PROVE WantedVisible'
  OBVIOUS
<1>1. ASSUME UNCHANGED <<endpoint, raced, wanted, eventType>>
      PROVE  WantedVisible'
  BY <1>1 DEF WantedVisible
<1>2. ASSUME NEW s \in Editors, Edit(s)
      PROVE  WantedVisible'
  <2>1. ASSUME ~WriteEdit(s)
        PROVE  UNCHANGED <<endpoint, raced, wanted, eventType>>
    BY <1>2, <2>1 DEF Edit, CreateEndpoint, UpdateEndpoint, DeleteEndpoint, StartEdit, fanoutVars
  <2>2. QED
    BY <1>1, <2>1, WriteVisible
<1>3. ASSUME NEW p \in Publishers, NEW type \in Types, BeginPublish(p, type)
      PROVE  WantedVisible'
  <2>1. PICK v \in Events : v = lastEvent + 1
    BY <1>3, SizeAssumption DEF BeginPublish, TypeOK, Events
  <2>2. /\ eventType' = [eventType EXCEPT ![v] = type]
        /\ wanted' = [wanted EXCEPT ![v] = Interested(type)]
        /\ UNCHANGED <<endpoint, raced>>
    BY <1>3, <2>1 DEF BeginPublish, endpointVars
  <2>3. QED
    BY <2>2, BeginVisible
<1>4. ASSUME NEW t \in Testers, NEW a \in Actors, NEW e \in EndpointIds, BeginTest(t, a, e)
      PROVE  WantedVisible'
  <2>1. PICK v \in Events : v = lastEvent + 1
    BY <1>4, SizeAssumption DEF BeginTest, TypeOK, Events
  <2>2. /\ eventType' = [eventType EXCEPT ![v] = TestType]
        /\ UNCHANGED <<endpoint, raced, wanted>>
    BY <1>4, <2>1 DEF BeginTest, endpointVars
  <2>3. QED
    BY <2>2, BeginVisible
<1>5. ASSUME NEW p \in Publishers, StoreDelivery(p) \/ EndPublish(p) \/ FailPublish(p)
      PROVE  UNCHANGED <<endpoint, raced, wanted, eventType>>
  BY <1>5 DEF StoreDelivery, EndPublish, FailPublish, endpointVars
<1>6. ASSUME NEW t \in Threads, Deliver(t)
      PROVE  UNCHANGED <<endpoint, raced, wanted, eventType>>
  BY <1>6 DEF Deliver, Attempt, SkipMissing, RejectLegacy, Answer, endpointVars, fanoutVars
<1>7. ASSUME Scan \/ Tick \/ Shutdown \/ UNCHANGED vars \/ Stopped \/ Crash
      PROVE  UNCHANGED <<endpoint, raced, wanted, eventType>>
  BY <1>7 DEF Scan, Tick, Shutdown, vars, endpointVars, fanoutVars, Stopped, Crash, Restart
<1>8. QED
  BY <1>1, <1>2, <1>3, <1>4, <1>5, <1>6, <1>7 DEF Next, Fanout

LEMMA InitVisible == Init => WantedVisible
<1> SUFFICES ASSUME Init PROVE WantedVisible
  OBVIOUS
<1>1. ASSUME NEW v \in Events, NEW e \in wanted[v]
      PROVE  endpoint[e].scope = "legacy"
  <2>1. e \in Legacy /\ e \in EndpointIds /\ e <= StoredCount
    BY NameAssumption, SizeAssumption DEF Init, EndpointIds
  <2>2. QED
    BY <2>1 DEF Init, StoredEndpoint
<1>2. QED
  BY <1>1 DEF WantedVisible

-----------------------------------------------------------------------------
(* The fan-out is exact.                                                   *)

\* Nothing published is stored or removed.
SamePresence ==
  /\ UNCHANGED eventType
  /\ \A d \in Deliveries : Published(d) => (Present(d)' <=> Present(d))

LEMMA FanOutKept ==
  ASSUME QueueInv, FanOutsSound, FanOutExact, SamePresence, UNCHANGED <<lastEvent, wanted, finished>>,
         \A p \in Publishers : publish'[p] = publish[p] \/ publish'[p] = None
  PROVE  FanOutsSound' /\ FanOutExact'
<1> USE DEF QueueInv
<1>1. ASSUME NEW v \in Events, eventType[v] # TestType, NEW e \in EndpointIds
      PROVE  delivery'[<<v, e>>].status # "absent" <=> delivery[<<v, e>>].status # "absent"
  <2>1. <<v, e>> \in Deliveries /\ Published(<<v, e>>)
    BY <1>1 DEF Deliveries, Published, EventOf
  <2>2. QED
    BY <2>1 DEF SamePresence, Present
<1>2. FanOutExact'
  <2>1. \A v \in Events : wanted[v] \subseteq EndpointIds
    BY DEF TypeOK
  <2>2. QED
    BY <1>1, <2>1 DEF FanOutExact, SamePresence
<1>3. ASSUME NEW p \in Publishers, publish'[p] # None
      PROVE  FanOutSound(p)'
  <2>1. publish'[p] = publish[p] /\ publish[p] # None
    BY <1>3
  <2>2. publish[p].event \in Events /\ eventType[publish[p].event] # TestType
    BY <2>1 DEF TypeOK, Fanouts, EventsDisjoint
  <2>3. wanted[publish[p].event] \subseteq EndpointIds
    BY <2>2 DEF TypeOK
  <2>4. QED
    BY <1>1, <2>1, <2>2, <2>3 DEF FanOutsSound, FanOutSound, Present, SamePresence
<1>4. QED
  BY <1>2, <1>3 DEF FanOutsSound

\* An event that begins, published or a test, has nothing stored, has not ended
\* and is nobody else's.
LEMMA BeginFresh ==
  ASSUME QueueInv, FanOutsSound, NEW v \in Events, v = lastEvent + 1
  PROVE  /\ \A e \in EndpointIds : <<v, e>> \in Deliveries /\ ~Present(<<v, e>>)
         /\ v \notin finished
         /\ \A p \in Publishers : publish[p] # None => publish[p].event # v /\ publish[p].event \in Events
<1> USE DEF QueueInv
<1>1. ~(v <= lastEvent) /\ v > lastEvent
  BY DEF TypeOK, Events
<1>2. \A e \in EndpointIds : <<v, e>> \in Deliveries /\ EventOf(<<v, e>>) = v
  BY DEF Deliveries, EventOf
<1>3. \A e \in EndpointIds : ~Present(<<v, e>>)
  BY <1>1, <1>2 DEF EventsDisjoint, Present
<1>4. \A p \in Publishers : publish[p] # None => publish[p].event <= lastEvent /\ publish[p].event \in Events
  BY DEF EventsDisjoint, TypeOK, Fanouts
<1>5. QED
  BY <1>1, <1>2, <1>3, <1>4 DEF FanOutsSound

LEMMA PublishFanOut ==
  ASSUME QueueInv, FanOutsSound, FanOutExact, NEW p \in Publishers, NEW type \in Types,
         BeginPublish(p, type)
  PROVE  FanOutsSound' /\ FanOutExact'
<1> USE DEF QueueInv
<1>1. PICK v \in Events : v = lastEvent + 1
  BY SizeAssumption DEF BeginPublish, TypeOK, Events
<1>2. /\ lastEvent' = v
      /\ wanted' = [wanted EXCEPT ![v] = Interested(type)]
      /\ eventType' = [eventType EXCEPT ![v] = type]
      /\ publish' = [publish EXCEPT ![p] = [event |-> v, todo |-> Interested(type)]]
      /\ UNCHANGED <<delivery, finished>>
  BY <1>1 DEF BeginPublish, workVars
<1>3. /\ \A e \in EndpointIds : ~Present(<<v, e>>)
      /\ v \notin finished
      /\ \A q \in Publishers : publish[q] # None => publish[q].event # v /\ publish[q].event \in Events
  BY <1>1, BeginFresh
<1>4. \A u \in Events : u # v => wanted'[u] = wanted[u] /\ eventType'[u] = eventType[u]
  BY <1>2 DEF TypeOK
<1>5. wanted'[v] = Interested(type)
  BY <1>2 DEF TypeOK
<1>6. FanOutExact'
  <2>1. ASSUME NEW u \in Events, eventType'[u] # TestType
        PROVE  /\ \A e \in EndpointIds : delivery[<<u, e>>].status # "absent" => e \in wanted'[u]
               /\ u \in finished => \A e \in wanted'[u] : delivery[<<u, e>>].status # "absent"
    <3>1. CASE u = v
      BY <1>3, <3>1 DEF Present
    <3>2. CASE u # v
      BY <1>4, <2>1, <3>2 DEF FanOutExact
    <3>3. QED
      BY <3>1, <3>2
  <2>2. QED
    BY <1>2, <2>1 DEF FanOutExact
<1>7. ASSUME NEW q \in Publishers, publish'[q] # None
      PROVE  FanOutSound(q)'
  <2>1. CASE q = p
    <3>1. publish'[q] = [event |-> v, todo |-> Interested(type)]
      BY <1>2, <2>1 DEF TypeOK
    <3>2. QED
      BY <1>5, <3>1 DEF FanOutSound
  <2>2. CASE q # p
    <3>1. publish'[q] = publish[q] /\ publish[q] # None
      BY <1>2, <1>7, <2>2 DEF TypeOK
    <3>2. wanted'[publish[q].event] = wanted[publish[q].event]
      BY <1>3, <1>4, <3>1
    <3>3. QED
      BY <1>2, <3>1, <3>2 DEF FanOutsSound, FanOutSound, Present
  <2>3. QED
    BY <2>1, <2>2
<1>8. \A u \in finished : u <= v
  BY <1>1 DEF FanOutsSound, TypeOK, Events
<1>9. QED
  BY <1>2, <1>6, <1>7, <1>8 DEF FanOutsSound

LEMMA TestFanOut ==
  ASSUME QueueInv, FanOutsSound, FanOutExact, NEW t \in Testers, NEW a \in Actors, NEW f \in EndpointIds,
         BeginTest(t, a, f)
  PROVE  FanOutsSound' /\ FanOutExact'
<1> USE DEF QueueInv
<1>1. PICK v \in Events : v = lastEvent + 1
  BY SizeAssumption DEF BeginTest, TypeOK, Events
<1>2. /\ lastEvent' = v
      /\ eventType' = [eventType EXCEPT ![v] = TestType]
      /\ delivery' = [delivery EXCEPT ![<<v, f>>] = NewDelivery]
      /\ UNCHANGED <<publish, wanted, finished>>
  BY <1>1 DEF BeginTest
<1>3. /\ v \notin finished
      /\ \A q \in Publishers : publish[q] # None => publish[q].event # v /\ publish[q].event \in Events
  BY <1>1, BeginFresh
<1>4. \A u \in Events : u # v => eventType'[u] = eventType[u]
  BY <1>2 DEF TypeOK
<1>5. eventType'[v] = TestType
  BY <1>2 DEF TypeOK
<1>6. \A u \in Events, e \in EndpointIds : u # v => delivery'[<<u, e>>] = delivery[<<u, e>>]
  BY <1>2 DEF TypeOK, Deliveries
<1>7. \A u \in Events : wanted[u] \subseteq EndpointIds
  BY DEF TypeOK
<1>8. FanOutExact'
  <2>1. ASSUME NEW u \in Events, eventType'[u] # TestType
        PROVE  /\ \A e \in EndpointIds : delivery'[<<u, e>>].status # "absent" => e \in wanted[u]
               /\ u \in finished => \A e \in wanted[u] : delivery'[<<u, e>>].status # "absent"
    <3>1. u # v
      BY <1>5, <2>1
    <3>2. QED
      BY <1>4, <1>6, <1>7, <2>1, <3>1 DEF FanOutExact
  <2>2. QED
    BY <1>2, <2>1 DEF FanOutExact
<1>9. ASSUME NEW q \in Publishers, publish[q] # None
      PROVE  FanOutSound(q)'
  <2>1. publish[q].event # v /\ publish[q].event \in Events
    BY <1>3, <1>9
  <2>2. QED
    BY <1>2, <1>6, <1>7, <1>9, <2>1 DEF FanOutsSound, FanOutSound, Present
<1>10. \A u \in finished : u <= v
  BY <1>1 DEF FanOutsSound, TypeOK, Events
<1>11. QED
  BY <1>2, <1>8, <1>9, <1>10 DEF FanOutsSound

LEMMA StoreFanOut ==
  ASSUME QueueInv, FanOutsSound, FanOutExact, NEW p \in Publishers, StoreDelivery(p)
  PROVE  FanOutsSound' /\ FanOutExact'
<1> USE DEF QueueInv
<1>1. PICK v \in Events, f \in publish[p].todo :
        /\ v = publish[p].event
        /\ delivery' = [delivery EXCEPT ![<<v, f>>] = NewDelivery]
        /\ publish' = [publish EXCEPT ![p].todo = @ \ {f}]
  BY DEF StoreDelivery, TypeOK, Fanouts
<1>2. /\ publish[p] \in Fanouts /\ publish[p] # None
      /\ UNCHANGED <<eventType, lastEvent, wanted, finished>>
  BY DEF StoreDelivery, TypeOK
<1>3. f \in EndpointIds /\ <<v, f>> \in Deliveries /\ FanOutSound(p) /\ f \in wanted[v]
  BY <1>1, <1>2 DEF Fanouts, Deliveries, FanOutsSound, FanOutSound
<1>4. \A u \in Events, e \in EndpointIds :
        /\ <<u, e>> \in Deliveries
        /\ <<u, e>> # <<v, f>> => delivery'[<<u, e>>] = delivery[<<u, e>>]
  BY <1>1 DEF TypeOK, Deliveries
<1>5. delivery'[<<v, f>>].status = "queued"
  BY <1>1, <1>3 DEF TypeOK, NewDelivery
<1>6. \A u \in Events : wanted[u] \subseteq EndpointIds
  BY DEF TypeOK
<1>7. FanOutExact'
  <2>1. ASSUME NEW u \in Events, eventType[u] # TestType
        PROVE  /\ \A e \in EndpointIds : delivery'[<<u, e>>].status # "absent" => e \in wanted[u]
               /\ u \in finished => \A e \in wanted[u] : delivery'[<<u, e>>].status # "absent"
    <3>1. ASSUME NEW e \in EndpointIds, delivery'[<<u, e>>].status # "absent"
          PROVE  e \in wanted[u]
      BY <1>3, <1>4, <2>1, <3>1 DEF FanOutExact
    <3>2. ASSUME u \in finished, NEW e \in wanted[u]
          PROVE  delivery'[<<u, e>>].status # "absent"
      BY <1>4, <1>5, <1>6, <2>1, <3>2 DEF FanOutExact
    <3>3. QED
      BY <3>1, <3>2
  <2>2. QED
    BY <1>2, <2>1 DEF FanOutExact
<1>8. ASSUME NEW q \in Publishers, publish'[q] # None
      PROVE  FanOutSound(q)'
  <2>1. CASE q = p
    <3>1. publish'[q].event = v /\ publish'[q].todo = publish[p].todo \ {f}
      BY <1>1, <1>2, <2>1 DEF TypeOK, Fanouts
    <3>2. ASSUME NEW e \in wanted[v] \ (publish[p].todo \ {f})
          PROVE  delivery'[<<v, e>>].status # "absent"
      BY <1>1, <1>3, <1>4, <1>5, <1>6 DEF FanOutSound, Present
    <3>3. QED
      BY <1>1, <1>2, <1>3, <3>1, <3>2 DEF FanOutSound, Present
  <2>2. CASE q # p
    <3>1. publish'[q] = publish[q] /\ publish[q] # None
      BY <1>1, <1>8, <2>2 DEF TypeOK
    <3>2. publish[q].event \in Events /\ publish[q].event # v
      BY <1>1, <1>2, <2>2, <3>1 DEF TypeOK, Fanouts, EventsDisjoint
    <3>3. QED
      BY <1>2, <1>4, <1>6, <3>1, <3>2 DEF FanOutsSound, FanOutSound, Present
  <2>3. QED
    BY <2>1, <2>2
<1>9. QED
  BY <1>2, <1>7, <1>8 DEF FanOutsSound

LEMMA EndFanOut ==
  ASSUME QueueInv, FanOutsSound, FanOutExact, NEW p \in Publishers, EndPublish(p)
  PROVE  FanOutsSound' /\ FanOutExact'
<1> USE DEF QueueInv
<1>1. PICK v \in Events : v = publish[p].event
  BY DEF EndPublish, TypeOK, Fanouts
<1>2. /\ publish[p].todo = {} /\ finished' = finished \cup {v}
      /\ UNCHANGED <<eventType, lastEvent, wanted, delivery>>
      /\ FanOutSound(p) /\ v <= lastEvent
  BY <1>1 DEF EndPublish, workVars, FanOutsSound, EventsDisjoint
<1>3. \A q \in Publishers : publish'[q] # None => publish'[q] = publish[q]
  BY DEF EndPublish, TypeOK
<1>4. \A e \in wanted[v] : delivery[<<v, e>>].status # "absent"
  BY <1>1, <1>2 DEF FanOutSound, Present
<1>5. FanOutExact'
  BY <1>2, <1>4 DEF FanOutExact
<1>6. ASSUME NEW q \in Publishers, publish'[q] # None
      PROVE  FanOutSound(q)'
  <2>1. publish'[q] = publish[q] /\ FanOutSound(q)
    BY <1>3, <1>6 DEF FanOutsSound
  <2>2. QED
    BY <1>2, <2>1 DEF FanOutSound, Present
<1>7. QED
  BY <1>2, <1>5, <1>6 DEF FanOutsSound

\* The threads store nothing that is not stored, and remove nothing, but for
\* tests.
LEMMA DeliverPresence ==
  ASSUME QueueInv, NEW t \in Threads, Deliver(t)
  PROVE  SamePresence
<1> USE DEF QueueInv
<1>1. ASSUME UNCHANGED <<delivery, eventType>>
      PROVE  SamePresence
  BY <1>1 DEF SamePresence, Present
<1>2. ASSUME NEW d \in Deliveries, NEW record, record.status # "absent", Published(d) => Pending(d),
             Put(d, record), UNCHANGED eventType
      PROVE  SamePresence
  BY <1>2 DEF SamePresence, Present, Pending, Put, TypeOK
<1>3. ASSUME NEW c \in batch[t], RejectLegacy(t, c)
      PROVE  SamePresence
  <2>1. c.id \in Deliveries /\ (Published(c.id) => Pending(c.id))
    BY DEF TypeOK, Copies, WorkerCopiesFresh
  <2>2. QED
    BY <1>2, <1>3, <2>1 DEF RejectLegacy, fanoutVars
<1>4. ASSUME NEW ok \in BOOLEAN, Answer(t, ok)
      PROVE  SamePresence
  <2>1. PICK r \in Requests : r = request[t]
    BY <1>4 DEF Answer, TypeOK
  <2>2. r.id \in Deliveries /\ (Published(r.id) => Pending(r.id))
    BY <1>4, <2>1 DEF Answer, Requests, WorkerCopiesFresh
  <2>3. Outcome(r, ok).status # "absent"
    BY DEF Outcome
  <2>4. Put(r.id, Outcome(r, ok)) /\ UNCHANGED eventType
    BY <1>4, <2>1 DEF Answer, fanoutVars
  <2>5. QED
    BY <1>2, <2>2, <2>3, <2>4
<1>5. QED
  BY <1>1, <1>3, <1>4 DEF Deliver, Attempt, SkipMissing, fanoutVars

LEMMA NextFanOut == QueueInv /\ FanOutsSound /\ FanOutExact /\ [Next]_vars => FanOutsSound' /\ FanOutExact'
<1> SUFFICES ASSUME QueueInv, FanOutsSound, FanOutExact, [Next]_vars PROVE FanOutsSound' /\ FanOutExact'
  OBVIOUS
<1> DEFINE Kept == FanOutsSound' /\ FanOutExact'
<1>1. ASSUME SamePresence, UNCHANGED fanoutVars
      PROVE  Kept
  BY <1>1, FanOutKept DEF fanoutVars
<1>2. ASSUME UNCHANGED <<delivery, fanoutVars>>
      PROVE  Kept
  BY <1>1, <1>2 DEF SamePresence, Present, fanoutVars
<1>3. ASSUME NEW s \in Editors, Edit(s)
      PROVE  UNCHANGED <<delivery, fanoutVars>>
  BY <1>3 DEF Edit, CreateEndpoint, UpdateEndpoint, DeleteEndpoint, StartEdit, WriteEdit, workVars
<1>4. ASSUME NEW p \in Publishers, FailPublish(p)
      PROVE  Kept
  <2>1. SamePresence /\ UNCHANGED <<lastEvent, wanted, finished>>
    BY <1>4 DEF FailPublish, workVars, SamePresence, Present
  <2>2. \A q \in Publishers : publish'[q] = publish[q] \/ publish'[q] = None
    BY <1>4 DEF FailPublish, QueueInv, TypeOK
  <2>3. QED
    BY <2>1, <2>2, FanOutKept
<1>5. ASSUME NEW t \in Threads, Deliver(t)
      PROVE  UNCHANGED fanoutVars
  BY <1>5 DEF Deliver, Attempt, SkipMissing, RejectLegacy, Answer
<1>6. ASSUME Scan \/ Shutdown \/ UNCHANGED vars
      PROVE  UNCHANGED <<delivery, fanoutVars>>
  BY <1>6 DEF Scan, Shutdown, vars, fanoutVars, workVars
<1>7. CASE Tick
  <2>1. UNCHANGED fanoutVars
    BY <1>7 DEF Tick
  <2>2. \A d \in Deliveries : delivery'[d].status = delivery[d].status
    BY <1>7 DEF Tick, QueueInv, TypeOK, Records
  <2>3. QED
    BY <1>1, <2>1, <2>2 DEF SamePresence, Present, fanoutVars
<1>8. CASE Stopped \/ Crash
  <2>1. Restart
    BY <1>8 DEF Stopped, Crash
  <2>2. SamePresence /\ UNCHANGED <<lastEvent, wanted, finished>>
    BY <2>1 DEF Restart, SamePresence, Present
  <2>3. \A q \in Publishers : publish'[q] = None
    BY <2>1 DEF Restart
  <2>4. QED
    BY <2>2, <2>3, FanOutKept
<1>9. QED
  BY <1>1, <1>2, <1>3, <1>4, <1>5, <1>6, <1>7, <1>8, PublishFanOut, TestFanOut, StoreFanOut,
     EndFanOut, DeliverPresence DEF Next, Fanout

LEMMA InitFanOut == Init => FanOutsSound /\ FanOutExact
<1> SUFFICES ASSUME Init PROVE FanOutsSound /\ FanOutExact
  OBVIOUS
<1>1. FanOutsSound
  BY DEF Init, FanOutsSound
<1>2. \A v \in Events, e \in EndpointIds :
        /\ delivery[<<v, e>>].status # "absent" <=> v = 0 /\ e \in Legacy
        /\ e \in wanted[v] <=> v = 0 /\ e \in Legacy
  BY NameAssumption, SizeAssumption DEF Init, Deliveries, EventOf, EndpointOf, NewDelivery, NoDelivery, EndpointIds
<1>3. \A v \in Events : wanted[v] \subseteq EndpointIds
  BY InitType DEF TypeOK
<1>4. FanOutExact
  BY <1>2, <1>3 DEF Init, FanOutExact
<1>5. QED
  BY <1>1, <1>4

LEMMA NextFanOutInv == FanOutInv /\ [Next]_vars => FanOutInv'
BY NextQueue, NextEdits, NextVisible, NextFanOut DEF FanOutInv, QueueInv

LEMMA FanOutInvariant == Spec => []FanOutInv
<1>1. Init => FanOutInv
  BY InitQueue, InitEdits, InitVisible, InitFanOut DEF FanOutInv
<1>2. QED
  BY <1>1, NextFanOutInv, PTL DEF Spec

\* A Publish that returned no error has stored a delivery for every endpoint that
\* was interested when it scanned, and for nobody else; an event reserved to
\* platform endpoints is for an account endpoint only by a stale edit.
THEOREM DeliveredToThoseDue == Spec => []DeliveriesDue
<1>1. FanOutInv => DeliveriesDue
  <2> SUFFICES ASSUME FanOutInv PROVE DeliveriesDue
    OBVIOUS
  <2> USE DEF FanOutInv
  <2>1. ASSUME NEW d \in Deliveries, eventType[EventOf(d)] \in PlatformOnly, delivery[d].status # "absent"
        PROVE  endpoint[EndpointOf(d)].scope # "account" \/ EndpointOf(d) \in raced
    <3>1. PICK v \in Events, e \in EndpointIds : d = <<v, e>>
      BY DEF Deliveries
    <3>2. EventOf(d) = v /\ EndpointOf(d) = e /\ eventType[v] # TestType
      BY <2>1, <3>1, NameAssumption DEF EventOf, EndpointOf
    <3>3. e \in wanted[v]
      BY <2>1, <3>1, <3>2 DEF FanOutExact
    <3>4. QED
      BY <2>1, <3>2, <3>3 DEF WantedVisible
  <2>2. QED
    BY <2>1 DEF DeliveriesDue, PlatformOnlyUnlessRaced
<1>2. QED
  BY <1>1, FanOutInvariant, PTL


-----------------------------------------------------------------------------
(* How often a delivery was posted.                                        *)

\* A deferred delivery waits at least two minutes.
LEMMA BackoffLong ==
  ASSUME NEW n \in Nat \ {0}
  PROVE  Backoff(n) \in Nat /\ Backoff(n) > 1
<1>1. Least(n, 6) \in 1 .. 6
  BY DEF Least
<1>2. \A k \in 1 .. 6 : <<2, 4, 8, 16, 32, 64>>[k] \in Nat /\ <<2, 4, 8, 16, 32, 64>>[k] > 1
  OBVIOUS
<1>3. QED
  BY <1>1, <1>2 DEF Backoff

\* The numbers the bounds relate.
LEMMA Counters ==
  ASSUME TypeOK, NEW d \in Deliveries
  PROVE  /\ tries[d] \in Nat /\ delivery[d].attempts \in Nat
         /\ losses \in Nat /\ shutdowns \in Nat
BY SizeAssumption DEF TypeOK, Records

\* The account of a delivery whose record and requests stay as they are: a
\* request in flight is given up only for a loss, and attempts become uncounted
\* only by a shutdown.
LEMMA AccountKept ==
  ASSUME TypeOK, TypeOK', NEW d \in Deliveries, Accounted(d),
         delivery'[d].status = delivery[d].status, delivery'[d].attempts = delivery[d].attempts,
         tries'[d] = tries[d],
         EventOf(d) > lastEvent' => EventOf(d) > lastEvent,
         Published(d)' => Published(d),
         losses <= losses', shutdowns <= shutdowns',
         Published(d) => /\ InFlight(d) => InFlight(d)' \/ losses' >= losses + 1
                         /\ Uncounted(d)' => Uncounted(d) \/ shutdowns' >= shutdowns + 1
  PROVE  Accounted(d)'
<1>1. /\ tries[d] \in Nat /\ delivery[d].attempts \in Nat
      /\ losses \in Nat /\ shutdowns \in Nat /\ losses' \in Nat /\ shutdowns' \in Nat
  BY Counters DEF TypeOK
<1>2. ~Present(d)' => delivery'[d].attempts = 0
  BY DEF Accounted, Present
<1>3. EventOf(d) > lastEvent' => tries'[d] = 0
  BY DEF Accounted
<1>4. ASSUME Published(d)'
      PROVE  /\ tries'[d] <= delivery'[d].attempts + losses' + (IF InFlight(d)' THEN 1 ELSE 0)
             /\ delivery'[d].attempts + (IF Uncounted(d)' THEN 1 ELSE 0) <= tries'[d] + shutdowns'
             /\ delivery'[d].status = "failed" =>
                  delivery'[d].attempts = MaxAttempts \/ EndpointOf(d) \in Legacy
  <2>1. Published(d)
    BY <1>4
  <2>2. tries[d] <= delivery[d].attempts + losses' + (IF InFlight(d)' THEN 1 ELSE 0)
    BY <1>1, <2>1 DEF Accounted
  <2>3. delivery[d].attempts + (IF Uncounted(d)' THEN 1 ELSE 0) <= tries[d] + shutdowns'
    BY <1>1, <2>1 DEF Accounted
  <2>4. QED
    BY <2>1, <2>2, <2>3 DEF Accounted
<1>5. QED
  BY <1>2, <1>3, <1>4 DEF Accounted

\* A request for a published delivery is the worker's.
LEMMA FlightOfWorker ==
  ASSUME QueueInv, NEW d \in Deliveries, Published(d), InFlight(d)
  PROVE  request[Worker] # None /\ request[Worker].id = d /\ Pending(d)
BY DEF QueueInv, WorkerCopiesFresh, InFlight

LEMMA PublishAccounted ==
  ASSUME QueueInv, QueueInv', AllAccounted, NEW p \in Publishers, NEW type \in Types,
         BeginPublish(p, type)
  PROVE  \A d \in Deliveries : Accounted(d)'
<1> USE DEF QueueInv
<1>1. PICK v \in Events : v = lastEvent + 1
  BY SizeAssumption DEF BeginPublish, TypeOK, Events
<1>2. /\ lastEvent' = v /\ eventType' = [eventType EXCEPT ![v] = type]
      /\ UNCHANGED <<delivery, batch, request, tries, stopping, losses, shutdowns>>
  BY <1>1 DEF BeginPublish, workVars, faultVars
<1>3. ASSUME NEW d \in Deliveries
      PROVE  Accounted(d)'
  <2>1. EventOf(d) \in Events /\ Accounted(d)
    BY DEF Deliveries, EventOf, AllAccounted
  <2>2. /\ InFlight(d)' <=> InFlight(d)
        /\ Uncounted(d)' <=> Uncounted(d)
    BY <1>2 DEF InFlight, Uncounted, Pending
  <2>3. EventOf(d) > lastEvent' => EventOf(d) > lastEvent
    BY <1>1, <1>2, <2>1 DEF TypeOK, Events
  <2>4. CASE EventOf(d) = v
    <3>1. EventOf(d) > lastEvent /\ ~(EventOf(d) <= lastEvent) /\ ~(EventOf(d) > lastEvent')
      BY <1>1, <1>2, <2>4 DEF TypeOK, Events
    <3>2. delivery[d].status = "absent" /\ ~InFlight(d)
      BY <3>1 DEF EventsDisjoint, InFlight
    <3>3. ~Uncounted(d)
      BY <3>2 DEF Uncounted, Pending
    <3>4. tries[d] = 0 /\ delivery[d].attempts = 0
      BY <2>1, <3>1, <3>2 DEF Accounted, Present
    <3>5. losses \in Nat /\ shutdowns \in Nat
      BY Counters
    <3>6. QED
      BY <1>2, <2>2, <3>1, <3>2, <3>3, <3>4, <3>5 DEF Accounted
  <2>5. CASE EventOf(d) # v
    <3>1. Published(d)' <=> Published(d)
      BY <1>2, <2>1, <2>5 DEF TypeOK, Published
    <3>2. losses \in Nat /\ shutdowns \in Nat
      BY Counters
    <3>3. QED
      BY <1>2, <2>1, <2>2, <2>3, <3>1, <3>2, AccountKept
  <2>6. QED
    BY <2>4, <2>5
<1>4. QED
  BY <1>3

LEMMA StoreAccounted ==
  ASSUME QueueInv, QueueInv', AllAccounted, NEW p \in Publishers, StoreDelivery(p)
  PROVE  \A d \in Deliveries : Accounted(d)'
<1> USE DEF QueueInv
<1>1. PICK e \in publish[p].todo :
        delivery' = [delivery EXCEPT ![<<publish[p].event, e>>] = NewDelivery]
  BY DEF StoreDelivery
<1> DEFINE new == <<publish[p].event, e>>
<1>2. UNCHANGED <<batch, request, tries, stopping, losses, shutdowns, eventType, lastEvent>>
  BY DEF StoreDelivery, faultVars
<1>3. new \in Deliveries /\ delivery[new].status = "absent"
  BY <1>1 DEF StoreDelivery, TypeOK, Fanouts, Deliveries, EventsDisjoint
<1>4. delivery'[new] = NewDelivery
  BY <1>1, <1>3 DEF TypeOK
<1> HIDE DEF new
<1>5. ASSUME NEW d \in Deliveries
      PROVE  Accounted(d)'
  <2>1. Accounted(d) /\ losses \in Nat /\ shutdowns \in Nat /\ tries[d] \in Nat
    BY Counters DEF AllAccounted
  <2>2. (InFlight(d)' <=> InFlight(d)) /\ (Published(d)' <=> Published(d))
    BY <1>2 DEF InFlight, Published
  <2>3. CASE d = new
    <3>1. /\ delivery'[d].status = "queued" /\ delivery'[d].attempts = 0
          /\ delivery[d].attempts = 0
      BY <1>3, <1>4, <2>1, <2>3 DEF NewDelivery, Accounted, Present
    <3>2. Published(d) => ~InFlight(d)
      BY <1>3, <2>3, FlightOfWorker DEF Pending
    <3>3. Published(d) /\ Uncounted(d)' => shutdowns > 0
      BY <1>2, <2>2, <3>2 DEF Uncounted, AllAccounted
    <3>4. Present(d)'
      BY <3>1 DEF Present
    <3>5. QED
      BY <1>2, <2>1, <2>2, <3>1, <3>2, <3>3, <3>4 DEF Accounted
  <2>4. CASE d # new
    <3>1. delivery'[d] = delivery[d]
      BY <1>1, <2>4 DEF TypeOK, new
    <3>2. Uncounted(d)' <=> Uncounted(d)
      BY <1>2, <2>2, <3>1 DEF Uncounted, Pending
    <3>3. QED
      BY <1>2, <2>1, <2>2, <3>1, <3>2, AccountKept
  <2>5. QED
    BY <2>3, <2>4
<1>6. QED
  BY <1>5

LEMMA TestAccounted ==
  ASSUME QueueInv, QueueInv', AllAccounted, NEW t \in Testers, NEW a \in Actors,
         NEW e \in EndpointIds, BeginTest(t, a, e)
  PROVE  \A d \in Deliveries : Accounted(d)'
<1> USE DEF QueueInv
<1>1. PICK v \in Events : v = lastEvent + 1
  BY SizeAssumption DEF BeginTest, TypeOK, Events
<1>2. /\ lastEvent' = v /\ eventType' = [eventType EXCEPT ![v] = TestType]
      /\ delivery' = [delivery EXCEPT ![<<v, e>>] = NewDelivery]
      /\ UNCHANGED <<request, tries, stopping, losses, shutdowns>>
  BY <1>1 DEF BeginTest, faultVars
<1>3. batch'[Worker] = batch[Worker]
  BY NameAssumption DEF BeginTest, TypeOK, Threads
<1>4. ASSUME NEW d \in Deliveries
      PROVE  Accounted(d)'
  <2>1. EventOf(d) \in Events /\ Accounted(d) /\ losses \in Nat /\ shutdowns \in Nat
    BY Counters DEF Deliveries, EventOf, AllAccounted
  <2>2. InFlight(d)' <=> InFlight(d)
    BY <1>2 DEF InFlight
  <2>3. EventOf(d) > lastEvent' => EventOf(d) > lastEvent
    BY <1>1, <1>2, <2>1 DEF TypeOK, Events
  <2>4. EventOf(d) # v => (Published(d)' <=> Published(d))
    BY <1>2, <2>1 DEF TypeOK, Published
  <2>5. EventOf(d) = v => ~Published(d)'
    BY <1>2, <2>1 DEF TypeOK, Published
  <2>6. CASE d = <<v, e>>
    <3>1. delivery'[d].status = "queued"
      BY <1>2, <2>6 DEF TypeOK, NewDelivery
    <3>2. EventOf(d) = v /\ ~(v > lastEvent')
      BY <1>2, <2>6 DEF EventOf, Events
    <3>3. QED
      BY <2>5, <3>1, <3>2 DEF Accounted, Present
  <2>7. CASE d # <<v, e>>
    <3>1. delivery'[d] = delivery[d]
      BY <1>2, <2>7 DEF TypeOK
    <3>2. Uncounted(d)' <=> Uncounted(d)
      BY <1>2, <1>3, <2>2, <3>1 DEF Uncounted, Pending
    <3>3. QED
      BY <1>2, <2>1, <2>2, <2>3, <2>4, <2>5, <3>1, <3>2, AccountKept
  <2>8. QED
    BY <2>6, <2>7
<1>5. QED
  BY <1>4


\* A request that is sent is counted at once, its attempt only when it is
\* recorded; one that a shutdown keeps from being sent was allowed for before.
LEMMA AttemptAccounted ==
  ASSUME QueueInv, QueueInv', AllAccounted, NEW t \in Threads, NEW c \in batch[t],
         NEW live \in BOOLEAN, Attempt(t, c, live)
  PROVE  \A d \in Deliveries : Accounted(d)'
<1> USE DEF QueueInv
<1>1. PICK id \in Deliveries : id = c.id
  BY DEF TypeOK, Copies
<1>2. /\ request[t] = None
      /\ request'[t] # None /\ request'[t].id = id
      /\ \A u \in Threads : u # t => request'[u] = request[u]
  <2>1. request' = [request EXCEPT ![t] =
                     [id |-> id, attempts |-> c.attempts + 1,
                      wait |-> Backoff(c.attempts + 1), live |-> live]]
    BY <1>1 DEF Attempt
  <2>2. request'[t] = [id |-> id, attempts |-> c.attempts + 1,
                       wait |-> Backoff(c.attempts + 1), live |-> live]
    BY <2>1 DEF TypeOK
  <2>3. request'[t] \in Requests
    <3>1. c.attempts \in 0 .. MaxAttempts - 1
      BY DEF TypeOK, Copies
    <3>2. c.attempts + 1 \in 1 .. MaxAttempts
      BY <3>1, SizeAssumption
    <3>3. Backoff(c.attempts + 1) \in Nat
      BY <3>2, BackoffLong, SizeAssumption
    <3>4. QED
      BY <2>2, <3>2, <3>3 DEF Requests
  <2>4. QED
    BY <2>1, <2>2, <2>3, NameAssumption DEF Attempt, IsNext, TypeOK
<1>3. /\ UNCHANGED <<delivery, stopping, losses, shutdowns, eventType, lastEvent>>
      /\ \A d \in Deliveries : tries'[d] = IF live /\ d = id THEN tries[d] + 1 ELSE tries[d]
      /\ t = Worker => live = ~stopping
      /\ batch'[Worker] \subseteq batch[Worker]
  BY <1>1 DEF Attempt, TakeCopy, faultVars, fanoutVars, TypeOK
<1>4. ASSUME NEW d \in Deliveries
      PROVE  Accounted(d)'
  <2>1. /\ Accounted(d) /\ losses \in Nat /\ shutdowns \in Nat /\ tries[d] \in Nat
        /\ delivery[d].attempts \in Nat
    BY Counters DEF AllAccounted
  <2>2. Published(d)' <=> Published(d)
    BY <1>3 DEF Published
  <2>3. CASE d = id
    <3>1. ~(EventOf(d) > lastEvent')
      BY <1>1, <1>3, <2>3 DEF EventsDisjoint, TypeOK, Events, Deliveries, EventOf
    <3>2. ~Present(d)' => delivery'[d].attempts = 0
      BY <1>3, <2>1 DEF Accounted, Present
    <3>3. ASSUME Published(d)
          PROVE  /\ tries'[d] <= delivery'[d].attempts + losses' + (IF InFlight(d)' THEN 1 ELSE 0)
                 /\ delivery'[d].attempts + (IF Uncounted(d)' THEN 1 ELSE 0) <= tries'[d] + shutdowns'
                 /\ delivery'[d].status = "failed" =>
                      delivery'[d].attempts = MaxAttempts \/ EndpointOf(d) \in Legacy
      <4>1. t = Worker /\ Pending(d)
        BY <1>1, <2>3, <3>3 DEF WorkerCopiesFresh
      <4>2. ~InFlight(d)
        BY <1>2, <3>3, <4>1, FlightOfWorker
      <4>3. InFlight(d)'
        BY <1>2, <2>3 DEF InFlight
      <4>4. ~live => Uncounted(d)
        BY <1>1, <1>3, <2>3, <4>1 DEF Uncounted
      <4>5. tries[d] <= delivery[d].attempts + losses
        BY <2>1, <3>3, <4>2 DEF Accounted
      <4>6. tries'[d] \in Nat /\ tries'[d] <= tries[d] + 1
        BY <1>3, <2>1
      <4>7. delivery[d].attempts + 1 <= tries'[d] + shutdowns
        <5>1. CASE live
          <6>1. delivery[d].attempts <= tries[d] + shutdowns
            BY <2>1, <3>3 DEF Accounted
          <6>2. QED
            BY <1>3, <2>1, <2>3, <5>1, <6>1
        <5>2. CASE ~live
          <6>1. delivery[d].attempts + 1 <= tries[d] + shutdowns
            BY <2>1, <3>3, <4>4, <5>2 DEF Accounted
          <6>2. QED
            BY <1>3, <5>2, <6>1
        <5>3. QED
          BY <5>1, <5>2
      <4>8. delivery[d].status # "failed"
        BY <4>1 DEF Pending
      <4>9. tries'[d] <= delivery[d].attempts + losses + 1
        BY <2>1, <4>5, <4>6
      <4>10. delivery[d].attempts + (IF Uncounted(d)' THEN 1 ELSE 0) <= tries'[d] + shutdowns
        BY <2>1, <4>6, <4>7
      <4>11. QED
        BY <1>3, <4>3, <4>8, <4>9, <4>10
    <3>4. QED
      BY <2>2, <3>1, <3>2, <3>3 DEF Accounted
  <2>4. CASE d # id
    <3>1. InFlight(d)' <=> InFlight(d)
      BY <1>2, <2>4 DEF InFlight
    <3>2. Uncounted(d)' => Uncounted(d)
      BY <1>3, <3>1 DEF Uncounted, Pending
    <3>3. QED
      BY <1>3, <2>1, <2>2, <2>4, <3>1, <3>2, AccountKept
  <2>5. QED
    BY <2>3, <2>4
<1>5. QED
  BY <1>4

LEMMA RejectAccounted ==
  ASSUME QueueInv, QueueInv', EditsSound, AllAccounted, NEW t \in Threads, NEW c \in batch[t],
         RejectLegacy(t, c)
  PROVE  \A d \in Deliveries : Accounted(d)'
<1> USE DEF QueueInv
<1>1. PICK id \in Deliveries : id = c.id
  BY DEF TypeOK, Copies
<1> DEFINE record == [status |-> "failed", attempts |-> c.attempts, wait |-> 0]
<1>2. /\ request[t] = None /\ Put(id, record)
      /\ UNCHANGED <<request, tries, stopping, shutdowns, eventType, lastEvent>>
      /\ batch'[Worker] \subseteq batch[Worker]
  BY <1>1 DEF RejectLegacy, IsNext, TakeCopy, fanoutVars, TypeOK
<1>3. EndpointOf(id) \in Legacy
  <2>1. EndpointOf(id) \in EndpointIds /\ endpoint[EndpointOf(id)].scope = "legacy"
    BY <1>1 DEF RejectLegacy, Deliveries, EndpointOf
  <2>2. QED
    BY <2>1 DEF EditsSound
<1>4. losses \in Nat /\ losses' \in Nat /\ losses <= losses'
  BY <1>2, Counters DEF Put, TypeOK
<1>5. record.status = "failed" /\ record.attempts = c.attempts
  OBVIOUS
<1> HIDE DEF record
<1>6. \A d \in Deliveries : InFlight(d)' <=> InFlight(d)
  BY <1>2 DEF InFlight
<1>7. ASSUME NEW d \in Deliveries
      PROVE  Accounted(d)'
  <2>1. /\ Accounted(d) /\ shutdowns \in Nat /\ tries[d] \in Nat
        /\ delivery[d].attempts \in Nat
    BY Counters DEF AllAccounted
  <2>2. Published(d)' <=> Published(d)
    BY <1>2 DEF Published
  <2>3. CASE delivery'[d] = delivery[d]
    <3>1. Uncounted(d)' => Uncounted(d)
      BY <1>2, <1>6, <2>3 DEF Uncounted, Pending
    <3>2. QED
      BY <1>2, <1>4, <1>6, <2>1, <2>2, <2>3, <3>1, AccountKept
  <2>4. CASE delivery'[d] # delivery[d]
    <3>1. d = id /\ delivery'[d] = record /\ losses' = losses
      BY <1>2, <2>4 DEF Put, TypeOK
    <3>2. ~(EventOf(d) > lastEvent')
      BY <1>1, <1>2, <3>1 DEF EventsDisjoint, TypeOK, Events, Deliveries, EventOf
    <3>3. Present(d)' /\ ~Pending(d)'
      BY <1>5, <3>1 DEF Present, Pending
    <3>4. ASSUME Published(d)
          PROVE  /\ tries'[d] <= delivery'[d].attempts + losses' + (IF InFlight(d)' THEN 1 ELSE 0)
                 /\ delivery'[d].attempts + (IF Uncounted(d)' THEN 1 ELSE 0) <= tries'[d] + shutdowns'
                 /\ delivery'[d].status = "failed" =>
                      delivery'[d].attempts = MaxAttempts \/ EndpointOf(d) \in Legacy
      <4>1. t = Worker /\ delivery[d].attempts = c.attempts
        BY <1>1, <3>1, <3>4 DEF WorkerCopiesFresh
      <4>2. ~InFlight(d)
        BY <1>2, <3>4, <4>1, FlightOfWorker
      <4>3. ~InFlight(d)' /\ ~Uncounted(d)'
        BY <1>6, <3>3, <4>2 DEF Uncounted
      <4>4. tries[d] <= delivery[d].attempts + losses /\ delivery[d].attempts <= tries[d] + shutdowns
        BY <1>4, <2>1, <3>4, <4>2 DEF Accounted
      <4>5. delivery'[d].attempts = delivery[d].attempts
        BY <1>5, <3>1, <4>1
      <4>6. QED
        BY <1>2, <1>3, <1>4, <2>1, <3>1, <4>3, <4>4, <4>5
    <3>5. QED
      BY <2>2, <3>2, <3>3, <3>4 DEF Accounted
  <2>5. QED
    BY <2>3, <2>4
<1>8. QED
  BY <1>7

\* An answer settles the one attempt in flight, or its record is lost.
LEMMA AnswerAccounted ==
  ASSUME QueueInv, QueueInv', AllAccounted, NEW t \in Threads, NEW ok \in BOOLEAN, Answer(t, ok)
  PROVE  \A d \in Deliveries : Accounted(d)'
<1> USE DEF QueueInv
<1>1. PICK r \in Requests : r = request[t]
  BY DEF Answer, TypeOK
<1>2. /\ request[t] # None /\ Put(r.id, Outcome(r, ok))
      /\ request' = [request EXCEPT ![t] = None]
      /\ UNCHANGED <<batch, tries, stopping, shutdowns, eventType, lastEvent>>
  BY <1>1 DEF Answer, fanoutVars
<1>3. /\ r.id \in Deliveries /\ r.attempts \in 1 .. MaxAttempts /\ r.wait > 0
      /\ Outcome(r, ok).attempts = r.attempts
  BY <1>1, <1>2, OutcomeType DEF Requests, AllAccounted
<1>4. /\ Outcome(r, ok).status \in {"delivered", "failed", "deferred"}
      /\ Outcome(r, ok).status = "failed" => r.attempts = MaxAttempts
      /\ Outcome(r, ok).status = "deferred" => Outcome(r, ok).wait = r.wait
  <2>1. CASE ok
    BY <2>1 DEF Outcome
  <2>2. CASE ~ok /\ r.attempts >= MaxAttempts
    BY <1>3, <2>2, SizeAssumption DEF Outcome
  <2>3. CASE ~ok /\ ~(r.attempts >= MaxAttempts)
    BY <2>3 DEF Outcome
  <2>4. QED
    BY <2>1, <2>2, <2>3
<1>5. /\ losses \in Nat /\ losses' \in Nat /\ losses <= losses'
      /\ delivery'[r.id] = Outcome(r, ok) \/ (losses' >= losses + 1 /\ UNCHANGED delivery)
      /\ \A d \in Deliveries : d # r.id => delivery'[d] = delivery[d]
  <2>1. losses \in Nat /\ losses' \in Nat
    BY <1>3, SizeAssumption DEF TypeOK
  <2>2. CASE delivery' = [delivery EXCEPT ![r.id] = Outcome(r, ok)] /\ losses' = losses
    BY <1>3, <2>1, <2>2 DEF TypeOK
  <2>3. CASE losses' = losses + 1 /\ UNCHANGED delivery
    BY <2>1, <2>3
  <2>4. QED
    BY <1>2, <2>2, <2>3 DEF Put
<1>6. \A d \in Deliveries : d # r.id => (InFlight(d)' <=> InFlight(d))
  BY <1>1, <1>2 DEF InFlight, TypeOK
<1>7. ASSUME NEW d \in Deliveries
      PROVE  Accounted(d)'
  <2>1. /\ Accounted(d) /\ shutdowns \in Nat /\ tries[d] \in Nat
        /\ delivery[d].attempts \in Nat
    BY Counters DEF AllAccounted
  <2>2. Published(d)' <=> Published(d)
    BY <1>2 DEF Published
  <2>3. CASE d # r.id
    <3>1. Uncounted(d)' => Uncounted(d)
      BY <1>2, <1>5, <1>6, <2>3 DEF Uncounted, Pending
    <3>2. QED
      BY <1>2, <1>5, <1>6, <2>1, <2>2, <2>3, <3>1, AccountKept
  <2>4. CASE d = r.id
    <3>1. ~(EventOf(d) > lastEvent')
      BY <1>1, <1>2, <2>4 DEF EventsDisjoint, TypeOK, Events, Deliveries, EventOf
    <3>2. ~Present(d)' => delivery'[d].attempts = 0
      BY <1>4, <1>5, <2>1, <2>4 DEF Accounted, Present
    <3>3. ASSUME Published(d)
          PROVE  /\ tries'[d] <= delivery'[d].attempts + losses' + (IF InFlight(d)' THEN 1 ELSE 0)
                 /\ delivery'[d].attempts + (IF Uncounted(d)' THEN 1 ELSE 0) <= tries'[d] + shutdowns'
                 /\ delivery'[d].status = "failed" =>
                      delivery'[d].attempts = MaxAttempts \/ EndpointOf(d) \in Legacy
      <4>1. InFlight(d)
        BY <1>1, <1>2, <2>4 DEF InFlight
      <4>2. /\ t = Worker /\ Pending(d) /\ delivery[d].attempts + 1 = r.attempts
            /\ \A o \in batch[Worker] : o.id # d
        BY <1>1, <1>2, <2>4, <3>3 DEF WorkerCopiesFresh
      <4>3. /\ tries[d] <= delivery[d].attempts + losses + 1
            /\ delivery[d].attempts + 1 <= tries[d] + shutdowns
        BY <2>1, <3>3, <4>1 DEF Accounted, Uncounted
      <4>4. ~InFlight(d)'
        <5>1. \A u \in Threads : request[u] # None /\ request[u].id = d => u = t
          BY <3>3, <4>2 DEF WorkerCopiesFresh
        <5>2. QED
          BY <1>2, <5>1 DEF InFlight, TypeOK
      <4>5. CASE delivery'[d] = Outcome(r, ok)
        <5>1. ~Uncounted(d)'
          BY <1>2, <1>3, <1>4, <4>2, <4>4, <4>5 DEF Uncounted, Pending
        <5>2. delivery'[d].attempts = delivery[d].attempts + 1
          BY <1>3, <4>2, <4>5
        <5>3. delivery'[d].status = "failed" => delivery'[d].attempts = MaxAttempts
          BY <1>3, <1>4, <4>5
        <5>4. QED
          BY <1>2, <1>5, <2>1, <4>3, <4>4, <5>1, <5>2, <5>3
      <4>6. CASE delivery'[d] # Outcome(r, ok)
        <5>1. losses' >= losses + 1 /\ delivery'[d] = delivery[d]
          BY <1>5, <2>4, <4>6
        <5>2. delivery[d].status # "failed"
          BY <4>2 DEF Pending
        <5>3. tries[d] <= delivery[d].attempts + losses'
          BY <1>5, <2>1, <4>3, <5>1
        <5>4. delivery[d].attempts + (IF Uncounted(d)' THEN 1 ELSE 0) <= tries[d] + shutdowns
          BY <2>1, <4>3
        <5>5. QED
          BY <1>2, <1>5, <2>1, <4>4, <5>1, <5>2, <5>3, <5>4
      <4>7. QED
        BY <4>5, <4>6
    <3>4. QED
      BY <2>2, <3>1, <3>2, <3>3 DEF Accounted
  <2>5. QED
    BY <2>3, <2>4
<1>8. QED
  BY <1>7

\* The other steps leave the records, and count what they drop.
LEMMA OtherAccounted ==
  ASSUME QueueInv, QueueInv', AllAccounted,
         \/ Scan \/ Tick \/ Shutdown \/ Stopped \/ Crash
         \/ UNCHANGED <<delivery, eventType, lastEvent, batch, request, tries, faultVars>>
         \/ \E t \in Threads : \E c \in batch[t] : SkipMissing(t, c)
  PROVE  \A d \in Deliveries : Accounted(d)'
<1> USE DEF QueueInv
<1>1. ASSUME NEW d \in Deliveries
      PROVE  Accounted(d)'
  <2>1. /\ Accounted(d) /\ losses \in Nat /\ shutdowns \in Nat
    BY Counters DEF AllAccounted
  <2>2. ASSUME UNCHANGED <<delivery, eventType, lastEvent, request, tries, faultVars>>,
               Uncounted(d)' => Uncounted(d)
        PROVE  Accounted(d)'
    <3>1. InFlight(d)' <=> InFlight(d)
      BY <2>2 DEF InFlight
    <3>2. UNCHANGED <<losses, shutdowns>> /\ (Published(d)' <=> Published(d))
      BY <2>2 DEF Published, faultVars
    <3>3. QED
      BY <2>1, <2>2, <3>1, <3>2, AccountKept
  <2>3. CASE UNCHANGED <<delivery, eventType, lastEvent, batch, request, tries, faultVars>>
    <3>1. Uncounted(d)' => Uncounted(d)
      BY <2>3 DEF Uncounted, InFlight, Pending, faultVars
    <3>2. QED
      BY <2>2, <2>3, <3>1
  <2>4. ASSUME NEW t \in Threads, NEW c \in batch[t], SkipMissing(t, c)
        PROVE  Accounted(d)'
    <3>1. UNCHANGED <<delivery, eventType, lastEvent, request, tries, faultVars>>
      BY <2>4 DEF SkipMissing, fanoutVars
    <3>2. batch'[Worker] \subseteq batch[Worker]
      BY <2>4 DEF SkipMissing, TakeCopy, TypeOK
    <3>3. Uncounted(d)' => Uncounted(d)
      BY <3>1, <3>2 DEF Uncounted, InFlight, Pending, faultVars
    <3>4. QED
      BY <2>2, <3>1, <3>3
  <2>5. CASE Scan
    <3>1. UNCHANGED <<delivery, eventType, lastEvent, request, tries, faultVars>>
      BY <2>5 DEF Scan, fanoutVars
    <3>2. PICK B \in SUBSET {f \in Deliveries : Due(f)} :
            batch' = [batch EXCEPT ![Worker] = {CopyOf(f) : f \in B}]
      BY <2>5 DEF Scan
    <3>3. batch'[Worker] = {CopyOf(f) : f \in B}
      BY <3>2 DEF TypeOK, Threads
    <3>4. \A c \in batch'[Worker] : c.id = d => Due(d)
      BY <3>3 DEF CopyOf
    <3>5. Uncounted(d)' => Uncounted(d)
      BY <3>1, <3>4 DEF Uncounted, InFlight, Pending, Due, faultVars
    <3>6. QED
      BY <2>2, <3>1, <3>5
  <2>6. CASE Tick
    <3>1. UNCHANGED <<eventType, lastEvent, tries, losses, shutdowns, stopping>> /\ ~stopping
      BY <2>6 DEF Tick, fanoutVars, faultVars
    <3>2. delivery'[d].status = delivery[d].status /\ delivery'[d].attempts = delivery[d].attempts
      BY <2>6 DEF Tick, TypeOK, Records
    <3>3. \A t \in Threads : /\ request'[t] = None <=> request[t] = None
                             /\ request[t] # None => request'[t].id = request[t].id
      <4>1. ASSUME NEW t \in Threads, request[t] # None
            PROVE  request'[t] # None /\ request'[t].id = request[t].id
        <5>1. request[t] \in Requests
          BY <4>1 DEF TypeOK
        <5>2. request'[t] = [request[t] EXCEPT !.wait = Tock(@)]
          BY <2>6, <4>1 DEF Tick
        <5>3. Tock(request[t].wait) \in Nat
          BY <5>1 DEF Requests, Tock
        <5>4. request'[t] \in Requests /\ request'[t].id = request[t].id
          BY <5>1, <5>2, <5>3 DEF Requests
        <5>5. QED
          BY <5>4, NameAssumption
      <4>2. QED
        BY <2>6, <4>1 DEF Tick
    <3>4. InFlight(d)' <=> InFlight(d)
      BY <3>3 DEF InFlight
    <3>5. Uncounted(d)' => Uncounted(d)
      BY <3>1, <3>4 DEF Uncounted
    <3>6. Published(d)' <=> Published(d)
      BY <3>1 DEF Published
    <3>7. QED
      BY <2>1, <3>1, <3>2, <3>4, <3>5, <3>6, AccountKept
  <2>7. CASE Shutdown
    <3>1. UNCHANGED <<delivery, eventType, lastEvent, request, tries, losses>> /\ shutdowns' = shutdowns + 1
      BY <2>7 DEF Shutdown, workVars, fanoutVars
    <3>2. (InFlight(d)' <=> InFlight(d)) /\ (Published(d)' <=> Published(d))
      BY <3>1 DEF InFlight, Published
    <3>3. QED
      BY <2>1, <3>1, <3>2, AccountKept
  <2>8. CASE Stopped \/ Crash
    <3>1. UNCHANGED <<delivery, eventType, lastEvent, tries, shutdowns>>
      BY <2>8 DEF Stopped, Crash, Restart
    <3>2. ~stopping' /\ \A t \in Threads : request'[t] = None
      BY <2>8 DEF Stopped, Crash, Restart
    <3>3. ~InFlight(d)' /\ ~Uncounted(d)'
      BY <3>2 DEF InFlight, Uncounted
    <3>4. Published(d) /\ InFlight(d) => losses' = losses + 1
      BY <2>8, FlightOfWorker DEF Stopped, Crash
    <3>5. losses' = losses \/ losses' = losses + 1
      BY <2>8 DEF Stopped, Crash
    <3>6. Published(d)' <=> Published(d)
      BY <3>1 DEF Published
    <3>7. QED
      BY <2>1, <3>1, <3>3, <3>4, <3>5, <3>6, AccountKept
  <2>9. QED
    BY <2>3, <2>4, <2>5, <2>6, <2>7, <2>8
<1>2. QED
  BY <1>1

\* The request handlers and the publishers touch no request and no shutdown.
LEMMA FrontFrame ==
  ASSUME \/ \E s \in Editors : Edit(s)
         \/ \E p \in Publishers : Fanout(p)
         \/ \E t \in Testers, a \in Actors, e \in EndpointIds : BeginTest(t, a, e)
  PROVE  UNCHANGED <<request, stopping, shutdowns>>
<1>1. ASSUME NEW s \in Editors, Edit(s)
      PROVE  UNCHANGED <<request, stopping, shutdowns>>
  BY <1>1 DEF Edit, CreateEndpoint, UpdateEndpoint, DeleteEndpoint, StartEdit, WriteEdit, workVars, faultVars
<1>2. ASSUME NEW p \in Publishers, Fanout(p)
      PROVE  UNCHANGED <<request, stopping, shutdowns>>
  BY <1>2 DEF Fanout, BeginPublish, StoreDelivery, EndPublish, FailPublish, workVars, faultVars
<1>3. ASSUME NEW t \in Testers, NEW a \in Actors, NEW e \in EndpointIds, BeginTest(t, a, e)
      PROVE  UNCHANGED <<request, stopping, shutdowns>>
  BY <1>3 DEF BeginTest, faultVars
<1>4. QED
  BY <1>1, <1>2, <1>3

\* A request that waits a minute at most once is still to be deferred.
LEMMA NextFaults ==
  ASSUME QueueInv, AllAccounted, [Next]_vars
  PROVE  /\ stopping' => shutdowns' > 0
         /\ \A t \in Threads : request'[t] # None => request'[t].wait > 0
<1> USE DEF QueueInv
<1>1. stopping' => shutdowns' > 0
  <2>1. CASE Shutdown
    BY <2>1, SizeAssumption DEF Shutdown, TypeOK
  <2>2. CASE Stopped \/ Crash
    BY <2>2 DEF Stopped, Crash, Restart
  <2>3. CASE Tick \/ Scan \/ UNCHANGED vars \/ \E t \in Threads : Deliver(t)
    <3>1. UNCHANGED <<stopping, shutdowns>>
      BY <2>3 DEF Tick, Scan, Deliver, Attempt, SkipMissing, RejectLegacy, Answer, vars, faultVars
    <3>2. QED
      BY <3>1 DEF AllAccounted
  <2>4. CASE \/ \E s \in Editors : Edit(s)
             \/ \E p \in Publishers : Fanout(p)
             \/ \E t \in Testers, a \in Actors, e \in EndpointIds : BeginTest(t, a, e)
    <3>1. UNCHANGED <<stopping, shutdowns>>
      BY <2>4, FrontFrame
    <3>2. QED
      BY <3>1 DEF AllAccounted
  <2>5. QED
    BY <2>1, <2>2, <2>3, <2>4 DEF Next
<1>2. ASSUME NEW u \in Threads, request'[u] # None
      PROVE  request'[u].wait > 0
  <2>1. CASE request'[u] = request[u]
    BY <1>2, <2>1 DEF AllAccounted
  <2>2. ASSUME NEW t \in Threads, NEW c \in batch[t], NEW live \in BOOLEAN, Attempt(t, c, live)
        PROVE  request'[u].wait > 0
    <3>1. c.attempts + 1 \in Nat \ {0}
      BY SizeAssumption DEF TypeOK, Copies
    <3>2. Backoff(c.attempts + 1) > 0
      BY <3>1, BackoffLong
    <3>3. CASE u = t
      BY <2>2, <3>2, <3>3 DEF Attempt, TypeOK
    <3>4. CASE u # t
      BY <2>1, <2>2, <3>4 DEF Attempt, TypeOK
    <3>5. QED
      BY <3>3, <3>4
  <2>3. ASSUME NEW t \in Threads, NEW ok \in BOOLEAN, Answer(t, ok)
        PROVE  request'[u] = request[u]
    BY <1>2, <2>3 DEF Answer, TypeOK
  <2>4. CASE Tick
    <3>1. request[u] # None /\ request'[u] = [request[u] EXCEPT !.wait = Tock(@)]
      BY <1>2, <2>4 DEF Tick
    <3>2. request[u] \in Requests /\ request[u].wait = Backoff(request[u].attempts)
      BY <2>4, <3>1 DEF Tick, TypeOK
    <3>3. request[u].attempts \in Nat \ {0}
      BY <3>2, SizeAssumption DEF Requests
    <3>4. request[u].wait \in Nat /\ request[u].wait > 1
      BY <3>2, <3>3, BackoffLong
    <3>5. request'[u].wait = request[u].wait - 1
      BY <3>1, <3>2, <3>4 DEF Requests, Tock
    <3>6. QED
      BY <3>4, <3>5
  <2>5. CASE Shutdown \/ Scan \/ UNCHANGED vars
    BY <2>1, <2>5 DEF Shutdown, Scan, vars, workVars
  <2>6. CASE Stopped \/ Crash
    BY <1>2, <2>6 DEF Stopped, Crash, Restart
  <2>7. CASE \/ \E s \in Editors : Edit(s)
             \/ \E p \in Publishers : Fanout(p)
             \/ \E t \in Testers, a \in Actors, e \in EndpointIds : BeginTest(t, a, e)
    <3>1. UNCHANGED request
      BY <2>7, FrontFrame
    <3>2. QED
      BY <2>1, <3>1
  <2>8. ASSUME NEW t \in Threads, Deliver(t)
        PROVE  request'[u].wait > 0
    BY <2>1, <2>2, <2>3, <2>8 DEF Deliver, SkipMissing, RejectLegacy
  <2>9. QED
    BY <2>4, <2>5, <2>6, <2>7, <2>8 DEF Next
<1>3. QED
  BY <1>1, <1>2

LEMMA NextAccounted == QueueInv /\ EditsSound /\ AllAccounted /\ [Next]_vars => AllAccounted'
<1> SUFFICES ASSUME QueueInv, EditsSound, AllAccounted, [Next]_vars PROVE AllAccounted'
  OBVIOUS
<1>1. QueueInv'
  BY NextQueue
<1> DEFINE Exact == \A d \in Deliveries : Accounted(d)'
<1>2. ASSUME NEW s \in Editors, Edit(s)
      PROVE  Exact
  <2>1. UNCHANGED <<delivery, eventType, lastEvent, batch, request, tries, faultVars>>
    BY <1>2 DEF Edit, CreateEndpoint, UpdateEndpoint, DeleteEndpoint, StartEdit, WriteEdit,
                workVars, fanoutVars
  <2>2. QED
    BY <1>1, <2>1, OtherAccounted
<1>3. ASSUME NEW p \in Publishers, EndPublish(p)
      PROVE  Exact
  <2>1. UNCHANGED <<delivery, eventType, lastEvent, batch, request, tries, faultVars>>
    BY <1>3 DEF EndPublish, workVars
  <2>2. QED
    BY <1>1, <2>1, OtherAccounted
<1>4. ASSUME NEW p \in Publishers, FailPublish(p)
      PROVE  Exact
  <2>1. /\ UNCHANGED <<delivery, eventType, lastEvent, batch, request, tries, stopping, shutdowns>>
        /\ losses' = losses + 1
    BY <1>4 DEF FailPublish, workVars
  <2>2. ASSUME NEW d \in Deliveries
        PROVE  Accounted(d)'
    <3>1. /\ InFlight(d)' <=> InFlight(d)
          /\ Uncounted(d)' <=> Uncounted(d)
          /\ Published(d)' <=> Published(d)
      BY <2>1 DEF InFlight, Uncounted, Pending, Published
    <3>2. TypeOK /\ TypeOK' /\ Accounted(d) /\ losses \in Nat /\ shutdowns \in Nat
      BY <1>1, Counters DEF QueueInv, AllAccounted
    <3>3. QED
      BY <2>1, <3>1, <3>2, AccountKept
  <2>3. QED
    BY <2>2
<1>5. ASSUME NEW p \in Publishers, Fanout(p)
      PROVE  Exact
  BY <1>1, <1>3, <1>4, <1>5, PublishAccounted, StoreAccounted DEF Fanout
<1>6. ASSUME NEW t \in Threads, Deliver(t)
      PROVE  Exact
  BY <1>1, <1>6, AttemptAccounted, RejectAccounted, AnswerAccounted, OtherAccounted DEF Deliver
<1>7. ASSUME UNCHANGED vars
      PROVE  Exact
  <2>1. UNCHANGED <<delivery, eventType, lastEvent, batch, request, tries, faultVars>>
    BY <1>7 DEF vars, faultVars
  <2>2. QED
    BY <1>1, <2>1, OtherAccounted
<1>8. Exact
  BY <1>1, <1>2, <1>5, <1>6, <1>7, TestAccounted, OtherAccounted DEF Next
<1>9. QED
  BY <1>8, NextFaults DEF AllAccounted

LEMMA InitAccounted == Init => AllAccounted
<1> SUFFICES ASSUME Init PROVE AllAccounted
  OBVIOUS
<1>1. /\ ~stopping /\ losses = 0 /\ shutdowns = 0
      /\ \A t \in Threads : request[t] = None
      /\ \A d \in Deliveries : /\ tries[d] = 0 /\ delivery[d].attempts = 0
                               /\ delivery[d].status \in {"queued", "absent"}
  BY DEF Init, NewDelivery, NoDelivery
<1>2. \A d \in Deliveries : ~InFlight(d) /\ ~Uncounted(d)
  BY <1>1 DEF InFlight, Uncounted
<1>3. \A d \in Deliveries : Accounted(d)
  BY <1>1, <1>2 DEF Accounted
<1>4. QED
  BY <1>1, <1>3 DEF AllAccounted

\* The requests sent for a published delivery exceed the attempts on record by
\* at most the one in flight and what crashes and failed writes lost; and nothing
\* is given up before MaxAttempts of them, less one for each graceful shutdown.
THEOREM RetriesCounted == Spec => []RetriesExact
<1>1. QueueInv /\ EditsSound /\ AllAccounted => RetriesExact
  <2> SUFFICES ASSUME QueueInv, AllAccounted PROVE RetriesExact
    OBVIOUS
  <2>1. RequestsAccounted
    BY DEF AllAccounted, Accounted, RequestsAccounted
  <2>2. ASSUME NEW d \in Deliveries, Published(d), delivery[d].status = "failed",
               EndpointOf(d) \notin Legacy
        PROVE  delivery[d].attempts = MaxAttempts /\ tries[d] + shutdowns >= MaxAttempts
    <3>1. /\ tries[d] \in Nat /\ delivery[d].attempts \in Nat /\ shutdowns \in Nat
      BY Counters DEF QueueInv
    <3>2. delivery[d].attempts = MaxAttempts /\ delivery[d].attempts <= tries[d] + shutdowns
      BY <2>2, <3>1 DEF AllAccounted, Accounted
    <3>3. QED
      BY <3>1, <3>2
  <2>3. QED
    BY <2>1, <2>2 DEF RetriesExact, FailedAfterRetries
<1>2. Init => QueueInv /\ EditsSound /\ AllAccounted
  BY InitQueue, InitEdits, InitAccounted
<1>3. QueueInv /\ EditsSound /\ AllAccounted /\ [Next]_vars => (QueueInv /\ EditsSound /\ AllAccounted)'
  BY NextQueue, NextEdits, NextAccounted DEF QueueInv
<1>4. QED
  BY <1>1, <1>2, <1>3, PTL DEF Spec

-----------------------------------------------------------------------------
(* How many endpoints an account owns.                                     *)

LEMMA OwningFinite ==
  ASSUME NEW a
  PROVE  /\ IsFiniteSet(Owning(a)) /\ IsFiniteSet(OwnedBy(a)) /\ IsFiniteSet(Adding(a))
         /\ Cardinality(Owning(a)) \in Nat /\ Cardinality(OwnedBy(a)) \in Nat /\ Cardinality(Adding(a)) \in Nat
         /\ Cardinality(OwnedBy(a)) <= Cardinality(Owning(a))
         /\ Cardinality(Owning(a)) <= Cardinality(OwnedBy(a)) + Cardinality(Adding(a))
<1>1. IsFiniteSet(EndpointIds)
  BY FS_Interval, SizeAssumption DEF EndpointIds
<1>2. OwnedBy(a) \subseteq EndpointIds /\ Adding(a) \subseteq EndpointIds
  BY DEF OwnedBy, Adding
<1>3. IsFiniteSet(OwnedBy(a)) /\ IsFiniteSet(Adding(a))
  BY <1>1, <1>2, FS_Subset
<1>4. /\ IsFiniteSet(Owning(a))
      /\ Cardinality(Owning(a)) =
           Cardinality(OwnedBy(a)) + Cardinality(Adding(a)) - Cardinality(OwnedBy(a) \cap Adding(a))
  BY <1>3, FS_Union DEF Owning
<1>5. Cardinality(OwnedBy(a)) <= Cardinality(Owning(a))
  BY <1>4, FS_Subset DEF Owning
<1>6. IsFiniteSet(OwnedBy(a) \cap Adding(a))
  BY <1>3, FS_Intersection
<1>7. /\ Cardinality(Owning(a)) \in Nat /\ Cardinality(OwnedBy(a)) \in Nat
      /\ Cardinality(Adding(a)) \in Nat /\ Cardinality(OwnedBy(a) \cap Adding(a)) \in Nat
  BY <1>3, <1>4, <1>6, FS_CardinalityType
<1>8. QED
  BY <1>3, <1>4, <1>5, <1>7

\* Each editor adds at most one endpoint.
LEMMA AddingBound ==
  ASSUME NEW a
  PROVE  Cardinality(Adding(a)) <= Cardinality(Editors)
<1> DEFINE R == {s \in Editors : /\ edit[s] # None
                                 /\ edit[s].item.scope = "account" /\ edit[s].item.owner = a
                                 /\ edit[s].id \in EndpointIds}
           f == [s \in R |-> edit[s].id]
<1>1. IsFiniteSet(R) /\ Cardinality(R) <= Cardinality(Editors)
  <2>1. R \in SUBSET Editors
    OBVIOUS
  <2> HIDE DEF R
  <2>2. QED
    BY <2>1, StoreAssumption, FS_Subset
<1>2. f \in Surjection(R, Adding(a))
  BY DEF Surjection, Adding
<1>3. Cardinality(Adding(a)) <= Cardinality(R)
  <2> HIDE DEF R, f
  <2>1. QED
    BY <1>1, <1>2, FS_Surjection
<1>4. Cardinality(R) \in Nat /\ Cardinality(Editors) \in Nat /\ Cardinality(Adding(a)) \in Nat
  <2>1. IsFiniteSet(Editors)
    BY StoreAssumption
  <2>2. Cardinality(R) \in Nat /\ Cardinality(Editors) \in Nat
    <3> HIDE DEF R
    <3>1. QED
      BY <1>1, <2>1, FS_CardinalityType
  <2>3. QED
    BY <2>2, OwningFinite
<1>5. QED
  <2> HIDE DEF R
  <2>1. QED
    BY <1>1, <1>3, <1>4

LEMMA EditorsCount == Cardinality(Editors) \in Nat
BY StoreAssumption, FS_CardinalityType

\* So the endpoints of an account are at most those it owns and one for each
\* editor, in every state.
OwningBound(a) ==
  /\ Cardinality(Owning(a)) \in Nat
  /\ Cardinality(Owning(a)) <= Cardinality(OwnedBy(a)) + Cardinality(Editors)

OwningsBounded == \A a \in Accounts : OwningBound(a)

LEMMA OwningBounded == OwningsBounded
BY OwningFinite, AddingBound, EditorsCount DEF OwningBound, OwningsBounded

\* A step after which an account owns nothing it did not own before.
LEMMA OwningShrinks ==
  ASSUME LimitInv, \A a \in Accounts : Owning(a)' \subseteq Owning(a)
  PROVE  LimitInv'
<1>1. ASSUME NEW a \in Accounts
      PROVE  Cardinality(Owning(a)') <= EndpointLimit + Cardinality(Editors) - 1
  <2>1. Owning(a)' \subseteq Owning(a)
    OBVIOUS
  <2>2. IsFiniteSet(Owning(a)) /\ Cardinality(Owning(a)) \in Nat
    BY OwningFinite
  <2>3. Cardinality(Owning(a)) <= EndpointLimit + Cardinality(Editors) - 1
    BY DEF LimitInv
  <2>4. /\ IsFiniteSet(Owning(a)')
        /\ Cardinality(Owning(a)') <= Cardinality(Owning(a))
    BY <2>1, <2>2, FS_Subset
  <2>5. Cardinality(Owning(a)') \in Nat
    BY <2>4, FS_CardinalityType
  <2>6. QED
    BY <2>2, <2>3, <2>4, <2>5, EditorsCount, SizeAssumption
<1>2. QED
  BY <1>1 DEF LimitInv

\* An edit that starts adds at most its own endpoint to its owner's.
LEMMA StartAdds ==
  ASSUME TypeOK, NEW s \in Editors, NEW e \in EndpointIds, NEW item \in Endpoints,
         StartEdit(s, e, item), NEW a
  PROVE  /\ OwnedBy(a)' = OwnedBy(a)
         /\ Owning(a)' \subseteq Owning(a) \cup {e}
         /\ ~(item.scope = "account" /\ item.owner = a) => Owning(a)' \subseteq Owning(a)
<1>1. /\ endpoint' = endpoint
      /\ edit' = [edit EXCEPT ![s] = [id |-> e, item |-> item, fresh |-> TRUE]]
  BY DEF StartEdit
<1>2. edit'[s] = [id |-> e, item |-> item, fresh |-> TRUE] /\ \A r \in Editors : r # s => edit'[r] = edit[r]
  BY <1>1 DEF TypeOK
<1>3. OwnedBy(a)' = OwnedBy(a)
  BY <1>1 DEF OwnedBy
<1>4. Adding(a)' \subseteq Adding(a) \cup {e}
  BY <1>2 DEF Adding
<1>5. ~(item.scope = "account" /\ item.owner = a) => Adding(a)' \subseteq Adding(a)
  BY <1>2 DEF Adding
<1>6. QED
  BY <1>3, <1>4, <1>5 DEF Owning

LEMMA CreateLimit ==
  ASSUME TypeOK, TypeOK', LimitInv, NEW s \in Editors, NEW a \in Actors, NEW types \in SUBSET Types,
         NEW enabled \in BOOLEAN, CreateEndpoint(s, a, types, enabled)
  PROVE  LimitInv'
<1> DEFINE item == [owner |-> a, scope |-> ScopeOf(a), events |-> types, enabled |-> enabled]
<1>1. PICK e \in EndpointIds : e = lastEndpoint + 1
  BY SizeAssumption DEF CreateEndpoint, TypeOK, EndpointIds
<1>2. item \in Endpoints /\ StartEdit(s, e, item)
  BY <1>1 DEF CreateEndpoint, Endpoints, ScopeOf, Scopes
<1>3. item.owner = a /\ (item.scope = "account" => a # Admin)
  BY DEF ScopeOf
<1> HIDE DEF item
<1>4. ASSUME NEW b \in Accounts
      PROVE  Cardinality(Owning(b)') <= EndpointLimit + Cardinality(Editors) - 1
  <2>1. CASE b = a /\ a # Admin
    <3>1. Cardinality(OwnedBy(b)) < EndpointLimit
      BY <2>1 DEF CreateEndpoint
    <3>2. OwnedBy(b)' = OwnedBy(b)
      BY <1>2, StartAdds
    <3>3. OwningsBounded'
      BY OwningBounded, PTL
    <3>4. /\ Cardinality(Owning(b)') <= Cardinality(OwnedBy(b)') + Cardinality(Editors)
          /\ Cardinality(Owning(b)') \in Nat
      BY <3>3 DEF OwningsBounded, OwningBound
    <3>5. Cardinality(OwnedBy(b)) \in Nat
      BY OwningFinite
    <3>6. QED
      BY <3>1, <3>2, <3>3, <3>4, <3>5, EditorsCount, SizeAssumption
  <2>2. CASE ~(b = a /\ a # Admin)
    <3>1. Owning(b)' \subseteq Owning(b)
      BY <1>2, <1>3, <2>2, StartAdds
    <3>2. Cardinality(Owning(b)) <= EndpointLimit + Cardinality(Editors) - 1
      BY DEF LimitInv
    <3>3. IsFiniteSet(Owning(b)) /\ Cardinality(Owning(b)) \in Nat
      BY OwningFinite
    <3>4. IsFiniteSet(Owning(b)') /\ Cardinality(Owning(b)') <= Cardinality(Owning(b))
      BY <3>1, <3>3, FS_Subset
    <3>5. Cardinality(Owning(b)') \in Nat
      BY <3>4, FS_CardinalityType
    <3>6. QED
      BY <3>2, <3>3, <3>4, <3>5, EditorsCount, SizeAssumption
  <2>3. QED
    BY <2>1, <2>2
<1>5. QED
  BY <1>4 DEF LimitInv

LEMMA UpdateLimit ==
  ASSUME TypeOK, LimitInv, NEW s \in Editors, NEW a \in Actors, NEW e \in EndpointIds,
         NEW types \in SUBSET Types, NEW enabled \in BOOLEAN,
         UpdateEndpoint(s, a, e, types, enabled) \/ DeleteEndpoint(s, a, e)
  PROVE  LimitInv'
<1>1. PICK item \in Endpoints :
        /\ StartEdit(s, e, item)
        /\ item.scope = "account" => a # Admin /\ item.owner = endpoint[e].owner
  <2>1. CASE UpdateEndpoint(s, a, e, types, enabled)
    <3> DEFINE item == [owner |-> endpoint[e].owner, scope |-> ScopeOf(a), events |-> types,
                        enabled |-> enabled]
    <3>1. item \in Endpoints /\ item.scope = ScopeOf(a) /\ item.owner = endpoint[e].owner
      BY DEF TypeOK, Endpoints, ScopeOf, Scopes
    <3>2. StartEdit(s, e, item)
      BY <2>1 DEF UpdateEndpoint
    <3> HIDE DEF item
    <3>3. QED
      BY <3>1, <3>2 DEF ScopeOf
  <2>2. CASE DeleteEndpoint(s, a, e)
    <3> DEFINE item == [endpoint[e] EXCEPT !.scope = "deleted"]
    <3>1. item \in Endpoints /\ item.scope = "deleted"
      BY DEF TypeOK, Endpoints
    <3>2. StartEdit(s, e, item)
      BY <2>2 DEF DeleteEndpoint
    <3> HIDE DEF item
    <3>3. QED
      BY <3>1, <3>2
  <2>3. QED
    BY <2>1, <2>2
<1>2. MayEdit(a, e)
  BY DEF UpdateEndpoint, DeleteEndpoint
<1>3. ASSUME NEW b \in Accounts
      PROVE  Owning(b)' \subseteq Owning(b)
  <2>1. CASE item.scope = "account" /\ item.owner = b
    <3>1. e \in OwnedBy(b)
      BY <1>1, <1>2, <2>1 DEF MayEdit, OwnedBy
    <3>2. Owning(b)' \subseteq Owning(b) \cup {e}
      BY <1>1, StartAdds
    <3>3. QED
      BY <3>1, <3>2 DEF Owning
  <2>2. CASE ~(item.scope = "account" /\ item.owner = b)
    BY <1>1, <2>2, StartAdds
  <2>3. QED
    BY <2>1, <2>2
<1>4. QED
  BY <1>3, OwningShrinks

LEMMA WriteLimit ==
  ASSUME TypeOK, EditsSound, LimitInv, NEW s \in Editors, WriteEdit(s)
  PROVE  LimitInv'
<1>1. edit[s] # None
  BY DEF WriteEdit
<1>2. ASSUME NEW b \in Accounts
      PROVE  Owning(b)' \subseteq Owning(b)
  <2>1. OwnedBy(b)' \subseteq OwnedBy(b) \cup Adding(b)
    BY <1>1, WriteFacts DEF OwnedBy, Adding
  <2>2. Adding(b)' \subseteq Adding(b)
    BY WriteFacts DEF Adding
  <2>3. QED
    BY <2>1, <2>2 DEF Owning
<1>3. QED
  BY <1>2, OwningShrinks

LEMMA NextLimit == TypeOK /\ TypeOK' /\ EditsSound /\ LimitInv /\ [Next]_vars => LimitInv'
<1> SUFFICES ASSUME TypeOK, TypeOK', EditsSound, LimitInv, [Next]_vars PROVE LimitInv'
  OBVIOUS
<1>1. ASSUME NEW s \in Editors, Edit(s)
      PROVE  LimitInv'
  BY <1>1, CreateLimit, UpdateLimit, WriteLimit DEF Edit
<1>2. ASSUME endpoint' = endpoint, \A s \in Editors : edit'[s] = edit[s] \/ edit'[s] = None
      PROVE  LimitInv'
  <2>1. \A b \in Accounts : Owning(b)' \subseteq Owning(b)
    BY <1>2 DEF Owning, OwnedBy, Adding
  <2>2. QED
    BY <2>1, OwningShrinks
<1>3. ASSUME NEW p \in Publishers, Fanout(p)
      PROVE  UNCHANGED <<endpoint, edit>>
  BY <1>3 DEF Fanout, BeginPublish, StoreDelivery, EndPublish, FailPublish, endpointVars
<1>4. ASSUME NEW t \in Threads, Deliver(t)
      PROVE  UNCHANGED <<endpoint, edit>>
  BY <1>4 DEF Deliver, Attempt, SkipMissing, RejectLegacy, Answer, endpointVars
<1>5. ASSUME \/ \E t \in Testers, a \in Actors, e \in EndpointIds : BeginTest(t, a, e)
             \/ Scan \/ Tick \/ Shutdown \/ UNCHANGED vars
      PROVE  UNCHANGED <<endpoint, edit>>
  BY <1>5 DEF BeginTest, Scan, Tick, Shutdown, vars, endpointVars
<1>6. CASE Stopped \/ Crash
  BY <1>2, <1>6 DEF Stopped, Crash, Restart
<1>7. QED
  BY <1>1, <1>2, <1>3, <1>4, <1>5, <1>6 DEF Next

LEMMA InitLimit == Init => LimitInv
<1> SUFFICES ASSUME Init, NEW b \in Accounts
             PROVE  Cardinality(Owning(b)) <= EndpointLimit + Cardinality(Editors) - 1
  BY DEF LimitInv
<1> DEFINE stored == (1 .. StoredCount) \ (Legacy \cup StoredPlatform)
<1>1. Owning(b) \subseteq stored
  BY DEF Init, Owning, OwnedBy, Adding, StoredEndpoint, NoEndpoint, EndpointIds
<1>2. IsFiniteSet(stored)
  <2>1. IsFiniteSet(1 .. StoredCount)
    BY FS_Interval, SizeAssumption
  <2>2. QED
    BY <2>1, FS_Difference
<1>3. Cardinality(stored) <= EndpointLimit + Cardinality(Editors) - 1
  BY StoreAssumption
<1> HIDE DEF stored
<1>4. Cardinality(Owning(b)) <= Cardinality(stored)
  BY <1>1, <1>2, FS_Subset
<1>5. Cardinality(Owning(b)) \in Nat /\ Cardinality(stored) \in Nat
  BY <1>2, OwningFinite, FS_CardinalityType
<1>6. QED
  BY <1>3, <1>4, <1>5, EditorsCount, SizeAssumption

\* However the request handlers interleave, each of them takes an account at
\* most one endpoint past the limit, except the last.
THEOREM LimitHolds == Spec => []LimitOvershoot
<1>1. LimitInv => LimitOvershoot
  <2> SUFFICES ASSUME LimitInv, NEW a \in Accounts
               PROVE  Cardinality(OwnedBy(a)) <= EndpointLimit + Cardinality(Editors) - 1
    BY DEF LimitOvershoot
  <2>1. Cardinality(Owning(a)) <= EndpointLimit + Cardinality(Editors) - 1
    BY DEF LimitInv
  <2>2. QED
    BY <2>1, OwningFinite, EditorsCount, SizeAssumption
<1>2. QED
  BY <1>1, InitLimit, NextLimit, EditsInvariant, PTL DEF Spec
=============================================================================
