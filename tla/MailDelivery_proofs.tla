------------------------- MODULE MailDelivery_proofs -------------------------
(***************************************************************************)
(* Machine-checked proofs about MailDelivery, for every value of its       *)
(* constants.                                                              *)
(***************************************************************************)
EXTENDS MailDelivery, FiniteSetTheorems, TLAPS

-----------------------------------------------------------------------------
(* The inductive invariant.                                                *)

\* A delivery that may be selected has attempts left.
AttemptsLeft == \A d \in Deliveries : Pending(d) => delivery[d].attempts < MaxAttempts

Present(d) == delivery[d].status # "absent"

\* Routing is under way with the recipients of a message posted: those still to
\* do have no delivery, the others have theirs, and a local recipient about to get
\* its delivery has its Inbox entry.
RoutingSound(s) ==
  LET m == send[s].message
  IN  /\ m <= lastMessage
      /\ send[s].todo \subseteq to[m]
      /\ \A r \in Addresses : r \in send[s].todo => ~Present(<<m, r>>)
      /\ \A r \in Addresses : r \in to[m] \ send[s].todo => Present(<<m, r>>)
      /\ send[s].filed # None => send[s].filed \in send[s].todo /\ <<m, send[s].filed>> \in inbox

\* Each sender routes a message of its own.
RoutesDisjoint ==
  /\ \A s \in Senders : /\ Routing(s) => RoutingSound(s)
                        /\ Unposted(s) => send[s].filed = None
  /\ \A s, t \in Senders : s # t /\ Routing(s) /\ Routing(t) => send[s].message # send[t].message

\* Messages are numbered in order; those to come have no recipients yet.  What
\* was sent from a mailbox has its Sent entry from the start.
MessagesOrdered ==
  /\ \A m \in Messages : m > lastMessage => to[m] = {}
  /\ \A m \in accepted : m <= lastMessage
  /\ byUser \subseteq sentBox

\* A delivery's history by its status: never sent beyond its attempts, and not
\* again once it was delivered.  A local one is settled when it is stored, and
\* a remote one is only "delivered" once Send reported success.
Tallied(d) ==
  /\ ~Present(d) => sends[d] = 0 /\ delivery[d].attempts = 0
  /\ Pending(d) => sends[d] = delivery[d].attempts
  /\ delivery[d].status = "delivering" => delivery[d].attempts > 0
  /\ Held(d) => sends[d] = IF request.sent THEN request.attempts ELSE request.attempts - 1
  /\ sends[d] <= delivery[d].attempts
  /\ delivery[d].status = "failed" => sends[d] = MaxAttempts
  /\ d \in reached => delivery[d].status \in {"delivering", "delivered"} /\ ~Held(d)
  /\ d[2] \in Local => delivery[d].status \in {"absent", "delivered"} /\ delivery[d].attempts = 0
  /\ d[2] \in Remote /\ delivery[d].status = "delivered" => d \in reached

AllTallied == \A d \in Deliveries : Tallied(d)

Stranded == {d \in Deliveries : delivery[d].status = "delivering" /\ ~Held(d)}

StrandedFinite == IsFiniteSet(Stranded)

RoutesInv == TypeOK /\ RoutesDisjoint /\ MessagesOrdered /\ RoutedExactly
QueueInv  == RoutesInv /\ AttemptsLeft /\ CopiesFresh /\ AllTallied

-----------------------------------------------------------------------------
(* Types.                                                                  *)

\* The delay table yields minutes.
LEMMA BackoffNat ==
  ASSUME NEW n \in Nat
  PROVE  Backoff(n) \in Nat
<1>1. Least(n, 8) + 1 \in 1 .. 9
  BY DEF Least
<1>2. \A k \in 1 .. 9 : <<1, 2, 4, 8, 16, 32, 64, 128, 256>>[k] \in Nat
  OBVIOUS
<1>3. QED
  BY <1>1, <1>2 DEF Backoff

\* What deferDelivery stores: given up exactly when no attempt is left.
LEMMA DeferralType ==
  ASSUME NEW n \in 0 .. MaxAttempts
  PROVE  /\ Deferral(n) \in Records
         /\ Deferral(n).attempts = n
         /\ \/ Deferral(n).status = "failed" /\ n = MaxAttempts
            \/ Deferral(n).status = "deferred" /\ n < MaxAttempts
<1> USE SizeAssumption
<1>1. CASE n >= MaxAttempts
  BY <1>1 DEF Deferral, Records, Statuses
<1>2. CASE ~(n >= MaxAttempts)
  <2>1. Backoff(n) \in Nat
    BY BackoffNat
  <2>2. Deferral(n) = [status |-> "deferred", attempts |-> n, wait |-> Backoff(n)]
    BY <1>2 DEF Deferral
  <2>3. QED
    BY <1>2, <2>1, <2>2 DEF Records, Statuses
<1>3. QED
  BY <1>1, <1>2

\* The parts of what a sender has still to do, of a copy and of a request.
LEMMA SendFields ==
  ASSUME TypeOK, NEW s \in Senders, send[s] # None
  PROVE  /\ send[s] \in Sends
         /\ send[s].message \in 0 .. MaxMessages
         /\ send[s].todo \in SUBSET Addresses
         /\ send[s].filed \in Local \cup {None}
         /\ Routing(s) => send[s].message \in Messages
BY SizeAssumption DEF TypeOK, Sends, Routing, Messages

LEMMA CopyFields ==
  ASSUME TypeOK, NEW c \in batch
  PROVE  c \in Copies /\ c.id \in Deliveries /\ c.attempts \in 0 .. MaxAttempts - 1
BY DEF TypeOK, Copies

LEMMA RequestFields ==
  ASSUME TypeOK, request # None
  PROVE  /\ request \in Requests
         /\ request.id \in Deliveries
         /\ request.attempts \in 1 .. MaxAttempts
         /\ request.sent \in BOOLEAN
BY DEF TypeOK, Requests

LEMMA InitType == Init => TypeOK
<1> SUFFICES ASSUME Init PROVE TypeOK
  OBVIOUS
<1> USE SizeAssumption
<1>1. NoDelivery \in Records
  BY DEF NoDelivery, Records, Statuses
<1>2. delivery \in [Deliveries -> Records] /\ sends \in [Deliveries -> Nat]
  BY <1>1 DEF Init
<1>3. to \in [Messages -> SUBSET Addresses] /\ send \in [Senders -> Sends \cup {None}]
  BY DEF Init
<1>4. QED
  BY <1>2, <1>3, NameAssumption DEF Init, TypeOK

\* Writing one delivery.
LEMMA PutType ==
  ASSUME TypeOK, NEW d \in Deliveries, NEW record \in Records, Put(d, record)
  PROVE  delivery' \in [Deliveries -> Records] /\ losses' \in 0 .. MaxLosses
BY SizeAssumption DEF Put, TypeOK

\* Types are kept by every step of a sender.
LEMMA RouteType ==
  ASSUME TypeOK, NEW s \in Senders, Route(s)
  PROVE  TypeOK'
<1> USE SizeAssumption DEF TypeOK, bookVars, workVars
<1>1. ASSUME NEW kind \in Kinds, NEW R \in SUBSET Addresses, StartSend(s, kind, R)
      PROVE  TypeOK'
  <2>1. [kind |-> kind, message |-> 0, todo |-> R, filed |-> None] \in Sends
    BY DEF Sends
  <2>2. send' \in [Senders -> Sends \cup {None}]
    BY <1>1, <2>1 DEF StartSend
  <2>3. QED
    BY <1>1, <2>2 DEF StartSend
<1>2. ASSUME NEW R \in SUBSET Addresses, SendMail(s, R) \/ AcceptSMTP(s, R)
      PROVE  TypeOK'
  BY <1>1, <1>2 DEF SendMail, AcceptSMTP, Kinds
<1>3. ASSUME NEW r \in Addresses, SendSystemMail(s, r)
      PROVE  TypeOK'
  BY <1>1, <1>3 DEF SendSystemMail, Kinds
<1>4. CASE Post(s)
  <2>1. send[s] \in Sends /\ send[s].todo \in SUBSET Addresses
    BY <1>4, SendFields DEF Post, Unposted
  <2>2. PICK m \in Messages : m = lastMessage + 1
    BY <1>4 DEF Post, Messages
  <2>3. m \in 0 .. MaxMessages /\ [send[s] EXCEPT !.message = m] \in Sends
    <3>1. m \in 0 .. MaxMessages
      BY <2>2 DEF Messages
    <3>2. QED
      BY <2>1, <3>1 DEF Sends
  <2>4. /\ send' = [send EXCEPT ![s] = [send[s] EXCEPT !.message = m]]
        /\ lastMessage' = m
        /\ to' = [to EXCEPT ![m] = send[s].todo]
        /\ sentBox' \in {sentBox, sentBox \cup {m}}
        /\ byUser' \in {byUser, byUser \cup {m}}
    BY <1>4, <2>2 DEF Post
  <2>5. send' \in [Senders -> Sends \cup {None}] /\ to' \in [Messages -> SUBSET Addresses]
    BY <2>1, <2>3, <2>4
  <2>6. QED
    BY <1>4, <2>2, <2>3, <2>4, <2>5 DEF Post
<1>5. ASSUME NEW r \in Addresses, FileLocal(s, r)
      PROVE  TypeOK'
  <2>1. send[s] \in Sends /\ send[s].message \in Messages
    BY <1>5, SendFields DEF FileLocal, Routing
  <2>2. r \in Local /\ <<send[s].message, r>> \in Deliveries
    BY <1>5, <2>1 DEF FileLocal, Deliveries, Addresses
  <2>3. [send[s] EXCEPT !.filed = r] \in Sends
    BY <2>1, <2>2 DEF Sends
  <2>4. send' \in [Senders -> Sends \cup {None}] /\ inbox' \in SUBSET Deliveries
    BY <1>5, <2>2, <2>3 DEF FileLocal
  <2>5. QED
    BY <1>5, <2>4 DEF FileLocal
<1>6. ASSUME NEW r \in Addresses, StoreDelivery(s, r)
      PROVE  TypeOK'
  <2>1. send[s] \in Sends /\ send[s].message \in Messages
    BY <1>6, SendFields DEF StoreDelivery, Routing
  <2>2. [send[s] EXCEPT !.todo = @ \ {r}, !.filed = None] \in Sends
    BY <2>1 DEF Sends
  <2>3. QueuedDelivery \in Records /\ LocalDelivery \in Records
    BY DEF QueuedDelivery, LocalDelivery, Records, Statuses
  <2>4. delivery' \in [Deliveries -> Records]
    BY <1>6, <2>3 DEF StoreDelivery
  <2>5. send' = [send EXCEPT ![s] = [send[s] EXCEPT !.todo = @ \ {r}, !.filed = None]]
    BY <1>6 DEF StoreDelivery
  <2>6. send' \in [Senders -> Sends \cup {None}]
    BY <2>2, <2>5
  <2>7. QED
    BY <1>6, <2>4, <2>6 DEF StoreDelivery
<1>7. CASE Finish(s)
  <2>1. send[s].message \in Messages
    BY <1>7, SendFields DEF Finish, Routing
  <2>2. QED
    BY <1>7, <2>1 DEF Finish, Leave
<1>8. CASE Bounce(s) \/ Fail(s)
  BY <1>8 DEF Bounce, Fail, Leave
<1>9. QED
  BY <1>2, <1>3, <1>4, <1>5, <1>6, <1>7, <1>8 DEF Route

\* Types are kept by every step of the worker.
LEMMA ProcessType ==
  ASSUME TypeOK, Process
  PROVE  TypeOK'
<1> USE SizeAssumption DEF TypeOK, bookVars, routeVars
<1>1. ASSUME NEW c \in batch, LoadFailed(c)
      PROVE  TypeOK'
  <2>1. c.id \in Deliveries /\ Deferral(c.attempts) \in Records
    BY CopyFields, DeferralType
  <2>2. delivery' \in [Deliveries -> Records] /\ losses' \in 0 .. MaxLosses
    BY <1>1, <2>1, PutType DEF LoadFailed
  <2>3. QED
    BY <1>1, <2>2 DEF LoadFailed, Take
<1>2. ASSUME NEW c \in batch, LoadMissed(c)
      PROVE  TypeOK'
  <2>1. c.id \in Deliveries /\ Deferral(c.attempts) \in Records
    BY CopyFields, DeferralType
  <2>2. delivery' \in [Deliveries -> Records]
    BY <1>2, <2>1 DEF LoadMissed
  <2>3. QED
    BY <1>2, <2>2 DEF LoadMissed, Take
<1>3. ASSUME NEW c \in batch, Mark(c)
      PROVE  TypeOK'
  <2>1. c.id \in Deliveries /\ c.attempts + 1 \in 1 .. MaxAttempts
    BY CopyFields
  <2>2. [status |-> "delivering", attempts |-> c.attempts + 1, wait |-> 0] \in Records
    BY <2>1 DEF Records, Statuses
  <2>3. delivery' \in [Deliveries -> Records]
    BY <1>3, <2>2 DEF Mark
  <2>4. request' \in Requests
    BY <1>3, <2>1 DEF Mark, Requests
  <2>5. QED
    BY <1>3, <2>3, <2>4 DEF Mark, Take
<1>4. ASSUME NEW c \in batch, MarkFailed(c)
      PROVE  TypeOK'
  BY <1>4 DEF MarkFailed, Take
<1>5. CASE Send
  <2>1. [request EXCEPT !.sent = TRUE] \in Requests /\ request.id \in Deliveries
    BY <1>5, RequestFields DEF Send, Requests
  <2>2. sends' \in [Deliveries -> Nat]
    BY <1>5, <2>1 DEF Send
  <2>3. QED
    BY <1>5, <2>1, <2>2 DEF Send
<1>6. ASSUME NEW ok \in BOOLEAN, Reply(ok)
      PROVE  TypeOK'
  <2>1. request.id \in Deliveries /\ request.attempts \in 1 .. MaxAttempts
    BY <1>6, RequestFields DEF Reply
  <2>2. /\ Deferral(request.attempts) \in Records
        /\ [status |-> "delivered", attempts |-> request.attempts, wait |-> 0] \in Records
    BY <2>1, DeferralType DEF Records, Statuses
  <2>3. delivery' \in [Deliveries -> Records] /\ losses' \in 0 .. MaxLosses
    BY <1>6, <2>1, <2>2, PutType DEF Reply
  <2>4. QED
    BY <1>6, <2>1, <2>3 DEF Reply
<1>7. QED
  BY <1>1, <1>2, <1>3, <1>4, <1>5, <1>6 DEF Process

\* Types are kept by every step; that a delivery that may be selected has
\* attempts left is what bounds the copies Scan takes.
LEMMA NextType == TypeOK /\ AttemptsLeft /\ [Next]_vars => TypeOK'
<1> SUFFICES ASSUME TypeOK, AttemptsLeft, [Next]_vars PROVE TypeOK'
  OBVIOUS
<1> USE SizeAssumption DEF TypeOK, bookVars, routeVars, workVars
<1>1. ASSUME NEW a \in Local, NEW b \in Local, ChangeAddress(a, b)
      PROVE  TypeOK'
  BY <1>1 DEF ChangeAddress
<1>2. ASSUME NEW a \in Local, OpenMailbox(a)
      PROVE  TypeOK'
  BY <1>2 DEF OpenMailbox
<1>3. CASE Scan
  <2>1. \A d \in Deliveries : Due(d) => CopyOf(d) \in Copies
    BY DEF Due, AttemptsLeft, CopyOf, Copies, Records
  <2>2. batch' \in SUBSET Copies
    BY <1>3, <2>1 DEF Scan, Oldest
  <2>3. QED
    BY <1>3, <2>2 DEF Scan, Oldest
<1>4. CASE Tick
  <2>1. \A d \in Deliveries : [delivery[d] EXCEPT !.wait = Tock(@)] \in Records
    BY DEF Records, Tock
  <2>2. delivery' \in [Deliveries -> Records]
    BY <1>4, <2>1 DEF Tick
  <2>3. QED
    BY <1>4, <2>2 DEF Tick
<1>5. CASE Crash
  BY <1>5 DEF Crash
<1>6. CASE UNCHANGED vars
  BY <1>6 DEF vars
<1>7. QED
  BY <1>1, <1>2, <1>3, <1>4, <1>5, <1>6, RouteType, ProcessType DEF Next

-----------------------------------------------------------------------------
(* Routing: what a sender was told is what was stored.                     *)

\* Nothing is stored or removed.
SamePresence == \A d \in Deliveries : Present(d)' <=> Present(d)

\* A sender's routing stays sound while its message is left alone.
LEMMA OthersSound ==
  ASSUME NEW s \in Senders, NEW m, m = send[s].message, RoutingSound(s), send'[s] = send[s],
         m <= lastMessage', to'[m] = to[m], inbox \subseteq inbox',
         \A r \in Addresses : Present(<<m, r>>)' <=> Present(<<m, r>>)
  PROVE  RoutingSound(s)'
<1>1. /\ send[s].todo \subseteq to[m]
      /\ \A r \in Addresses : r \in send[s].todo => ~Present(<<m, r>>)
      /\ \A r \in Addresses : r \in to[m] \ send[s].todo => Present(<<m, r>>)
      /\ send[s].filed # None => send[s].filed \in send[s].todo /\ <<m, send[s].filed>> \in inbox
  BY DEF RoutingSound
<1>2. send'[s].message = m /\ send'[s].todo = send[s].todo /\ send'[s].filed = send[s].filed
  OBVIOUS
<1> HIDE DEF Present
<1>3. QED
  BY <1>1, <1>2 DEF RoutingSound

\* What senders have routed stays sound while nothing is stored and a sender at
\* most stops.
LEMMA RoutesKept ==
  ASSUME TypeOK, RoutesDisjoint, UNCHANGED <<lastMessage, to, inbox>>, SamePresence,
         \A s \in Senders : send'[s] = send[s] \/ send'[s] = None
  PROVE  RoutesDisjoint'
<1>1. ASSUME NEW s \in Senders, Routing(s)'
      PROVE  Routing(s) /\ send'[s] = send[s] /\ RoutingSound(s)'
  <2>1. send'[s] = send[s] /\ Routing(s)
    BY <1>1 DEF Routing
  <2>2. RoutingSound(s) /\ send[s].message \in Messages
    BY <2>1, SendFields DEF RoutesDisjoint, Routing
  <2>3. \A r \in Addresses : <<send[s].message, r>> \in Deliveries
    BY <2>2 DEF Deliveries
  <2>4. RoutingSound(s)'
    BY <2>1, <2>2, <2>3 DEF RoutingSound, SamePresence
  <2>5. QED
    BY <2>1, <2>4
<1>2. \A s \in Senders : Unposted(s)' => send'[s].filed = None
  BY DEF Unposted, RoutesDisjoint
<1>3. QED
  BY <1>1, <1>2 DEF RoutesDisjoint

\* What is stored stays exact while nothing is stored and only messages routed
\* to the end are accepted.
LEMMA RoutedKept ==
  ASSUME TypeOK, RoutedExactly, MessagesOrdered,
         UNCHANGED <<lastMessage, to, inbox, sentBox, byUser>>, SamePresence,
         \A m \in accepted' : \/ m \in accepted
                              \/ /\ m \in Messages /\ m <= lastMessage
                                 /\ \A r \in to[m] : Present(<<m, r>>)
  PROVE  RoutedExactly' /\ MessagesOrdered'
<1>1. \A m \in Messages, r \in Addresses : <<m, r>> \in Deliveries
  BY DEF Deliveries
<1>2. \A m \in Messages : to[m] \subseteq Addresses
  BY DEF TypeOK
<1>3. accepted \subseteq Messages
  BY DEF TypeOK
<1>4. \A m \in Messages, r \in Addresses :
        delivery'[<<m, r>>].status # "absent" <=> delivery[<<m, r>>].status # "absent"
  BY <1>1 DEF SamePresence, Present
<1>5. RoutedExactly'
  <2>1. ASSUME NEW m \in accepted'
        PROVE  /\ m \in byUser' => m \in sentBox'
               /\ \A r \in to'[m] : delivery'[<<m, r>>].status # "absent"
    <3>1. m \in Messages /\ \A r \in to[m] : delivery[<<m, r>>].status # "absent"
      BY <1>3 DEF RoutedExactly, Present
    <3>2. QED
      BY <1>2, <1>4, <3>1 DEF MessagesOrdered
  <2>2. QED
    BY <1>4, <2>1 DEF RoutedExactly
<1>6. QED
  BY <1>5 DEF MessagesOrdered

LEMMA StartRoutes ==
  ASSUME RoutesInv, NEW s \in Senders, NEW kind \in Kinds, NEW R \in SUBSET Addresses,
         StartSend(s, kind, R)
  PROVE  RoutesDisjoint' /\ RoutedExactly' /\ MessagesOrdered'
<1> USE DEF RoutesInv
<1>1. SamePresence
  BY DEF StartSend, SamePresence, Present
<1>2. RoutedExactly' /\ MessagesOrdered'
  BY <1>1, RoutedKept DEF StartSend
<1>3. /\ send'[s] = [kind |-> kind, message |-> 0, todo |-> R, filed |-> None]
      /\ \A t \in Senders : t # s => send'[t] = send[t]
  BY DEF StartSend, TypeOK
<1>4. ~Routing(s)' /\ send'[s].filed = None
  BY <1>3 DEF Routing
<1>5. ASSUME NEW t \in Senders, t # s
      PROVE  /\ Routing(t)' => Routing(t) /\ RoutingSound(t)'
             /\ Unposted(t)' => send'[t].filed = None
  <2>1. send'[t] = send[t] /\ (Routing(t)' <=> Routing(t)) /\ (Unposted(t)' <=> Unposted(t))
    BY <1>3, <1>5 DEF Routing, Unposted
  <2>2. Routing(t) => RoutingSound(t)'
    BY <2>1 DEF StartSend, RoutesDisjoint, RoutingSound, Present
  <2>3. QED
    BY <2>1, <2>2 DEF RoutesDisjoint
<1>6. QED
  BY <1>2, <1>3, <1>4, <1>5 DEF RoutesDisjoint

LEMMA PostRoutes ==
  ASSUME RoutesInv, NEW s \in Senders, Post(s)
  PROVE  RoutesDisjoint' /\ RoutedExactly' /\ MessagesOrdered'
<1> USE DEF RoutesInv
<1>1. PICK m \in Messages : m = lastMessage + 1
  BY SizeAssumption DEF Post, TypeOK, Messages
<1>2. /\ lastMessage' = m
      /\ to' = [to EXCEPT ![m] = send[s].todo]
      /\ send' = [send EXCEPT ![s].message = m]
      /\ UNCHANGED <<inbox, accepted, delivery>>
      /\ Unposted(s)
  BY <1>1 DEF Post
<1>3. send[s] \in Sends /\ send[s].todo \in SUBSET Addresses /\ send[s].filed = None
  BY <1>2, SendFields DEF Unposted, RoutesDisjoint
<1>4. /\ to[m] = {} /\ to'[m] = send[s].todo
      /\ \A n \in Messages : n # m => to'[n] = to[n]
  BY <1>1, <1>2 DEF MessagesOrdered, TypeOK, Messages
<1>5. \A r \in Addresses : ~Present(<<m, r>>) /\ <<m, r>> \notin inbox
  BY <1>4 DEF RoutedExactly, Present
<1>6. send'[s] = [send[s] EXCEPT !.message = m] /\ \A t \in Senders : t # s => send'[t] = send[t]
  BY <1>2 DEF TypeOK
<1>7. send'[s].message = m /\ send'[s].todo = send[s].todo /\ send'[s].filed = None
  BY <1>3, <1>6 DEF Sends
<1>8. RoutingSound(s)'
  BY <1>2, <1>4, <1>5, <1>7 DEF RoutingSound, Present, TypeOK, Messages
<1>9. ASSUME NEW t \in Senders, t # s, Routing(t)'
      PROVE  Routing(t) /\ send'[t].message # m /\ RoutingSound(t)'
  <2>1. send'[t] = send[t] /\ Routing(t) /\ RoutingSound(t) /\ send[t].message \in Messages
    BY <1>6, <1>9, SendFields DEF Routing, RoutesDisjoint
  <2>2. send[t].message <= lastMessage /\ lastMessage \in Nat /\ send[t].message \in Nat
    BY <2>1 DEF RoutingSound, TypeOK, Messages
  <2>3. send[t].message # m /\ send[t].message <= m
    BY <1>1, <2>2
  <2>4. to'[send[t].message] = to[send[t].message]
    BY <1>4, <2>1, <2>3
  <2>5. delivery' = delivery /\ inbox' = inbox /\ lastMessage' = m
    BY <1>2
  <2>6. RoutingSound(t)'
    <3> HIDE DEF RoutesInv
    <3>1. QED
      BY <2>1, <2>3, <2>4, <2>5 DEF RoutingSound, Present
  <2>7. QED
    BY <2>1, <2>3, <2>6
<1>10. \A t \in Senders : Unposted(t)' => send'[t].filed = None
  BY <1>6, <1>7 DEF Unposted, RoutesDisjoint
<1>11. RoutesDisjoint'
  BY <1>6, <1>7, <1>8, <1>9, <1>10, ZenonT(60) DEF RoutesDisjoint
<1>12. byUser' \subseteq sentBox'
  BY <1>1 DEF Post, MessagesOrdered
<1>13. \A n \in accepted : n \in Messages /\ n # m /\ n <= lastMessage
  BY <1>1 DEF MessagesOrdered, TypeOK, Messages
<1>14. MessagesOrdered'
  <2>1. \A n \in Messages : n > m => to'[n] = {}
    BY <1>1, <1>4 DEF MessagesOrdered, TypeOK, Messages
  <2>2. \A n \in accepted : n <= m
    BY <1>1, <1>13 DEF TypeOK, Messages
  <2>3. QED
    BY <1>2, <1>12, <2>1, <2>2 DEF MessagesOrdered
<1>15. RoutedExactly'
  <2>1. ASSUME NEW n \in accepted
        PROVE  \A r \in to'[n] : delivery'[<<n, r>>].status # "absent"
    BY <1>2, <1>4, <1>13 DEF RoutedExactly
  <2>2. ASSUME NEW n \in Messages, NEW r \in Addresses
        PROVE  /\ <<n, r>> \in inbox' => r \in to'[n] \cap Local
               /\ delivery'[<<n, r>>].status # "absent" =>
                    r \in to'[n] /\ (r \in Local => <<n, r>> \in inbox')
    <3>1. CASE n = m
      BY <1>2, <1>5, <3>1 DEF Present
    <3>2. CASE n # m
      BY <1>2, <1>4, <3>2 DEF RoutedExactly
    <3>3. QED
      BY <3>1, <3>2
  <2>3. QED
    BY <1>2, <1>12, <2>1, <2>2 DEF RoutedExactly
<1>16. QED
  BY <1>11, <1>14, <1>15

LEMMA FileRoutes ==
  ASSUME RoutesInv, NEW s \in Senders, NEW r \in Addresses, FileLocal(s, r)
  PROVE  RoutesDisjoint' /\ RoutedExactly' /\ MessagesOrdered'
<1> USE DEF RoutesInv
<1>1. PICK m \in Messages : m = send[s].message
  BY SendFields DEF FileLocal, Routing
<1>2. /\ Routing(s) /\ RoutingSound(s)
      /\ r \in send[s].todo /\ r \in Local /\ r \in to[m]
      /\ inbox' = inbox \cup {<<m, r>>}
      /\ send' = [send EXCEPT ![s].filed = r]
      /\ UNCHANGED <<lastMessage, to, sentBox, byUser, accepted, delivery>>
  BY <1>1 DEF FileLocal, RoutesDisjoint, RoutingSound, TypeOK
<1>3. send[s] \in Sends
  BY <1>2, SendFields DEF Routing
<1>4. /\ send'[s].message = m /\ send'[s].todo = send[s].todo /\ send'[s].filed = r
      /\ \A t \in Senders : t # s => send'[t] = send[t]
  BY <1>1, <1>2, <1>3 DEF TypeOK, Sends
<1>5. RoutingSound(s)'
  <2> HIDE DEF RoutesInv
  <2>1. QED
    BY <1>1, <1>2, <1>4 DEF RoutingSound, Present
<1>6. ASSUME NEW t \in Senders, t # s
      PROVE  /\ Routing(t)' => Routing(t) /\ RoutingSound(t)'
             /\ Unposted(t)' => send'[t].filed = None
  <2>1. send'[t] = send[t] /\ (Routing(t)' <=> Routing(t)) /\ (Unposted(t)' <=> Unposted(t))
    BY <1>4, <1>6 DEF Routing, Unposted
  <2>2. Routing(t) => RoutingSound(t)
    BY DEF RoutesDisjoint
  <2>3. Routing(t) => RoutingSound(t)'
    BY <1>2, <2>1, <2>2, OthersSound DEF RoutingSound, Present
  <2>4. QED
    BY <2>1, <2>3 DEF RoutesDisjoint
<1>7. m # 0 /\ ~Unposted(s)'
  BY <1>4 DEF Unposted, Messages
<1>8. RoutesDisjoint'
  BY <1>1, <1>2, <1>4, <1>5, <1>6, <1>7 DEF RoutesDisjoint
<1>9. MessagesOrdered'
  BY <1>2 DEF MessagesOrdered
<1>10. RoutedExactly'
  <2>1. \A n \in Messages, a \in Addresses : <<n, a>> \in inbox' => a \in to[n] \cap Local
    BY <1>2 DEF RoutedExactly
  <2>2. QED
    BY <1>2, <2>1 DEF RoutedExactly
<1>11. QED
  BY <1>8, <1>9, <1>10

\* A delivery is stored once, for a recipient, and a local one's Inbox entry
\* is there by then.
LEMMA StoreFacts ==
  ASSUME RoutesInv, NEW s \in Senders, NEW r \in Addresses, StoreDelivery(s, r)
  PROVE  /\ Routing(s) /\ RoutingSound(s)
         /\ send[s] \in Sends /\ send[s].message \in Messages
         /\ <<send[s].message, r>> \in Deliveries
         /\ r \in send[s].todo /\ r \in to[send[s].message]
         /\ r \in Local => <<send[s].message, r>> \in inbox
         /\ ~Present(<<send[s].message, r>>)
         /\ delivery' = [delivery EXCEPT ![<<send[s].message, r>>] =
                           IF r \in Remote THEN QueuedDelivery ELSE LocalDelivery]
<1> USE DEF RoutesInv
<1>1. Routing(s) /\ RoutingSound(s) /\ send[s] \in Sends /\ send[s].message \in Messages
  BY SendFields DEF StoreDelivery, RoutesDisjoint, Routing
<1>2. <<send[s].message, r>> \in Deliveries
  BY <1>1 DEF Deliveries
<1>3. r \in send[s].todo /\ (r \in Local => <<send[s].message, r>> \in inbox)
  <2>1. CASE send[s].filed = None /\ r \in send[s].todo \cap Remote
    BY <2>1, NameAssumption
  <2>2. CASE send[s].filed = r
    <3>1. r # None
      BY NameAssumption
    <3>2. QED
      BY <1>1, <2>2, <3>1 DEF RoutingSound
  <2>3. QED
    BY <2>1, <2>2 DEF StoreDelivery
<1>4. QED
  BY <1>1, <1>2, <1>3 DEF StoreDelivery, RoutingSound

LEMMA StoreRoutes ==
  ASSUME RoutesInv, NEW s \in Senders, NEW r \in Addresses, StoreDelivery(s, r)
  PROVE  RoutesDisjoint' /\ RoutedExactly' /\ MessagesOrdered'
<1> USE DEF RoutesInv
<1>1. PICK m \in Messages, d \in Deliveries : m = send[s].message /\ d = <<m, r>>
  BY StoreFacts
<1>2. /\ Routing(s) /\ RoutingSound(s) /\ send[s] \in Sends
      /\ r \in send[s].todo /\ r \in to[m] /\ (r \in Local => d \in inbox)
      /\ ~Present(d)
  BY <1>1, StoreFacts
<1>3. /\ \A f \in Deliveries : f # d => delivery'[f] = delivery[f]
      /\ delivery'[d].status \in {"queued", "delivered"}
  BY <1>1, StoreFacts DEF TypeOK, QueuedDelivery, LocalDelivery
<1>4. Present(d)' /\ \A f \in Deliveries : f # d => (Present(f)' <=> Present(f))
  BY <1>3 DEF Present
<1>5. /\ send' = [send EXCEPT ![s] = [send[s] EXCEPT !.todo = @ \ {r}, !.filed = None]]
      /\ UNCHANGED <<lastMessage, to, sentBox, byUser, inbox, accepted>>
  BY DEF StoreDelivery
<1>6. /\ send'[s].message = m /\ send'[s].todo = send[s].todo \ {r} /\ send'[s].filed = None
      /\ \A t \in Senders : t # s => send'[t] = send[t]
  BY <1>1, <1>2, <1>5 DEF TypeOK, Sends
<1>7. \A n \in Messages, a \in Addresses :
        /\ <<n, a>> \in Deliveries
        /\ <<n, a>> # d => (Present(<<n, a>>)' <=> Present(<<n, a>>))
        /\ <<n, a>> = d <=> n = m /\ a = r
  BY <1>1, <1>4 DEF Deliveries
<1>8. RoutingSound(s)'
  <2> HIDE DEF RoutesInv
  <2>1. \A a \in Addresses : a \in send[s].todo \ {r} => ~Present(<<m, a>>)'
    BY <1>1, <1>2, <1>7 DEF RoutingSound
  <2>2. \A a \in Addresses : a \in to[m] \ (send[s].todo \ {r}) => Present(<<m, a>>)'
    BY <1>1, <1>2, <1>4, <1>7 DEF RoutingSound
  <2>3. QED
    BY <1>1, <1>2, <1>5, <1>6, <2>1, <2>2 DEF RoutingSound
<1>9. ASSUME NEW t \in Senders, t # s
      PROVE  /\ Routing(t)' => Routing(t) /\ RoutingSound(t)'
             /\ Unposted(t)' => send'[t].filed = None
  <2>1. send'[t] = send[t] /\ (Routing(t)' <=> Routing(t)) /\ (Unposted(t)' <=> Unposted(t))
    BY <1>6, <1>9 DEF Routing, Unposted
  <2>2. ASSUME Routing(t)
        PROVE  RoutingSound(t)'
    <3>1. RoutingSound(t) /\ send[t].message # m
      BY <1>1, <1>2, <1>9, <2>2 DEF RoutesDisjoint
    <3>2. PICK n \in Messages : n = send[t].message
      BY <2>2, SendFields DEF Routing
    <3>3. \A a \in Addresses : Present(<<n, a>>)' <=> Present(<<n, a>>)
      BY <1>7, <3>1, <3>2
    <3>4. n <= lastMessage
      BY <3>1, <3>2 DEF RoutingSound
    <3> HIDE DEF RoutesInv
    <3>5. QED
      BY <1>5, <2>1, <3>1, <3>2, <3>3, <3>4, OthersSound
  <2>3. QED
    BY <2>1, <2>2 DEF RoutesDisjoint
<1>10. RoutesDisjoint'
  <2>1. m # 0 /\ ~Unposted(s)'
    BY <1>6 DEF Unposted, Messages
  <2>2. QED
    BY <1>1, <1>2, <1>6, <1>8, <1>9, <2>1 DEF RoutesDisjoint
<1>11. MessagesOrdered'
  BY <1>5 DEF MessagesOrdered
<1>12. RoutedExactly'
  <2>1. ASSUME NEW n \in Messages, NEW a \in Addresses
        PROVE  /\ Present(<<n, a>>) => Present(<<n, a>>)'
               /\ Present(<<n, a>>)' => a \in to[n] /\ (a \in Local => <<n, a>> \in inbox)
    <3>1. CASE <<n, a>> = d
      BY <1>1, <1>2, <1>4, <1>7, <3>1
    <3>2. CASE <<n, a>> # d
      BY <1>7, <3>2 DEF RoutedExactly, Present
    <3>3. QED
      BY <3>1, <3>2
  <2>2. \A n \in accepted : n \in Messages /\ to[n] \subseteq Addresses
    BY DEF TypeOK
  <2>3. QED
    BY <1>5, <2>1, <2>2 DEF RoutedExactly, Present
<1>13. QED
  BY <1>10, <1>11, <1>12

\* A sender that stops, however it does, leaves what it has routed.
LEMMA StopRoutes ==
  ASSUME RoutesInv, UNCHANGED <<lastMessage, to, sentBox, inbox, byUser>>, SamePresence,
         \A s \in Senders : send'[s] = send[s] \/ send'[s] = None,
         accepted' = accepted
  PROVE  RoutesDisjoint' /\ RoutedExactly' /\ MessagesOrdered'
<1>1. \A m \in accepted' : m \in accepted
  OBVIOUS
<1>2. QED
  BY <1>1, RoutesKept, RoutedKept DEF RoutesInv

LEMMA FinishRoutes ==
  ASSUME RoutesInv, NEW s \in Senders, Finish(s)
  PROVE  RoutesDisjoint' /\ RoutedExactly' /\ MessagesOrdered'
<1> USE DEF RoutesInv
<1>1. SamePresence
  BY DEF Finish, Leave, SamePresence, Present
<1>2. \A t \in Senders : send'[t] = send[t] \/ send'[t] = None
  BY DEF Finish, Leave, TypeOK
<1>3. PICK m \in Messages : m = send[s].message /\ accepted' = accepted \cup {m}
  BY SendFields DEF Finish, Routing
<1>4. m <= lastMessage /\ \A r \in to[m] : Present(<<m, r>>)
  <2>1. RoutingSound(s) /\ send[s].todo = {}
    BY DEF Finish, RoutesDisjoint
  <2>2. to[m] \subseteq Addresses
    BY DEF TypeOK
  <2>3. QED
    BY <1>3, <2>1, <2>2 DEF RoutingSound
<1>5. UNCHANGED <<lastMessage, to, inbox, sentBox, byUser>>
  BY DEF Finish, Leave
<1>6. RoutesDisjoint'
  BY <1>1, <1>2, <1>5, RoutesKept
<1>7. RoutedExactly' /\ MessagesOrdered'
  BY <1>1, <1>3, <1>4, <1>5, RoutedKept
<1>8. QED
  BY <1>6, <1>7

-----------------------------------------------------------------------------
(* The queue: copies are fresh and every delivery is accounted for.        *)

\* A step that leaves a delivery's record, its history and the request alone.
Left(d) ==
  /\ delivery'[d].status = delivery[d].status
  /\ delivery'[d].attempts = delivery[d].attempts
  /\ sends'[d] = sends[d]
  /\ d \in reached' => d \in reached
  /\ d \in reached => d \in reached'

\* A delivery stays accounted for when it is left alone, whether the worker goes
\* on with its request, ends it or takes another one.
LEMMA LeftTallied ==
  ASSUME NEW d \in Deliveries, Tallied(d), Left(d), request' = request \/ ~Held(d)'
  PROVE  Tallied(d)'
<1>1. CASE request' = request
  BY <1>1 DEF Tallied, Left, Held, Present, Pending
<1>2. CASE ~Held(d)'
  BY <1>2 DEF Tallied, Left, Present, Pending
<1>3. QED
  BY <1>1, <1>2

\* Copies of the same delivery are the same copy, and what the worker is
\* sending is not among them.
LEMMA CopiesDiffer ==
  ASSUME TypeOK, CopiesFresh
  PROVE  /\ \A c, o \in batch : c.id = o.id => c = o
         /\ request # None => \A c \in batch : c.id # request.id
<1>1. \A c, o \in batch : c.id = o.id => c = o
  BY DEF TypeOK, CopiesFresh, Copies
<1>2. request # None => \A c \in batch : c.id # request.id
  BY DEF CopiesFresh, Pending
<1>3. QED
  BY <1>1, <1>2

\* Left alone, a delivery still has attempts left.
LEMMA LeftAttempts ==
  ASSUME NEW d \in Deliveries, AttemptsLeft, Left(d)
  PROVE  Pending(d)' => delivery'[d].attempts < MaxAttempts
BY DEF AttemptsLeft, Left, Pending

QueueKept == AttemptsLeft' /\ CopiesFresh' /\ AllTallied'

\* Steps that leave every delivery alone, and give the worker no new copy.
LEMMA LeftKept ==
  ASSUME QueueInv, \A d \in Deliveries : Left(d), batch' \subseteq batch,
         request' = request \/ request' = None
  PROVE  QueueKept
<1> USE DEF QueueInv, RoutesInv
<1>1. AttemptsLeft'
  BY LeftAttempts DEF AttemptsLeft
<1>2. \A c \in batch' : c \in batch /\ c.id \in Deliveries
  BY CopyFields
<1>3. CopiesFresh'
  <2>1. ASSUME NEW c \in batch'
        PROVE  Pending(c.id)' /\ delivery'[c.id].attempts = c.attempts
    BY <1>2 DEF CopiesFresh, Left, Pending
  <2>2. ASSUME request' # None
        PROVE  /\ delivery'[request'.id].status = "delivering"
               /\ delivery'[request'.id].attempts = request'.attempts
    BY <2>2, RequestFields DEF CopiesFresh, Left
  <2>3. QED
    BY <2>1, <2>2 DEF CopiesFresh
<1>4. AllTallied'
  BY LeftTallied DEF AllTallied, Held
<1>5. QED
  BY <1>1, <1>3, <1>4 DEF QueueKept

\* Steps that write one delivery, which is neither copied nor being sent after.
LEMMA WriteKept ==
  ASSUME QueueInv, NEW d \in Deliveries, \A f \in Deliveries \ {d} : Left(f),
         Tallied(d)', Pending(d)' => delivery'[d].attempts < MaxAttempts,
         batch' \subseteq batch, \A c \in batch' : c.id # d,
         request' = request \/ request' = None,
         request' # None => request'.id # d
  PROVE  QueueKept
<1> USE DEF QueueInv, RoutesInv
<1>1. AttemptsLeft'
  BY LeftAttempts DEF AttemptsLeft
<1>2. \A c \in batch' : c \in batch /\ c.id \in Deliveries \ {d}
  BY CopyFields
<1>3. CopiesFresh'
  <2>1. ASSUME NEW c \in batch'
        PROVE  Pending(c.id)' /\ delivery'[c.id].attempts = c.attempts
    BY <1>2 DEF CopiesFresh, Left, Pending
  <2>2. ASSUME request' # None
        PROVE  /\ delivery'[request'.id].status = "delivering"
               /\ delivery'[request'.id].attempts = request'.attempts
    BY <2>2, RequestFields DEF CopiesFresh, Left
  <2>3. QED
    BY <2>1, <2>2 DEF CopiesFresh
<1>4. AllTallied'
  <2>1. ASSUME NEW f \in Deliveries \ {d}
        PROVE  Tallied(f)'
    <3>1. request' = request \/ ~Held(f)'
      BY DEF Held
    <3>2. QED
      BY <3>1, LeftTallied DEF AllTallied
  <2>2. QED
    BY <2>1 DEF AllTallied
<1>5. QED
  BY <1>1, <1>3, <1>4 DEF QueueKept

\* A sender's steps but StoreDelivery leave the queue alone.
LEMMA RouteLeft ==
  ASSUME NEW s \in Senders, Route(s), \A r \in Addresses : ~StoreDelivery(s, r)
  PROVE  UNCHANGED <<delivery, workVars>>
BY DEF Route, SendMail, AcceptSMTP, SendSystemMail, StartSend, Post, FileLocal, Finish, Bounce,
       Fail, Leave

LEMMA StoreQueue ==
  ASSUME QueueInv, NEW s \in Senders, NEW r \in Addresses, StoreDelivery(s, r)
  PROVE  QueueKept
<1> USE DEF QueueInv, RoutesInv
<1>1. PICK d \in Deliveries : d = <<send[s].message, r>>
  BY StoreFacts
<1>2. /\ ~Present(d)
      /\ delivery' = [delivery EXCEPT ![d] = IF r \in Remote THEN QueuedDelivery ELSE LocalDelivery]
      /\ d[2] = r
  BY <1>1, StoreFacts
<1>3. UNCHANGED <<batch, request, sends, reached>>
  BY DEF StoreDelivery, workVars
<1>4. \A f \in Deliveries \ {d} : Left(f)
  BY <1>2, <1>3 DEF Left, TypeOK
<1>5. sends[d] = 0 /\ d \notin reached /\ ~Held(d)
  BY <1>2 DEF AllTallied, Tallied, CopiesFresh, Held, Present
<1>6. delivery'[d] = IF r \in Remote THEN QueuedDelivery ELSE LocalDelivery
  BY <1>2 DEF TypeOK
<1>7. sends'[d] = 0 /\ d \notin reached' /\ ~Held(d)'
  BY <1>3, <1>5 DEF Held
<1>8. Tallied(d)'
  <2>1. CASE r \in Remote
    <3>1. delivery'[d].status = "queued" /\ delivery'[d].attempts = 0 /\ r \notin Local
      BY <1>6, <2>1, NameAssumption DEF QueuedDelivery
    <3>2. QED
      BY <1>2, <1>7, <3>1 DEF Tallied, Present, Pending
  <2>2. CASE r \notin Remote
    <3>1. delivery'[d].status = "delivered" /\ delivery'[d].attempts = 0
      BY <1>6, <2>2 DEF LocalDelivery
    <3>2. QED
      BY <1>2, <1>7, <2>2, <3>1 DEF Tallied, Present, Pending
  <2>3. QED
    BY <2>1, <2>2
<1>9. delivery'[d].attempts < MaxAttempts
  BY <1>6, SizeAssumption DEF QueuedDelivery, LocalDelivery
<1>10. (\A c \in batch : c.id # d) /\ (request # None => request.id # d)
  BY <1>2 DEF CopiesFresh, Present, Pending
<1>11. QED
  BY <1>3, <1>4, <1>8, <1>9, <1>10, WriteKept

\* Putting the record of a copy back for later.
LEMMA LoadQueue ==
  ASSUME QueueInv, NEW c \in batch, Take(c), UNCHANGED request,
         delivery' = delivery \/ delivery' = [delivery EXCEPT ![c.id] = Deferral(c.attempts)]
  PROVE  QueueKept
<1> USE DEF QueueInv, RoutesInv
<1>1. c.id \in Deliveries /\ c.attempts \in 0 .. MaxAttempts - 1
  BY CopyFields
<1>2. /\ request = None /\ batch' = batch \ {c}
      /\ UNCHANGED <<request, sends, reached>>
  BY DEF Take
<1>3. CASE delivery' = delivery
  <2>1. \A f \in Deliveries : Left(f)
    BY <1>2, <1>3 DEF Left
  <2>2. QED
    BY <1>2, <2>1, LeftKept
<1>4. CASE delivery' = [delivery EXCEPT ![c.id] = Deferral(c.attempts)]
  <2>1. \A f \in Deliveries \ {c.id} : Left(f)
    BY <1>2, <1>4 DEF Left, TypeOK
  <2>2. c.attempts \in 0 .. MaxAttempts /\ c.attempts < MaxAttempts
    BY <1>1, SizeAssumption
  <2>3. /\ delivery'[c.id].status = "deferred"
        /\ delivery'[c.id].attempts = c.attempts
    BY <1>1, <1>4, <2>2, DeferralType DEF TypeOK
  <2>4. Pending(c.id) /\ delivery[c.id].attempts = c.attempts
    BY DEF CopiesFresh
  <2>5. sends[c.id] = c.attempts /\ c.id \notin reached /\ c.id[2] \notin Local
    BY <1>1, <2>4 DEF AllTallied, Tallied, Pending
  <2>6. ~Held(c.id)'
    BY <1>2 DEF Held
  <2>7. Tallied(c.id)'
    BY <1>1, <1>2, <2>3, <2>5, <2>6 DEF Tallied, Present, Pending
  <2>8. \A o \in batch' : o.id # c.id
    BY <1>2, CopiesDiffer
  <2>9. QED
    BY <1>1, <1>2, <2>1, <2>2, <2>3, <2>7, <2>8, WriteKept
<1>5. QED
  BY <1>3, <1>4

\* The attempt is on record, one more than was sent, before anything is sent.
LEMMA MarkQueue ==
  ASSUME QueueInv, NEW c \in batch, Mark(c)
  PROVE  QueueKept
<1> USE DEF QueueInv, RoutesInv
<1>1. c.id \in Deliveries /\ c.attempts \in 0 .. MaxAttempts - 1
  BY CopyFields
<1>2. /\ request = None /\ batch' = batch \ {c}
      /\ UNCHANGED <<sends, reached>>
      /\ request' = [id |-> c.id, attempts |-> c.attempts + 1, sent |-> FALSE]
      /\ delivery' = [delivery EXCEPT ![c.id] = [status |-> "delivering",
                                                 attempts |-> c.attempts + 1, wait |-> 0]]
  BY DEF Mark, Take
<1>3. \A f \in Deliveries \ {c.id} : Left(f)
  BY <1>2 DEF Left, TypeOK
<1>4. delivery'[c.id].status = "delivering" /\ delivery'[c.id].attempts = c.attempts + 1
  BY <1>1, <1>2 DEF TypeOK
<1>5. Pending(c.id) /\ delivery[c.id].attempts = c.attempts
  BY DEF CopiesFresh
<1>6. sends[c.id] = c.attempts /\ c.id \notin reached /\ c.id[2] \notin Local
  BY <1>1, <1>5 DEF AllTallied, Tallied, Pending
<1>7. Tallied(c.id)'
  <2>1. request'.id = c.id /\ request'.attempts = c.attempts + 1 /\ request'.sent = FALSE
    BY <1>2
  <2>2. sends'[c.id] = c.attempts /\ c.id \notin reached'
    BY <1>2, <1>6
  <2>3. QED
    BY <1>1, <1>4, <1>6, <2>1, <2>2 DEF Tallied, Present, Pending, Held
<1>8. \A o \in batch' : o \in batch /\ o.id # c.id /\ o.id \in Deliveries
  BY <1>2, CopiesDiffer, CopyFields
<1>9. AttemptsLeft'
  <2>1. ~Pending(c.id)'
    BY <1>4 DEF Pending
  <2>2. QED
    BY <1>3, <2>1, LeftAttempts DEF AttemptsLeft
<1>10. CopiesFresh'
  <2>1. \A o \in batch' : Pending(o.id)' /\ delivery'[o.id].attempts = o.attempts
    BY <1>3, <1>8 DEF CopiesFresh, Left, Pending
  <2>2. QED
    BY <1>2, <1>4, <2>1 DEF CopiesFresh
<1>11. AllTallied'
  <2>1. ASSUME NEW f \in Deliveries \ {c.id}
        PROVE  Tallied(f)'
    <3>1. ~Held(f)'
      BY <1>2 DEF Held
    <3>2. QED
      BY <1>3, <3>1, LeftTallied DEF AllTallied
  <2>2. QED
    BY <1>7, <2>1 DEF AllTallied
<1>12. QED
  BY <1>9, <1>10, <1>11 DEF QueueKept

LEMMA SendQueue ==
  ASSUME QueueInv, Send
  PROVE  QueueKept
<1> USE DEF QueueInv, RoutesInv
<1>1. /\ request \in Requests /\ request.id \in Deliveries /\ ~request.sent
      /\ request.attempts \in 1 .. MaxAttempts
  BY RequestFields DEF Send
<1>2. /\ request' = [request EXCEPT !.sent = TRUE]
      /\ sends' = [sends EXCEPT ![request.id] = @ + 1]
      /\ UNCHANGED <<batch, reached, delivery>>
  BY DEF Send
<1>3. request'.id = request.id /\ request'.attempts = request.attempts /\ request'.sent = TRUE
  BY <1>1, <1>2 DEF Requests
<1>4. request # None /\ request' # None
  BY <1>1, <1>2, NameAssumption DEF Send, Requests
<1>5. /\ sends[request.id] = request.attempts - 1 /\ request.id \notin reached
      /\ delivery[request.id].status = "delivering"
      /\ delivery[request.id].attempts = request.attempts
  BY <1>1, <1>4 DEF AllTallied, Tallied, Held, CopiesFresh
<1>6. sends'[request.id] = request.attempts
  BY <1>1, <1>2, <1>5 DEF TypeOK
<1>7. AttemptsLeft'
  BY <1>2 DEF AttemptsLeft, Pending
<1>8. CopiesFresh'
  BY <1>2, <1>3, <1>4 DEF CopiesFresh, Pending
<1>9. ASSUME NEW f \in Deliveries
      PROVE  Tallied(f)'
  <2>1. CASE f = request.id
    <3>1. Tallied(f)
      BY DEF AllTallied
    <3>2. delivery' = delivery /\ reached' = reached
      BY <1>2
    <3>3. QED
      BY <1>1, <1>3, <1>5, <1>6, <2>1, <3>1, <3>2 DEF Tallied, Present, Pending, Held
  <2>2. CASE f # request.id
    <3>1. Left(f)
      BY <1>2, <2>2 DEF Left, TypeOK
    <3>2. ~Held(f)'
      BY <1>3, <2>2 DEF Held
    <3>3. QED
      BY <3>1, <3>2, LeftTallied DEF AllTallied
  <2>3. QED
    BY <2>1, <2>2
<1>10. QED
  BY <1>7, <1>8, <1>9 DEF QueueKept, AllTallied

\* What is known of the delivery being sent when Send returns.
LEMMA ReplyFacts ==
  ASSUME QueueInv, NEW ok \in BOOLEAN, Reply(ok)
  PROVE  /\ request.id \in Deliveries /\ request.attempts \in 1 .. MaxAttempts
         /\ delivery[request.id].status = "delivering"
         /\ delivery[request.id].attempts = request.attempts
         /\ sends[request.id] = request.attempts
         /\ request.id \notin reached /\ request.id[2] \notin Local
<1> USE DEF QueueInv, RoutesInv
<1>1. request # None /\ request.sent
  BY DEF Reply
<1>2. request.id \in Deliveries /\ request.attempts \in 1 .. MaxAttempts
  BY <1>1, RequestFields
<1>3. delivery[request.id].status = "delivering" /\ delivery[request.id].attempts = request.attempts
  BY <1>1 DEF CopiesFresh
<1>4. Tallied(request.id) /\ Held(request.id)
  BY <1>1, <1>2 DEF AllTallied, Held
<1>5. QED
  BY <1>1, <1>2, <1>3, <1>4 DEF Tallied

LEMMA ReplyQueue ==
  ASSUME QueueInv, NEW ok \in BOOLEAN, Reply(ok)
  PROVE  QueueKept
<1> USE DEF QueueInv, RoutesInv
<1>1. PICK d \in Deliveries : d = request.id
  BY ReplyFacts
<1>2. PICK n \in 1 .. MaxAttempts : n = request.attempts
  BY ReplyFacts
<1>3. /\ delivery[d].status = "delivering" /\ delivery[d].attempts = n
      /\ sends[d] = n /\ d \notin reached /\ d[2] \notin Local
  BY <1>1, <1>2, ReplyFacts
<1>4. /\ request' = None /\ UNCHANGED <<batch, sends>>
      /\ reached' = IF ok THEN reached \cup {d} ELSE reached
  BY <1>1 DEF Reply
<1>5. n \in 0 .. MaxAttempts /\ ~Held(d)' /\ sends'[d] = n
  BY <1>3, <1>4 DEF Held
<1>6. /\ delivery'[d] \in {delivery[d], IF ok THEN [status |-> "delivered", attempts |-> n, wait |-> 0]
                                              ELSE Deferral(n)}
      /\ \A f \in Deliveries \ {d} : delivery'[f] = delivery[f]
  BY <1>1, <1>2 DEF Reply, Put, TypeOK
<1>7. \A f \in Deliveries \ {d} : Left(f)
  BY <1>4, <1>6 DEF Left
<1>8. \A c \in batch : c.id # d
  BY <1>1, CopiesDiffer DEF Reply
<1>9. CASE delivery'[d] = delivery[d]
  <2>1. Tallied(d)'
    BY <1>3, <1>5, <1>9 DEF Tallied, Present, Pending
  <2>2. ~Pending(d)'
    BY <1>3, <1>9 DEF Pending
  <2>3. QED
    BY <1>4, <1>7, <1>8, <2>1, <2>2, WriteKept
<1>10. CASE ok /\ delivery'[d] = [status |-> "delivered", attempts |-> n, wait |-> 0]
  <2>1. delivery'[d].status = "delivered" /\ delivery'[d].attempts = n /\ d \in reached'
    BY <1>4, <1>10
  <2>2. Tallied(d)'
    BY <1>3, <1>5, <2>1 DEF Tallied, Present, Pending
  <2>3. ~Pending(d)'
    BY <2>1 DEF Pending
  <2>4. QED
    BY <1>4, <1>7, <1>8, <2>2, <2>3, WriteKept
<1>11. CASE ~ok /\ delivery'[d] = Deferral(n)
  <2>1. /\ delivery'[d].attempts = n /\ d \notin reached'
        /\ \/ delivery'[d].status = "failed" /\ n = MaxAttempts
           \/ delivery'[d].status = "deferred" /\ n < MaxAttempts
    BY <1>3, <1>4, <1>5, <1>11, DeferralType
  <2>2. Tallied(d)'
    BY <1>3, <1>5, <2>1 DEF Tallied, Present, Pending
  <2>3. Pending(d)' => delivery'[d].attempts < MaxAttempts
    BY <2>1 DEF Pending
  <2>4. QED
    BY <1>4, <1>7, <1>8, <2>2, <2>3, WriteKept
<1>12. QED
  BY <1>6, <1>9, <1>10, <1>11

LEMMA ScanQueue ==
  ASSUME QueueInv, Scan
  PROVE  QueueKept
<1> USE DEF QueueInv, RoutesInv
<1>1. UNCHANGED <<delivery, request, sends, reached>> /\ request = None
  BY DEF Scan, Oldest
<1>2. \A c \in batch' : Pending(c.id) /\ delivery[c.id].attempts = c.attempts
  BY DEF Scan, Oldest, CopyOf, Due
<1>3. CopiesFresh'
  BY <1>1, <1>2 DEF CopiesFresh, Pending
<1>4. AttemptsLeft' /\ AllTallied'
  BY <1>1 DEF AttemptsLeft, AllTallied, Tallied, Pending, Present, Held
<1>5. QED
  BY <1>3, <1>4 DEF QueueKept

LEMMA TickSame ==
  ASSUME TypeOK, Tick
  PROVE  \A d \in Deliveries : /\ delivery'[d].status = delivery[d].status
                               /\ delivery'[d].attempts = delivery[d].attempts
BY DEF Tick, TypeOK, Records

\* The worker's steps.
LEMMA ProcessQueue ==
  ASSUME QueueInv, Process
  PROVE  QueueKept
<1> USE DEF QueueInv, RoutesInv
<1>1. ASSUME NEW c \in batch, LoadFailed(c) \/ LoadMissed(c) \/ MarkFailed(c)
      PROVE  QueueKept
  BY <1>1, LoadQueue DEF LoadFailed, LoadMissed, MarkFailed, Put
<1>2. QED
  BY <1>1, MarkQueue, SendQueue, ReplyQueue DEF Process

\* The queue's part of the invariant is kept by every step.
LEMMA NextQueue ==
  ASSUME QueueInv, [Next]_vars
  PROVE  QueueKept
<1> USE DEF QueueInv, RoutesInv
<1>1. ASSUME UNCHANGED <<delivery, sends, reached>>, batch' \subseteq batch,
             request' = request \/ request' = None
      PROVE  QueueKept
  BY <1>1, LeftKept DEF Left
<1>2. ASSUME NEW s \in Senders, Route(s)
      PROVE  QueueKept
  <2>1. CASE \E r \in Addresses : StoreDelivery(s, r)
    BY <2>1, StoreQueue
  <2>2. CASE ~\E r \in Addresses : StoreDelivery(s, r)
    BY <1>1, <1>2, <2>2, RouteLeft DEF workVars
  <2>3. QED
    BY <2>1, <2>2
<1>3. ASSUME NEW a \in Local, NEW b \in Local, ChangeAddress(a, b)
      PROVE  QueueKept
  BY <1>1, <1>3 DEF ChangeAddress, workVars
<1>4. ASSUME NEW a \in Local, OpenMailbox(a)
      PROVE  QueueKept
  BY <1>1, <1>4 DEF OpenMailbox, workVars
<1>5. CASE Tick
  <2>1. \A d \in Deliveries : Left(d)
    BY <1>5, TickSame DEF Left, Tick, workVars
  <2>2. QED
    BY <1>5, <2>1, LeftKept DEF Tick, workVars
<1>6. CASE Crash
  BY <1>1, <1>6 DEF Crash
<1>7. CASE UNCHANGED vars
  BY <1>1, <1>7 DEF vars
<1>8. QED
  BY <1>2, <1>3, <1>4, <1>5, <1>6, <1>7, ScanQueue, ProcessQueue DEF Next

-----------------------------------------------------------------------------
(* The invariant holds.                                                    *)

\* Only StoreDelivery stores a delivery, and none is removed.
LEMMA NextPresence ==
  ASSUME QueueInv, [Next]_vars, \A s \in Senders, r \in Addresses : ~StoreDelivery(s, r)
  PROVE  SamePresence
<1> USE DEF QueueInv, RoutesInv
<1>1. ASSUME UNCHANGED delivery
      PROVE  SamePresence
  BY <1>1 DEF SamePresence, Present
<1>2. ASSUME NEW d \in Deliveries, NEW record \in Records, Present(d), record.status # "absent",
             delivery' = delivery \/ delivery' = [delivery EXCEPT ![d] = record]
      PROVE  SamePresence
  BY <1>2 DEF SamePresence, Present, TypeOK
<1>3. ASSUME NEW c \in batch, LoadFailed(c) \/ LoadMissed(c)
      PROVE  SamePresence
  <2>1. /\ c.id \in Deliveries /\ Present(c.id)
        /\ Deferral(c.attempts) \in Records /\ Deferral(c.attempts).status # "absent"
    BY CopyFields, DeferralType, SizeAssumption DEF CopiesFresh, Pending, Present
  <2>2. delivery' = delivery \/ delivery' = [delivery EXCEPT ![c.id] = Deferral(c.attempts)]
    BY <1>3 DEF LoadFailed, LoadMissed, Put
  <2>3. QED
    BY <1>2, <2>1, <2>2
<1>4. ASSUME NEW c \in batch, Mark(c)
      PROVE  SamePresence
  <2>1. c.id \in Deliveries /\ Present(c.id) /\ c.attempts \in 0 .. MaxAttempts - 1
    BY CopyFields DEF CopiesFresh, Pending, Present
  <2>2. [status |-> "delivering", attempts |-> c.attempts + 1, wait |-> 0] \in Records
    BY <2>1, SizeAssumption DEF Records, Statuses
  <2>3. QED
    BY <1>2, <1>4, <2>1, <2>2 DEF Mark
<1>5. ASSUME NEW ok \in BOOLEAN, Reply(ok)
      PROVE  SamePresence
  <2>1. /\ request.id \in Deliveries /\ Present(request.id)
        /\ request.attempts \in 1 .. MaxAttempts
    BY <1>5, ReplyFacts DEF Present
  <2>2. /\ Deferral(request.attempts) \in Records /\ Deferral(request.attempts).status # "absent"
        /\ [status |-> "delivered", attempts |-> request.attempts, wait |-> 0] \in Records
    BY <2>1, DeferralType, SizeAssumption DEF Records, Statuses
  <2>3. QED
    BY <1>2, <1>5, <2>1, <2>2 DEF Reply, Put
<1>6. CASE Tick
  BY <1>6, TickSame DEF SamePresence, Present
<1>7. ASSUME NEW s \in Senders, Route(s)
      PROVE  SamePresence
  BY <1>1, <1>7, RouteLeft
<1>8. CASE Process
  <2>1. ASSUME Send \/ \E c \in batch : MarkFailed(c)
        PROVE  UNCHANGED delivery
    BY <2>1 DEF Send, MarkFailed
  <2>2. QED
    BY <1>1, <1>3, <1>4, <1>5, <1>8, <2>1 DEF Process
<1>9. ASSUME \/ Scan \/ Crash \/ UNCHANGED vars \/ \E a \in Local : OpenMailbox(a)
             \/ \E a, b \in Local : ChangeAddress(a, b)
      PROVE  UNCHANGED delivery
  BY <1>9 DEF Scan, Crash, vars, OpenMailbox, ChangeAddress
<1>10. QED
  BY <1>1, <1>6, <1>7, <1>8, <1>9 DEF Next

\* The routing part of the invariant is kept by every step.
LEMMA NextRoutes ==
  ASSUME QueueInv, [Next]_vars
  PROVE  RoutesDisjoint' /\ RoutedExactly' /\ MessagesOrdered'
<1> DEFINE Kept == RoutesDisjoint' /\ RoutedExactly' /\ MessagesOrdered'
<1>1. RoutesInv
  BY DEF QueueInv
<1>2. CASE \E s \in Senders, r \in Addresses : StoreDelivery(s, r)
  BY <1>1, <1>2, StoreRoutes
<1>3. CASE ~\E s \in Senders, r \in Addresses : StoreDelivery(s, r)
  <2>1. SamePresence
    BY <1>3, NextPresence
  <2>2. ASSUME UNCHANGED <<lastMessage, to, sentBox, inbox, byUser, accepted>>,
               \A s \in Senders : send'[s] = send[s] \/ send'[s] = None
        PROVE  Kept
    BY <1>1, <2>1, <2>2, StopRoutes
  <2>3. ASSUME NEW s \in Senders, NEW R \in SUBSET Addresses, SendMail(s, R) \/ AcceptSMTP(s, R)
        PROVE  Kept
    BY <1>1, <2>3, StartRoutes DEF SendMail, AcceptSMTP, Kinds
  <2>4. ASSUME NEW s \in Senders, NEW r \in Addresses, SendSystemMail(s, r)
        PROVE  Kept
    BY <1>1, <2>4, StartRoutes DEF SendSystemMail, Kinds
  <2>5. ASSUME NEW s \in Senders, Bounce(s) \/ Fail(s)
        PROVE  Kept
    BY <1>1, <2>2, <2>5 DEF Bounce, Fail, Leave, RoutesInv, TypeOK
  <2>6. ASSUME NEW s \in Senders, Route(s)
        PROVE  Kept
    BY <1>1, <1>3, <2>3, <2>4, <2>5, <2>6, PostRoutes, FileRoutes, FinishRoutes DEF Route
  <2>7. ASSUME UNCHANGED routeVars
        PROVE  Kept
    BY <2>2, <2>7 DEF routeVars
  <2>8. ASSUME Process \/ Scan \/ Tick
        PROVE  UNCHANGED routeVars
    BY <2>8 DEF Process, LoadFailed, LoadMissed, Mark, MarkFailed, Take, Send, Reply, Scan, Tick
  <2>9. CASE Crash
    BY <2>2, <2>9 DEF Crash
  <2>10. ASSUME \/ UNCHANGED vars \/ \E a \in Local : OpenMailbox(a)
                \/ \E a, b \in Local : ChangeAddress(a, b)
         PROVE  UNCHANGED routeVars
    BY <2>10 DEF vars, routeVars, OpenMailbox, ChangeAddress
  <2>11. QED
    BY <2>6, <2>7, <2>8, <2>9, <2>10 DEF Next
<1>4. QED
  BY <1>2, <1>3

LEMMA InitQueue == Init => QueueInv
<1> SUFFICES ASSUME Init PROVE QueueInv
  OBVIOUS
<1>1. TypeOK
  BY InitType
<1>2. \A d \in Deliveries : delivery[d] = NoDelivery /\ sends[d] = 0
  BY DEF Init
<1>3. \A m \in Messages, r \in Addresses : <<m, r>> \in Deliveries
  BY DEF Deliveries
<1>4. RoutesDisjoint
  BY DEF Init, RoutesDisjoint, Routing, Unposted
<1>5. MessagesOrdered /\ RoutedExactly
  BY <1>2, <1>3 DEF Init, MessagesOrdered, RoutedExactly, NoDelivery
<1>6. AttemptsLeft /\ CopiesFresh
  BY <1>2 DEF Init, AttemptsLeft, CopiesFresh, Pending, NoDelivery
<1>7. AllTallied
  BY <1>2 DEF Init, AllTallied, Tallied, Present, Pending, Held, NoDelivery
<1>8. QED
  BY <1>1, <1>4, <1>5, <1>6, <1>7 DEF QueueInv, RoutesInv

LEMMA NextQueueInv == QueueInv /\ [Next]_vars => QueueInv'
<1> SUFFICES ASSUME QueueInv, [Next]_vars PROVE QueueInv'
  OBVIOUS
<1>1. TypeOK'
  BY NextType DEF QueueInv, RoutesInv
<1>2. QED
  BY <1>1, NextRoutes, NextQueue DEF QueueInv, RoutesInv, QueueKept

LEMMA QueueInvariant == Spec => []QueueInv
BY InitQueue, NextQueueInv, PTL DEF Spec

-----------------------------------------------------------------------------
(* What is stuck was lost.                                                 *)

StrandedInv == StrandedFinite /\ StrandedAccounted

\* A loss adds one stranded delivery at most, any other step none.
LEMMA StrandedKept ==
  ASSUME StrandedInv, losses \in Nat, losses' \in Nat,
         \/ Stranded' \subseteq Stranded /\ losses' >= losses
         \/ losses' = losses + 1 /\ \E x : Stranded' \subseteq Stranded \cup {x}
  PROVE  StrandedInv'
<1>1. IsFiniteSet(Stranded) /\ Cardinality(Stranded) <= losses /\ Cardinality(Stranded) \in Nat
  BY FS_CardinalityType DEF StrandedInv, StrandedFinite, StrandedAccounted, Stranded
<1>2. IsFiniteSet(Stranded') /\ Cardinality(Stranded') <= losses' => StrandedInv'
  BY DEF StrandedInv, StrandedFinite, StrandedAccounted, Stranded
<1>3. CASE Stranded' \subseteq Stranded /\ losses' >= losses
  <2>1. IsFiniteSet(Stranded') /\ Cardinality(Stranded') <= Cardinality(Stranded)
    BY <1>1, <1>3, FS_Subset
  <2>2. Cardinality(Stranded') \in Nat
    BY <2>1, FS_CardinalityType
  <2>3. QED
    BY <1>1, <1>2, <1>3, <2>1, <2>2
<1>4. ASSUME losses' = losses + 1, NEW x, Stranded' \subseteq Stranded \cup {x}
      PROVE  StrandedInv'
  <2>1. /\ IsFiniteSet(Stranded \cup {x})
        /\ Cardinality(Stranded \cup {x}) <= Cardinality(Stranded) + 1
    <3>1. /\ IsFiniteSet(Stranded \cup {x})
          /\ Cardinality(Stranded \cup {x}) =
               IF x \in Stranded THEN Cardinality(Stranded) ELSE Cardinality(Stranded) + 1
      BY <1>1, FS_AddElement
    <3>2. QED
      BY <1>1, <3>1
  <2>2. /\ IsFiniteSet(Stranded')
        /\ Cardinality(Stranded') <= Cardinality(Stranded \cup {x})
    BY <1>4, <2>1, FS_Subset
  <2>3. Cardinality(Stranded') \in Nat /\ Cardinality(Stranded \cup {x}) \in Nat
    BY <2>1, <2>2, FS_CardinalityType
  <2>4. QED
    BY <1>1, <1>2, <1>4, <2>1, <2>2, <2>3
<1>5. QED
  BY <1>3, <1>4

\* Writing one delivery that is not left "delivering" strands none.
LEMMA WriteStrands ==
  ASSUME TypeOK, NEW d \in Deliveries, \A f \in Deliveries \ {d} : delivery'[f].status = delivery[f].status,
         delivery'[d].status # "delivering" \/ Held(d)',
         \A f \in Deliveries \ {d} : Held(f) => Held(f)'
  PROVE  Stranded' \subseteq Stranded
BY DEF Stranded

LEMMA NextStranded == QueueInv /\ StrandedInv /\ [Next]_vars => StrandedInv'
<1> SUFFICES ASSUME QueueInv, StrandedInv, [Next]_vars PROVE StrandedInv'
  OBVIOUS
<1> USE DEF QueueInv, RoutesInv
<1>1. losses \in Nat /\ losses' \in Nat
  BY NextType, SizeAssumption DEF TypeOK
<1>2. ASSUME Stranded' \subseteq Stranded, losses' = losses \/ losses' = losses + 1
      PROVE  StrandedInv'
  BY <1>1, <1>2, StrandedKept
<1>3. ASSUME UNCHANGED <<delivery, request>>, losses' = losses \/ losses' = losses + 1
      PROVE  StrandedInv'
  <2>1. Stranded' \subseteq Stranded
    BY <1>3 DEF Stranded, Held
  <2>2. QED
    BY <1>2, <1>3, <2>1
<1>4. ASSUME NEW s \in Senders, NEW r \in Addresses, StoreDelivery(s, r)
      PROVE  StrandedInv'
  <2>1. PICK d \in Deliveries : d = <<send[s].message, r>>
    BY <1>4, StoreFacts
  <2>2. delivery'[d] \in {QueuedDelivery, LocalDelivery}
        /\ \A f \in Deliveries \ {d} : delivery'[f] = delivery[f]
    BY <1>4, <2>1, StoreFacts DEF TypeOK
  <2>3. delivery'[d].status # "delivering"
    BY <2>2 DEF QueuedDelivery, LocalDelivery
  <2>4. request' = request /\ losses' = losses
    BY <1>4 DEF StoreDelivery, workVars
  <2>5. Stranded' \subseteq Stranded
    BY <2>2, <2>3, <2>4, WriteStrands DEF Held
  <2>6. QED
    BY <1>2, <2>4, <2>5
<1>5. ASSUME NEW s \in Senders, Route(s)
      PROVE  StrandedInv'
  <2>1. losses' = losses \/ losses' = losses + 1
    BY <1>5 DEF Route, SendMail, AcceptSMTP, SendSystemMail, StartSend, Post, FileLocal,
                StoreDelivery, Finish, Bounce, Fail
  <2>2. QED
    BY <1>3, <1>4, <1>5, <2>1, RouteLeft DEF workVars
<1>6. ASSUME NEW c \in batch, LoadFailed(c) \/ LoadMissed(c)
      PROVE  StrandedInv'
  <2>1. c.id \in Deliveries /\ Deferral(c.attempts).status # "delivering"
    BY CopyFields, DeferralType, SizeAssumption
  <2>2. /\ delivery' = delivery \/ delivery' = [delivery EXCEPT ![c.id] = Deferral(c.attempts)]
        /\ request' = request
        /\ losses' = losses \/ losses' = losses + 1
    BY <1>6 DEF LoadFailed, LoadMissed, Put
  <2>3. ASSUME delivery' = [delivery EXCEPT ![c.id] = Deferral(c.attempts)]
        PROVE  Stranded' \subseteq Stranded
    <3>1. /\ \A f \in Deliveries \ {c.id} : delivery'[f] = delivery[f]
          /\ delivery'[c.id].status # "delivering"
      BY <2>1, <2>3 DEF TypeOK
    <3>2. QED
      BY <2>1, <2>2, <3>1, WriteStrands DEF Held
  <2>4. QED
    BY <1>2, <1>3, <2>2, <2>3
<1>7. ASSUME NEW c \in batch, Mark(c)
      PROVE  StrandedInv'
  <2>1. c.id \in Deliveries
    BY CopyFields
  <2>2. /\ request = None /\ losses' = losses
        /\ request' = [id |-> c.id, attempts |-> c.attempts + 1, sent |-> FALSE]
        /\ \A f \in Deliveries \ {c.id} : delivery'[f] = delivery[f]
    BY <1>7 DEF Mark, Take, TypeOK
  <2>3. request' # None
    <3>1. c.attempts + 1 \in 1 .. MaxAttempts
      BY CopyFields, SizeAssumption
    <3>2. request' \in Requests
      BY <2>1, <2>2, <3>1 DEF Requests
    <3>3. QED
      BY <3>2, NameAssumption
  <2>4. Held(c.id)' /\ \A f \in Deliveries : ~Held(f)
    BY <2>2, <2>3 DEF Held
  <2>5. Stranded' \subseteq Stranded
    BY <2>1, <2>2, <2>4, WriteStrands
  <2>6. QED
    BY <1>2, <2>2, <2>5
<1>8. CASE Send
  <2>1. request \in Requests /\ request # None
    BY <1>8, RequestFields DEF Send
  <2>2. /\ request'.id = request.id
        /\ UNCHANGED <<delivery, losses>>
    BY <1>8, <2>1 DEF Send, Requests
  <2>3. request' # None
    BY <1>8, <2>1, NameAssumption DEF Send, Requests
  <2>4. Stranded' \subseteq Stranded
    BY <2>1, <2>2, <2>3 DEF Stranded, Held
  <2>5. QED
    BY <1>2, <2>2, <2>4
<1>9. ASSUME NEW ok \in BOOLEAN, Reply(ok)
      PROVE  StrandedInv'
  <2>1. PICK d \in Deliveries, n \in 1 .. MaxAttempts : d = request.id /\ n = request.attempts
    BY <1>9, ReplyFacts
  <2>2. \A f \in Deliveries \ {d} : ~Held(f)
    BY <2>1 DEF Held
  <2>3. Deferral(n).status # "delivering"
    BY <2>1, DeferralType, SizeAssumption
  <2>4. CASE delivery' = [delivery EXCEPT ![d] = [status |-> "delivered", attempts |-> n, wait |-> 0]]
             \/ delivery' = [delivery EXCEPT ![d] = Deferral(n)]
    <3>1. /\ \A f \in Deliveries \ {d} : delivery'[f] = delivery[f]
          /\ delivery'[d].status # "delivering"
      BY <2>3, <2>4 DEF TypeOK
    <3>2. Stranded' \subseteq Stranded
      BY <2>2, <3>1, WriteStrands
    <3>3. losses' = losses \/ losses' = losses + 1
      BY <1>9 DEF Reply, Put
    <3>4. QED
      BY <1>2, <3>2, <3>3
  <2>5. CASE delivery' = delivery /\ losses' = losses + 1
    <3>1. Stranded' \subseteq Stranded \cup {d}
      BY <2>2, <2>5 DEF Stranded
    <3>2. QED
      BY <1>1, <2>5, <3>1, StrandedKept
  <2>6. QED
    BY <1>9, <2>1, <2>4, <2>5 DEF Reply, Put
<1>10. CASE Tick
  <2>1. Stranded' \subseteq Stranded
    BY <1>10, TickSame DEF Stranded, Tick, workVars, Held
  <2>2. QED
    BY <1>2, <1>10, <2>1 DEF Tick
<1>11. CASE Crash
  <2>1. Stranded' \subseteq Stranded \cup {request.id}
    BY <1>11 DEF Crash, Stranded, Held
  <2>2. QED
    BY <1>1, <1>11, <2>1, StrandedKept DEF Crash
<1>12. ASSUME \/ Scan \/ UNCHANGED vars \/ \E c \in batch : MarkFailed(c)
              \/ (\E a \in Local : OpenMailbox(a)) \/ \E a, b \in Local : ChangeAddress(a, b)
       PROVE  StrandedInv'
  BY <1>3, <1>12 DEF Scan, vars, MarkFailed, OpenMailbox, ChangeAddress, workVars
<1>13. QED
  BY <1>5, <1>6, <1>7, <1>8, <1>9, <1>10, <1>11, <1>12 DEF Next, Process

LEMMA InitStranded == Init => StrandedInv
<1> SUFFICES ASSUME Init PROVE StrandedInv
  OBVIOUS
<1>1. Stranded = {}
  BY DEF Init, Stranded, NoDelivery
<1>2. QED
  BY <1>1, FS_EmptySet DEF Init, StrandedInv, StrandedFinite, StrandedAccounted, Stranded

-----------------------------------------------------------------------------
(* Theorems.                                                               *)

\* Every variable holds values of its type.
THEOREM TypeCorrect == Spec => []TypeOK
<1>1. QueueInv => TypeOK
  BY DEF QueueInv, RoutesInv
<1>2. QED
  BY <1>1, QueueInvariant, PTL

\* What the queue has on record is what was sent, a delivery is given up only
\* after MaxAttempts requests that did not succeed, and a delivery that is stuck
\* is one that a crash, a shutdown or a failed write cost.
THEOREM QueueHolds == Spec => []QueueAccounted
<1>1. QueueInv => CopiesFresh /\ SendsRecorded
  <2> SUFFICES ASSUME QueueInv PROVE CopiesFresh /\ SendsRecorded
    OBVIOUS
  <2>1. ASSUME NEW d \in Deliveries
        PROVE  /\ sends[d] <= delivery[d].attempts
               /\ delivery[d].status = "failed" => sends[d] = MaxAttempts /\ d \notin reached
    BY DEF QueueInv, AllTallied, Tallied
  <2>2. QED
    BY <2>1 DEF QueueInv, SendsRecorded
<1>2. StrandedInv => StrandedAccounted
  BY DEF StrandedInv
<1>3. CopiesFresh /\ SendsRecorded /\ StrandedAccounted => QueueAccounted
  BY DEF QueueAccounted
<1>4. QED
  BY <1>1, <1>2, <1>3, QueueInvariant, InitStranded, NextStranded, PTL DEF Spec

\* A delivery whose Send reported success is never sent again, even if that
\* could not be recorded.
THEOREM DeliveredOnce == Spec => NeverResent
<1>1. QueueInv /\ [Next]_vars => \A d \in reached : sends'[d] = sends[d]
  <2> SUFFICES ASSUME QueueInv, [Next]_vars PROVE \A d \in reached : sends'[d] = sends[d]
    OBVIOUS
  <2> USE DEF QueueInv, RoutesInv
  <2>1. CASE Send
    <3>1. request # None /\ sends' = [sends EXCEPT ![request.id] = @ + 1]
      BY <2>1 DEF Send
    <3>2. request.id \in Deliveries /\ Held(request.id)
      BY <3>1, RequestFields DEF Held
    <3>3. request.id \notin reached
      BY <3>2 DEF AllTallied, Tallied
    <3>4. QED
      BY <3>1, <3>3 DEF TypeOK
  <2>2. ASSUME NEW s \in Senders, Route(s)
        PROVE  UNCHANGED sends
    BY <2>2 DEF Route, SendMail, AcceptSMTP, SendSystemMail, StartSend, Post, FileLocal,
                StoreDelivery, Finish, Bounce, Fail, Leave, workVars
  <2>3. ASSUME Process, ~Send
        PROVE  UNCHANGED sends
    BY <2>3 DEF Process, LoadFailed, LoadMissed, Mark, MarkFailed, Take, Reply
  <2>4. ASSUME \/ Scan \/ Tick \/ Crash \/ UNCHANGED vars \/ \E a \in Local : OpenMailbox(a)
               \/ \E a, b \in Local : ChangeAddress(a, b)
        PROVE  UNCHANGED sends
    BY <2>4 DEF Scan, Tick, Crash, vars, OpenMailbox, ChangeAddress, workVars
  <2>5. QED
    BY <2>1, <2>2, <2>3, <2>4 DEF Next
<1>2. QED
  BY <1>1, QueueInvariant, PTL DEF Spec, NeverResent

-----------------------------------------------------------------------------
(* What senders are told.                                                  *)

\* A message is only shown "delivered" when all its deliveries are: the worst of
\* their statuses ranks at least as high as each of them.
LEMMA WorstDelivered ==
  ASSUME NEW S \in SUBSET (Statuses \ {"absent"}), Worst(S) = "delivered"
  PROVE  \A x \in S : x = "delivered"
<1> DEFINE Top(x) == x \in S /\ \A y \in S : Rank[y] <= Rank[x]
<1>1. \A x \in S : Rank[x] \in 0 .. 4 /\ (Rank[x] = 0 <=> x = "delivered")
  BY DEF Rank, Statuses
<1>2. ASSUME NEW x \in S, Rank[x] # 0
      PROVE  FALSE
  <2>1. \E t : Top(t)
    <3>1. CASE \E t \in S : Rank[t] = 4
      BY <1>1, <3>1
    <3>2. CASE (\E t \in S : Rank[t] = 3) /\ ~\E t \in S : Rank[t] > 3
      BY <1>1, <3>2
    <3>3. CASE (\E t \in S : Rank[t] = 2) /\ ~\E t \in S : Rank[t] > 2
      BY <1>1, <3>3
    <3>4. CASE (\E t \in S : Rank[t] = 1) /\ ~\E t \in S : Rank[t] > 1
      BY <1>1, <3>4
    <3>5. QED
      BY <1>1, <1>2, <3>1, <3>2, <3>3, <3>4
  <2>2. Worst(S) = CHOOSE t : Top(t)
    <3>1. Worst(S) = CHOOSE t \in S : \A y \in S : Rank[y] <= Rank[t]
      BY <1>2 DEF Worst
    <3>2. QED
      BY <3>1
  <2> HIDE DEF Top
  <2>3. Top(Worst(S))
    BY <2>1, <2>2
  <2> USE DEF Top
  <2>4. "delivered" \in S /\ Rank[x] <= Rank["delivered"] /\ Rank["delivered"] = 0
    BY <1>1, <2>3
  <2>5. QED
    BY <1>1, <1>2, <2>4
<1>3. QED
  BY <1>1, <1>2

LEMMA ShownTruly == QueueInv => ShownDelivered
<1> SUFFICES ASSUME QueueInv, NEW m \in accepted, Shown(m) = "delivered", NEW r \in to[m]
             PROVE  <<m, r>> \in inbox \cup reached
  BY DEF ShownDelivered
<1> USE DEF QueueInv, RoutesInv
<1> DEFINE stored == {delivery[<<m, a>>].status : a \in Addresses} \ {"absent"}
<1>1. m \in Messages /\ r \in Addresses /\ \A a \in Addresses : <<m, a>> \in Deliveries
  BY DEF TypeOK, Deliveries
<1>2. delivery[<<m, r>>].status # "absent" /\ (r \in Local => <<m, r>> \in inbox)
  BY <1>1 DEF RoutedExactly
<1>3. stored \in SUBSET (Statuses \ {"absent"}) /\ delivery[<<m, r>>].status \in stored
  <2>1. \A d \in Deliveries : delivery[d].status \in Statuses
    BY DEF TypeOK, Records
  <2>2. QED
    BY <1>1, <1>2, <2>1
<1>4. Worst(stored) = "delivered"
  BY <1>3 DEF Shown
<1> HIDE DEF stored
<1>5. delivery[<<m, r>>].status = "delivered"
  BY <1>3, <1>4, WorstDelivered
<1>6. r \in Remote => <<m, r>> \in reached
  BY <1>1, <1>5 DEF AllTallied, Tallied
<1>7. QED
  BY <1>1, <1>2, <1>6 DEF Addresses

\* A sender is told the truth: every recipient of an accepted message has its
\* delivery, and one that is shown "delivered" has reached them all.
THEOREM TellsSenders == Spec => []SendersTold
<1>1. QueueInv => SendersTold
  BY ShownTruly DEF QueueInv, RoutesInv, SendersTold
<1>2. QED
  BY <1>1, QueueInvariant, PTL

-----------------------------------------------------------------------------
(* The refinement of the abstract queue.                                   *)

\* The abstract state only depends on the status and the attempts.
SameRecord(d) == /\ delivery'[d].status = delivery[d].status
                 /\ delivery'[d].attempts = delivery[d].attempts

LEMMA OutboundDeliveries ==
  /\ Outbound \subseteq Deliveries
  /\ \A d \in Deliveries : d[2] \notin Local <=> d \in Outbound
BY NameAssumption DEF Outbound, Deliveries, Addresses

LEMMA SameStage ==
  ASSUME NEW d \in Outbound, SameRecord(d)
  PROVE  Stages'[d] = Stages[d] /\ Recorded'[d] = Recorded[d]
<1>1. StageOf(d)' = StageOf(d)
  BY DEF SameRecord, StageOf
<1>2. QED
  BY <1>1 DEF SameRecord, Stages, Recorded

LEMMA StutterRefines ==
  ASSUME \A d \in Outbound : Stages'[d] = Stages[d] /\ Recorded'[d] = Recorded[d]
  PROVE  [Lifecycle!LifeNext]_(Lifecycle!lifeVars)
<1>1. UNCHANGED <<Stages, Recorded>>
  BY DEF Stages, Recorded
<1>2. QED
  BY <1>1 DEF Lifecycle!lifeVars

LEMMA FrameRefines ==
  ASSUME \A d \in Deliveries : SameRecord(d)
  PROVE  [Lifecycle!LifeNext]_(Lifecycle!lifeVars)
BY SameStage, StutterRefines, OutboundDeliveries

\* Writing one delivery, in the abstract state.
LEMMA StageExcept ==
  ASSUME NEW d \in Outbound, \A f \in Deliveries \ {d} : SameRecord(f)
  PROVE  /\ Stages' = [Stages EXCEPT ![d] = Stages'[d]]
         /\ Recorded' = [Recorded EXCEPT ![d] = Recorded'[d]]
<1>1. \A f \in Outbound : f # d => Stages'[f] = Stages[f] /\ Recorded'[f] = Recorded[f]
  BY SameStage, OutboundDeliveries
<1>2. QED
  BY <1>1 DEF Stages, Recorded

\* A remote delivery is enqueued; a local one is none of the queue's.
LEMMA StoreRefines ==
  ASSUME QueueInv, NEW s \in Senders, NEW r \in Addresses, StoreDelivery(s, r)
  PROVE  [Lifecycle!LifeNext]_(Lifecycle!lifeVars)
<1> USE DEF QueueInv, RoutesInv
<1>1. PICK d \in Deliveries : d = <<send[s].message, r>>
  BY StoreFacts
<1>2. /\ ~Present(d) /\ d[2] = r
      /\ delivery'[d] = IF r \in Remote THEN QueuedDelivery ELSE LocalDelivery
      /\ \A f \in Deliveries \ {d} : delivery'[f] = delivery[f]
  BY <1>1, StoreFacts DEF TypeOK
<1>3. delivery[d].status = "absent" /\ delivery[d].attempts = 0
  BY <1>2 DEF AllTallied, Tallied, Present
<1>4. ASSUME r \notin Local
      PROVE  d \in Outbound /\ Stages[d] = "absent" /\ Recorded[d] = 0
  <2>1. d \in Outbound
    BY <1>2, <1>4, OutboundDeliveries
  <2>2. QED
    BY <1>3, <2>1 DEF Stages, Recorded, StageOf
<1>5. CASE r \in Local
  <2>1. \A f \in Outbound : SameRecord(f)
    BY <1>2, <1>5, OutboundDeliveries DEF SameRecord
  <2>2. QED
    BY <2>1, SameStage, StutterRefines
<1>6. CASE r \notin Local
  <2>1. Stages'[d] = "waiting" /\ Recorded'[d] = 0
    BY <1>2, <1>4, <1>6 DEF Stages, Recorded, StageOf, QueuedDelivery, Addresses
  <2>2. /\ Stages' = [Stages EXCEPT ![d] = "waiting"]
        /\ Recorded' = [Recorded EXCEPT ![d] = Recorded[d]]
    BY <1>2, <1>4, <1>6, <2>1, StageExcept DEF SameRecord
  <2>3. Recorded' = Recorded
    BY <2>2 DEF Recorded
  <2>4. Lifecycle!Enqueue(d)
    BY <1>4, <1>6, <2>2, <2>3 DEF Lifecycle!Enqueue
  <2>5. QED
    BY <1>4, <1>6, <2>4 DEF Lifecycle!LifeNext
<1>7. QED
  BY <1>5, <1>6

\* A copy put back and an attempt on its way are the abstract queue's waiting.
LEMMA LoadRefines ==
  ASSUME QueueInv, NEW c \in batch, LoadFailed(c) \/ LoadMissed(c)
  PROVE  [Lifecycle!LifeNext]_(Lifecycle!lifeVars)
<1> USE DEF QueueInv, RoutesInv
<1>1. c.id \in Deliveries /\ c.attempts \in 0 .. MaxAttempts /\ c.attempts < MaxAttempts
  BY CopyFields, SizeAssumption
<1>2. delivery' = delivery \/ delivery' = [delivery EXCEPT ![c.id] = Deferral(c.attempts)]
  BY DEF LoadFailed, LoadMissed, Put
<1>3. Pending(c.id) /\ delivery[c.id].attempts = c.attempts
  BY DEF CopiesFresh
<1>4. Deferral(c.attempts).status = "deferred" /\ Deferral(c.attempts).attempts = c.attempts
  BY <1>1, DeferralType
<1>5. CASE delivery' = [delivery EXCEPT ![c.id] = Deferral(c.attempts)]
  <2>1. delivery'[c.id] = Deferral(c.attempts) /\ \A f \in Deliveries \ {c.id} : delivery'[f] = delivery[f]
    BY <1>1, <1>5 DEF TypeOK
  <2>2. StageOf(c.id)' = StageOf(c.id)
    BY <1>3, <1>4, <2>1 DEF StageOf, Pending
  <2>3. c.id \in Outbound => Stages'[c.id] = Stages[c.id] /\ Recorded'[c.id] = Recorded[c.id]
    BY <1>1, <1>3, <1>4, <2>1, <2>2 DEF Stages, Recorded, Pending
  <2>4. QED
    BY <2>1, <2>3, SameStage, StutterRefines, OutboundDeliveries DEF SameRecord
<1>6. QED
  BY <1>2, <1>5, FrameRefines DEF SameRecord

LEMMA MarkRefines ==
  ASSUME QueueInv, NEW c \in batch, Mark(c)
  PROVE  [Lifecycle!LifeNext]_(Lifecycle!lifeVars)
<1> USE DEF QueueInv, RoutesInv
<1>1. c.id \in Deliveries /\ c.attempts \in 0 .. MaxAttempts - 1
  BY CopyFields
<1>2. /\ delivery'[c.id] = [status |-> "delivering", attempts |-> c.attempts + 1, wait |-> 0]
      /\ \A f \in Deliveries \ {c.id} : delivery'[f] = delivery[f]
  BY <1>1 DEF Mark, TypeOK
<1>3. Pending(c.id) /\ delivery[c.id].attempts = c.attempts
  BY DEF CopiesFresh
<1>4. StageOf(c.id)' = StageOf(c.id)
  BY <1>2, <1>3 DEF StageOf, Pending
<1>5. delivery'[c.id].attempts - 1 = c.attempts
  BY <1>1, <1>2, SizeAssumption
<1>6. c.id \in Outbound => Stages'[c.id] = Stages[c.id] /\ Recorded'[c.id] = Recorded[c.id]
  BY <1>1, <1>2, <1>3, <1>4, <1>5 DEF Stages, Recorded, Pending
<1>7. QED
  BY <1>2, <1>6, SameStage, StutterRefines, OutboundDeliveries DEF SameRecord

\* Storing what Send returned is an abstract success, deferral or giving up.
LEMMA ReplyRefines ==
  ASSUME QueueInv, NEW ok \in BOOLEAN, Reply(ok)
  PROVE  [Lifecycle!LifeNext]_(Lifecycle!lifeVars)
<1> USE DEF QueueInv, RoutesInv
<1>1. PICK d \in Deliveries, n \in 1 .. MaxAttempts : d = request.id /\ n = request.attempts
  BY ReplyFacts
<1>2. delivery[d].status = "delivering" /\ delivery[d].attempts = n /\ d \in Outbound
  BY <1>1, ReplyFacts, OutboundDeliveries
<1>3. Stages[d] = "waiting" /\ Recorded[d] = n - 1 /\ n - 1 + 1 = n
  BY <1>2, SizeAssumption DEF Stages, Recorded, StageOf
<1>4. Stages = [Stages EXCEPT ![d] = Stages[d]] /\ Recorded = [Recorded EXCEPT ![d] = Recorded[d]]
  BY DEF Stages, Recorded
<1>5. CASE delivery' = delivery
  BY <1>5, FrameRefines DEF SameRecord
<1>6. ASSUME NEW record \in Records, delivery' = [delivery EXCEPT ![d] = record], record.attempts = n
      PROVE  /\ delivery'[d] = record
             /\ Stages' = [Stages EXCEPT ![d] = Stages'[d]]
             /\ Recorded' = [Recorded EXCEPT ![d] = Recorded'[d]]
  <2>1. delivery'[d] = record /\ \A f \in Deliveries \ {d} : SameRecord(f)
    BY <1>6 DEF TypeOK, SameRecord
  <2>2. QED
    BY <1>2, <2>1, StageExcept
<1>7. CASE delivery' = [delivery EXCEPT ![d] = [status |-> "delivered", attempts |-> n, wait |-> 0]]
  <2> DEFINE settled == [status |-> "delivered", attempts |-> n, wait |-> 0]
  <2>1. /\ settled \in Records /\ settled.status = "delivered" /\ settled.attempts = n
        /\ delivery' = [delivery EXCEPT ![d] = settled]
    BY <1>7, SizeAssumption DEF Records, Statuses
  <2> HIDE DEF settled
  <2>2. /\ delivery'[d].status = "delivered" /\ delivery'[d].attempts = n
        /\ Stages' = [Stages EXCEPT ![d] = Stages'[d]]
        /\ Recorded' = [Recorded EXCEPT ![d] = Recorded'[d]]
    BY <1>6, <2>1
  <2>3. Stages'[d] = "delivered" /\ Recorded'[d] = n
    BY <1>2, <2>2 DEF Stages, Recorded, StageOf
  <2>4. Lifecycle!Succeed(d)
    BY <1>3, <2>2, <2>3 DEF Lifecycle!Succeed, Lifecycle!Record
  <2>5. QED
    BY <1>2, <2>4 DEF Lifecycle!LifeNext
<1>8. CASE delivery' = [delivery EXCEPT ![d] = Deferral(n)]
  <2>1. /\ Deferral(n) \in Records /\ Deferral(n).attempts = n
        /\ \/ Deferral(n).status = "failed" /\ n = MaxAttempts
           \/ Deferral(n).status = "deferred" /\ n < MaxAttempts
    BY DeferralType, SizeAssumption
  <2>2. /\ delivery'[d] = Deferral(n)
        /\ Stages' = [Stages EXCEPT ![d] = Stages'[d]]
        /\ Recorded' = [Recorded EXCEPT ![d] = Recorded'[d]]
    BY <1>6, <1>8, <2>1
  <2>3. CASE Deferral(n).status = "failed" /\ n = MaxAttempts
    <3>1. Stages'[d] = "failed" /\ Recorded'[d] = n
      BY <1>2, <2>1, <2>2, <2>3 DEF Stages, Recorded, StageOf
    <3>2. Lifecycle!GiveUp(d)
      BY <1>3, <2>2, <2>3, <3>1 DEF Lifecycle!GiveUp, Lifecycle!Record
    <3>3. QED
      BY <1>2, <3>2 DEF Lifecycle!LifeNext
  <2>4. CASE Deferral(n).status = "deferred" /\ n < MaxAttempts
    <3>1. Stages'[d] = "waiting" /\ Recorded'[d] = n
      BY <1>2, <2>1, <2>2, <2>4 DEF Stages, Recorded, StageOf
    <3>2. Lifecycle!Defer(d)
      BY <1>3, <1>4, <2>2, <2>4, <3>1 DEF Lifecycle!Defer, Lifecycle!Record
    <3>3. QED
      BY <1>2, <3>2 DEF Lifecycle!LifeNext
  <2>5. QED
    BY <2>1, <2>3, <2>4
<1>9. QED
  BY <1>1, <1>5, <1>7, <1>8 DEF Reply, Put

LEMMA InitRefines == Init => Lifecycle!LifeInit
<1> SUFFICES ASSUME Init PROVE Lifecycle!LifeInit
  OBVIOUS
<1>1. \A d \in Outbound : Stages[d] = "absent" /\ Recorded[d] = 0
  BY OutboundDeliveries DEF Init, Stages, Recorded, StageOf, NoDelivery
<1>2. Stages \in [Outbound -> {"absent", "waiting"}] /\ Recorded = [d \in Outbound |-> 0]
  BY <1>1 DEF Stages, Recorded
<1>3. QED
  BY <1>2 DEF Lifecycle!LifeInit

\* Every step is a step of the abstract queue or leaves it unchanged.
LEMMA NextRefines ==
  ASSUME QueueInv, [Next]_vars
  PROVE  [Lifecycle!LifeNext]_(Lifecycle!lifeVars)
<1> DEFINE Refines == [Lifecycle!LifeNext]_(Lifecycle!lifeVars)
<1>1. ASSUME UNCHANGED delivery
      PROVE  Refines
  BY <1>1, FrameRefines DEF SameRecord
<1>2. ASSUME NEW s \in Senders, Route(s)
      PROVE  Refines
  BY <1>1, <1>2, RouteLeft, StoreRefines
<1>3. CASE Process
  <2>1. ASSUME Send \/ \E c \in batch : MarkFailed(c)
        PROVE  UNCHANGED delivery
    BY <2>1 DEF Send, MarkFailed
  <2>2. QED
    BY <1>1, <1>3, <2>1, LoadRefines, MarkRefines, ReplyRefines DEF Process
<1>4. CASE Tick
  BY <1>4, TickSame, FrameRefines DEF SameRecord, QueueInv, RoutesInv
<1>5. ASSUME \/ Scan \/ Crash \/ UNCHANGED vars \/ \E a \in Local : OpenMailbox(a)
             \/ \E a, b \in Local : ChangeAddress(a, b)
      PROVE  UNCHANGED delivery
  BY <1>5 DEF Scan, Crash, vars, OpenMailbox, ChangeAddress
<1>6. QED
  BY <1>1, <1>2, <1>3, <1>4, <1>5 DEF Next

\* The outbound queue implements its abstract specification: a remote delivery
\* is attempted at most MaxAttempts times on record and settled exactly once.
THEOREM Implements == Spec => ImplementsLifecycle
<1>1. Init => Lifecycle!LifeInit
  BY InitRefines
<1>2. QueueInv /\ [Next]_vars => [Lifecycle!LifeNext]_(Lifecycle!lifeVars)
  BY NextRefines
<1>3. QED
  BY <1>1, <1>2, QueueInvariant, PTL DEF Spec, ImplementsLifecycle, Lifecycle!LifeSpec


=============================================================================
