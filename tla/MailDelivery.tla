---------------------------- MODULE MailDelivery ----------------------------
(***************************************************************************)
(* Sending mail (internal/identity) and the outbound queue                 *)
(* (internal/mailruntime, internal/mail).  Request handlers and the SMTP   *)
(* ingress route a message to its recipients one after the other: a local  *)
(* recipient gets an Inbox entry and a delivery already settled, a remote  *)
(* one a queued delivery.  One background worker sends the queued          *)
(* deliveries.  It stores the attempt before it sends, so a crash, a       *)
(* shutdown (nobody waits for this worker) or a failed write leaves a      *)
(* delivery "delivering", which no scan selects again.                     *)
(*                                                                         *)
(* Time is relative, as in WebhookDelivery; a message's number stands for  *)
(* the time its routing began, which orders the deliveries by CreatedAt.   *)
(***************************************************************************)
EXTENDS Integers, FiniteSets

CONSTANTS
  Local,        \* addresses of the platform's own domain
  Remote,       \* addresses elsewhere
  Opened,       \* the local addresses that have a mailbox to begin with
  Senders,      \* request handlers and SMTP sessions
  MaxAttempts,  \* maxDeliveryAttempts (8)
  BatchLimit,   \* deliveries taken by one processDeliveries (20)
  Unreadable,   \* messages whose stored copy cannot be loaded
  MaxMessages,  \* bound: messages ever routed
  MaxRecipients, \* bound: recipients of one message
  MaxLosses,    \* bound: crashes, shutdowns, failed reads and writes
  MaxChanges,   \* bound: address book changes
  None          \* nothing in progress

Addresses  == Local \cup Remote
Messages   == 1 .. MaxMessages
Deliveries == Messages \X Addresses

MessageOf(d) == d[1]

Kinds    == {"user", "system", "ingress"}
Statuses == {"absent", "queued", "delivering", "deferred", "delivered", "failed"}
Records  == [status : Statuses, attempts : 0 .. MaxAttempts, wait : Nat]
Copies   == [id : Deliveries, attempts : 0 .. MaxAttempts - 1]
Requests == [id : Deliveries, attempts : 1 .. MaxAttempts, sent : BOOLEAN]
Sends    == [kind : Kinds, message : 0 .. MaxMessages, todo : SUBSET Addresses,
             filed : Local \cup {None}]

ASSUME SizeAssumption ==
  /\ MaxAttempts \in Nat \ {0}
  /\ BatchLimit \in Nat \ {0}
  /\ MaxMessages \in Nat
  /\ MaxRecipients \in Nat
  /\ MaxLosses \in Nat
  /\ MaxChanges \in Nat

ASSUME NameAssumption ==
  /\ Local \cap Remote = {}
  /\ Opened \subseteq Local
  /\ None \notin Addresses
  /\ None \notin Sends
  /\ None \notin Requests

VARIABLES
  mailbox,      \* the local addresses that have a mailbox
  changes,      \* counter of what MaxChanges limits
  lastMessage,  \* the newest message routed
  to,           \* the recipients of each message
  sentBox,      \* messages with a Sent entry
  inbox,        \* messages and local recipients with an Inbox entry
  delivery,     \* the stored deliveries
  send,         \* what each sender has still to do
  batch,        \* the copies of deliveries the worker has still to send
  request,      \* the delivery the worker is sending
  losses,       \* counter of what MaxLosses limits
  accepted,     \* history: messages whose sender was told of success
  byUser,       \* history: messages sent from a mailbox
  sends,        \* history: how often each delivery was sent
  reached       \* history: deliveries whose Send reported success

vars == <<mailbox, changes, lastMessage, to, sentBox, inbox, delivery, send, batch,
          request, losses, accepted, byUser, sends, reached>>
bookVars  == <<mailbox, changes>>
routeVars == <<lastMessage, to, sentBox, inbox, send, accepted, byUser>>
workVars  == <<batch, request, sends, reached>>

-----------------------------------------------------------------------------
Least(m, n) == IF m < n THEN m ELSE n

\* Minutes until the next attempt: 1 << min(attempts, 8).
Backoff(n) == <<1, 2, 4, 8, 16, 32, 64, 128, 256>>[Least(n, 8) + 1]

NoDelivery     == [status |-> "absent", attempts |-> 0, wait |-> 0]
QueuedDelivery == [status |-> "queued", attempts |-> 0, wait |-> 0]
LocalDelivery  == [status |-> "delivered", attempts |-> 0, wait |-> 0]

\* Mutant: deliveries the worker may still be sending are selected.
PendingOrDelivering(d) == delivery[d].status \in {"queued", "deferred", "delivering"}

Pending(d) == delivery[d].status \in {"queued", "deferred"}
Due(d)     == Pending(d) /\ delivery[d].wait = 0

Rank == [delivered |-> 0, queued |-> 1, delivering |-> 2, deferred |-> 3, failed |-> 4]

\* The worst status of a message's deliveries, as deliveryStatus ranks them.
Worst(S) ==
  IF \A x \in S : Rank[x] = 0 THEN "delivered"
  ELSE CHOOSE x \in S : \A y \in S : Rank[y] <= Rank[x]

\* What the sender sees of a message; "" when it has no delivery.
Shown(m) ==
  LET stored == {delivery[<<m, r>>].status : r \in Addresses} \ {"absent"}
  IN  IF stored = {} THEN "" ELSE Worst(stored)

Init ==
  /\ mailbox = Opened
  /\ changes = 0
  /\ lastMessage = 0
  /\ to = [m \in Messages |-> {}]
  /\ sentBox = {} /\ inbox = {}
  /\ delivery = [d \in Deliveries |-> NoDelivery]
  /\ send = [s \in Senders |-> None]
  /\ batch = {} /\ request = None
  /\ losses = 0
  /\ accepted = {} /\ byUser = {}
  /\ sends = [d \in Deliveries |-> 0]
  /\ reached = {}

-----------------------------------------------------------------------------
(* Sending.                                                                *)

\* The message is stored; nothing refers to it yet.
StartSend(s, kind, R) ==
  /\ send[s] = None
  /\ lastMessage < MaxMessages
  /\ R # {}
  /\ Cardinality(R) <= MaxRecipients
  /\ send' = [send EXCEPT ![s] = [kind |-> kind, message |-> 0, todo |-> R, filed |-> None]]
  /\ UNCHANGED <<lastMessage, to, sentBox, inbox, accepted, byUser, delivery, losses,
                 bookVars, workVars>>

\* SendMail and SendManagementMail: the local recipients must have a mailbox.
SendMail(s, R) ==
  /\ R \cap Local \subseteq mailbox
  /\ StartSend(s, "user", R)

\* sendSystemMail: one recipient, not checked.
SendSystemMail(s, r) == StartSend(s, "system", {r})

\* AcceptSMTP, after the same check by each RCPT command: only local recipients
\* that have a mailbox.
AcceptSMTP(s, R) ==
  /\ R \subseteq mailbox
  /\ StartSend(s, "ingress", R)

Unposted(s) == send[s] # None /\ send[s].message = 0
Routing(s)  == send[s] # None /\ send[s].message # 0

\* A user's mail gets its Sent entry, then routing begins.
Post(s) ==
  /\ Unposted(s)
  /\ lastMessage < MaxMessages
  /\ LET m == lastMessage + 1
     IN  /\ lastMessage' = m
         /\ to' = [to EXCEPT ![m] = send[s].todo]
         /\ sentBox' = IF send[s].kind = "user" THEN sentBox \cup {m} ELSE sentBox
         /\ byUser' = IF send[s].kind = "user" THEN byUser \cup {m} ELSE byUser
         /\ send' = [send EXCEPT ![s].message = m]
  /\ UNCHANGED <<inbox, accepted, delivery, losses, bookVars, workVars>>

\* A local recipient: the mailbox is looked up again and gets its Inbox entry.
FileLocal(s, r) ==
  /\ Routing(s)
  /\ send[s].filed = None
  /\ r \in send[s].todo \cap mailbox
  /\ inbox' = inbox \cup {<<send[s].message, r>>}
  /\ send' = [send EXCEPT ![s].filed = r]
  /\ UNCHANGED <<lastMessage, to, sentBox, accepted, byUser, delivery, losses,
                 bookVars, workVars>>

\* UpsertDelivery, for a local recipient after its Inbox entry.
StoreDelivery(s, r) ==
  /\ Routing(s)
  /\ \/ send[s].filed = None /\ r \in send[s].todo \cap Remote
     \/ send[s].filed = r
  /\ delivery' = [delivery EXCEPT ![<<send[s].message, r>>] =
                    IF r \in Remote THEN QueuedDelivery ELSE LocalDelivery]
  /\ send' = [send EXCEPT ![s].todo = @ \ {r}, ![s].filed = None]
  /\ UNCHANGED <<lastMessage, to, sentBox, inbox, accepted, byUser, losses,
                 bookVars, workVars>>

Leave(s) ==
  /\ send' = [send EXCEPT ![s] = None]
  /\ UNCHANGED <<lastMessage, to, sentBox, inbox, byUser, delivery, bookVars, workVars>>

\* Mutant: a recipient that cannot be routed is passed over and success reported.
FinishAnyway(s) ==
  /\ Routing(s)
  /\ send[s].todo \cap mailbox = {}
  /\ accepted' = accepted \cup {send[s].message}
  /\ Leave(s)
  /\ UNCHANGED losses

Finish(s) ==
  /\ Routing(s)
  /\ send[s].todo = {}
  /\ accepted' = accepted \cup {send[s].message}
  /\ Leave(s)
  /\ UNCHANGED losses

\* The mailbox has gone since the recipients were checked: routing ends with
\* an error, and the recipients routed before keep their mail.
Bounce(s) ==
  /\ Routing(s)
  /\ send[s].filed = None
  /\ (send[s].todo \cap Local) \ mailbox # {}
  /\ Leave(s)
  /\ UNCHANGED <<accepted, losses>>

\* A write fails.
Fail(s) ==
  /\ send[s] # None
  /\ losses < MaxLosses
  /\ losses' = losses + 1
  /\ Leave(s)
  /\ UNCHANGED accepted

\* ChangeWaveAddress moves a mailbox to another address; a registration opens one.
ChangeAddress(a, b) ==
  /\ changes < MaxChanges
  /\ a \in mailbox /\ b \in Local \ mailbox
  /\ changes' = changes + 1
  /\ mailbox' = (mailbox \ {a}) \cup {b}
  /\ UNCHANGED <<routeVars, workVars, delivery, losses>>

OpenMailbox(a) ==
  /\ changes < MaxChanges
  /\ a \in Local \ mailbox
  /\ changes' = changes + 1
  /\ mailbox' = mailbox \cup {a}
  /\ UNCHANGED <<routeVars, workVars, delivery, losses>>

-----------------------------------------------------------------------------
(* The worker.                                                             *)

CopyOf(d) == [id |-> d, attempts |-> delivery[d].attempts]

\* At most n deliveries that are due, the oldest first.
Oldest(n) ==
  LET due == {d \in Deliveries : Due(d)}
  IN  {B \in SUBSET due : /\ Cardinality(B) = Least(n, Cardinality(due))
                         /\ \A d \in B, f \in due \ B : MessageOf(d) <= MessageOf(f)}

\* Mutant: a batch is one delivery short.
ScanOneShort ==
  /\ batch = {} /\ request = None
  /\ \E B \in Oldest(BatchLimit - 1) : batch' = {CopyOf(d) : d \in B}
  /\ UNCHANGED <<request, sends, reached, delivery, losses, bookVars, routeVars>>

Scan ==
  /\ batch = {} /\ request = None
  /\ \E B \in Oldest(BatchLimit) : batch' = {CopyOf(d) : d \in B}
  /\ UNCHANGED <<request, sends, reached, delivery, losses, bookVars, routeVars>>

Take(c) ==
  /\ request = None
  /\ c \in batch
  /\ \A o \in batch : MessageOf(c.id) <= MessageOf(o.id)
  /\ batch' = batch \ {c}
  /\ UNCHANGED <<sends, reached, bookVars, routeVars>>

\* UpsertDelivery; a failure is only logged.
Put(d, record) ==
  \/ /\ delivery' = [delivery EXCEPT ![d] = record]
     /\ UNCHANGED losses
  \/ /\ losses < MaxLosses
     /\ losses' = losses + 1
     /\ UNCHANGED delivery

\* Mutant: one attempt too many is allowed.
DeferralOneMore(attempts) ==
  IF attempts > MaxAttempts
    THEN [status |-> "failed", attempts |-> attempts, wait |-> 0]
    ELSE [status |-> "deferred", attempts |-> attempts, wait |-> Backoff(attempts)]

\* Mutant: one attempt too few is made.
DeferralOneLess(attempts) ==
  IF attempts + 1 >= MaxAttempts
    THEN [status |-> "failed", attempts |-> attempts, wait |-> 0]
    ELSE [status |-> "deferred", attempts |-> attempts, wait |-> Backoff(attempts)]

\* The record deferDelivery stores.
Deferral(attempts) ==
  IF attempts >= MaxAttempts
    THEN [status |-> "failed", attempts |-> attempts, wait |-> 0]
    ELSE [status |-> "deferred", attempts |-> attempts, wait |-> Backoff(attempts)]

\* The message or its RFC form cannot be loaded, for good or this time:
\* deferred, but no attempt counted.
LoadFailed(c) ==
  /\ MessageOf(c.id) \in Unreadable
  /\ Take(c)
  /\ Put(c.id, Deferral(c.attempts))
  /\ UNCHANGED request

LoadMissed(c) ==
  /\ losses < MaxLosses
  /\ Take(c)
  /\ losses' = losses + 1
  /\ delivery' = [delivery EXCEPT ![c.id] = Deferral(c.attempts)]
  /\ UNCHANGED request

\* The attempt is stored before anything is sent.
Mark(c) ==
  /\ MessageOf(c.id) \notin Unreadable
  /\ Take(c)
  /\ delivery' = [delivery EXCEPT ![c.id] =
                    [status |-> "delivering", attempts |-> c.attempts + 1, wait |-> 0]]
  /\ request' = [id |-> c.id, attempts |-> c.attempts + 1, sent |-> FALSE]
  /\ UNCHANGED losses

\* The attempt could not be stored, so nothing is sent this time.
MarkFailed(c) ==
  /\ MessageOf(c.id) \notin Unreadable
  /\ losses < MaxLosses
  /\ Take(c)
  /\ losses' = losses + 1
  /\ UNCHANGED <<delivery, request>>

Send ==
  /\ request # None
  /\ ~request.sent
  /\ request' = [request EXCEPT !.sent = TRUE]
  /\ sends' = [sends EXCEPT ![request.id] = @ + 1]
  /\ UNCHANGED <<batch, reached, delivery, losses, bookVars, routeVars>>

\* Send returns.
Reply(ok) ==
  /\ request # None
  /\ request.sent
  /\ IF ok THEN Put(request.id, [status |-> "delivered", attempts |-> request.attempts, wait |-> 0])
           ELSE Put(request.id, Deferral(request.attempts))
  /\ reached' = IF ok THEN reached \cup {request.id} ELSE reached
  /\ request' = None
  /\ UNCHANGED <<batch, sends, bookVars, routeVars>>

Tock(n) == IF n = 0 THEN 0 ELSE n - 1

\* One minute passes, whatever the worker is at: a scan takes BatchLimit
\* deliveries only, so others may be due and left waiting.
Tick ==
  /\ \E d \in Deliveries : delivery[d].wait > 0
  /\ delivery' = [d \in Deliveries |-> [delivery[d] EXCEPT !.wait = Tock(@)]]
  /\ UNCHANGED <<losses, bookVars, routeVars, workVars>>

\* A crash or a shutdown, which does not wait for the worker, and a restart.
Crash ==
  /\ losses < MaxLosses
  /\ losses' = losses + 1
  /\ send' = [s \in Senders |-> None]
  /\ batch' = {} /\ request' = None
  /\ UNCHANGED <<lastMessage, to, sentBox, inbox, delivery, accepted, byUser, sends,
                 reached, bookVars>>

-----------------------------------------------------------------------------
Route(s) ==
  \/ \E R \in SUBSET Addresses : SendMail(s, R) \/ AcceptSMTP(s, R)
  \/ \E r \in Addresses : SendSystemMail(s, r)
  \/ Post(s)
  \/ \E r \in Addresses : FileLocal(s, r) \/ StoreDelivery(s, r)
  \/ Finish(s) \/ Bounce(s) \/ Fail(s)

Process ==
  \/ \E c \in batch : LoadFailed(c) \/ LoadMissed(c) \/ Mark(c) \/ MarkFailed(c)
  \/ Send
  \/ \E ok \in BOOLEAN : Reply(ok)

Next ==
  \/ \E s \in Senders : Route(s)
  \/ \E a, b \in Local : ChangeAddress(a, b)
  \/ \E a \in Local : OpenMailbox(a)
  \/ Scan \/ Process \/ Tick \/ Crash

Spec == Init /\ [][Next]_vars

\* The ticker keeps firing, Send returns and time passes.
Fairness == WF_vars(Scan) /\ WF_vars(Process) /\ WF_vars(Tick)

FairSpec == Spec /\ Fairness

-----------------------------------------------------------------------------
(* Properties.                                                             *)

\* Every variable holds values of its type.
TypeOK ==
  /\ mailbox \in SUBSET Local
  /\ changes \in 0 .. MaxChanges
  /\ lastMessage \in 0 .. MaxMessages
  /\ to \in [Messages -> SUBSET Addresses]
  /\ sentBox \in SUBSET Messages
  /\ inbox \in SUBSET Deliveries
  /\ delivery \in [Deliveries -> Records]
  /\ send \in [Senders -> Sends \cup {None}]
  /\ batch \in SUBSET Copies
  /\ request \in Requests \cup {None}
  /\ losses \in 0 .. MaxLosses
  /\ accepted \in SUBSET Messages
  /\ byUser \in SUBSET Messages
  /\ sends \in [Deliveries -> Nat]
  /\ reached \in SUBSET Deliveries

Held(d) == request # None /\ request.id = d

\* The worker's copies are never stale and the record of what it is sending
\* says so, with the attempt already counted.
CopiesFresh ==
  /\ \A c \in batch : Pending(c.id) /\ delivery[c.id].attempts = c.attempts
  /\ request # None => /\ delivery[request.id].status = "delivering"
                       /\ delivery[request.id].attempts = request.attempts

\* Never sent more often than the attempts on record; given up only after
\* exactly MaxAttempts requests none of which reported success.
SendsRecorded ==
  \A d \in Deliveries :
    /\ sends[d] <= delivery[d].attempts
    /\ delivery[d].status = "failed" => sends[d] = MaxAttempts /\ d \notin reached

\* A delivery whose Send reported success is never sent again, even if that
\* could not be recorded.
NeverResent ==
  [][\A d \in reached : sends'[d] = sends[d]]_vars

\* Each crash, shutdown or failed write strands at most one delivery.
StrandedAccounted ==
  Cardinality({d \in Deliveries : delivery[d].status = "delivering" /\ ~Held(d)}) <= losses

\* What the queue has on record is what was sent, and what is stuck was lost.
QueueAccounted == CopiesFresh /\ SendsRecorded /\ StrandedAccounted

\* A sender who was told of success has a Sent entry if it has a mailbox, and
\* every recipient has its delivery; deliveries and Inbox entries only exist
\* for recipients, a local delivery only with its Inbox entry.
RoutedExactly ==
  /\ \A m \in accepted :
       /\ m \in byUser => m \in sentBox
       /\ \A r \in to[m] : delivery[<<m, r>>].status # "absent"
  /\ \A m \in Messages, r \in Addresses :
       /\ <<m, r>> \in inbox => r \in to[m] \cap Local
       /\ delivery[<<m, r>>].status # "absent" =>
            /\ r \in to[m]
            /\ r \in Local => <<m, r>> \in inbox

\* A sender who was told of success and is shown "delivered" has reached every
\* recipient: the local ones' Inbox and the remote ones' servers.
ShownDelivered ==
  \A m \in accepted : Shown(m) = "delivered" =>
    \A r \in to[m] : <<m, r>> \in inbox \cup reached

\* A sender is told the truth, at once and later.
SendersTold == RoutedExactly /\ ShownDelivered

\* The refinement of the abstract queue: an attempt is on its record once its
\* outcome is stored; local deliveries are not queued.
Outbound == Messages \X Remote

StageOf(d) ==
  IF delivery[d].status \in {"queued", "deferred", "delivering"} THEN "waiting"
  ELSE delivery[d].status

Stages   == [d \in Outbound |-> StageOf(d)]
Recorded == [d \in Outbound |->
               IF delivery[d].status = "delivering" THEN delivery[d].attempts - 1
               ELSE delivery[d].attempts]

Lifecycle == INSTANCE DeliveryLifecycle WITH
  Ids <- Outbound, stage <- Stages, attempts <- Recorded

\* Remote deliveries do what the abstract queue allows and nothing else.
ImplementsLifecycle == Lifecycle!LifeSpec

\* Deliveries that cannot be loaded are due again each minute for ever; older
\* ones are taken first, and BatchLimit of them can fill every batch.
Crowded(d) ==
  BatchLimit <= Cardinality({f \in Deliveries :
    MessageOf(f) \in Unreadable /\ MessageOf(f) < MessageOf(d) /\ Pending(f)})

\* A remote delivery of a message that can be loaded is delivered or given up once
\* it waits, unless a loss stranded it or as many older deliveries as a batch takes
\* cannot be loaded; those are deferred for ever, never given up.
SettledUnlessStranded ==
  \A d \in (Messages \ Unreadable) \X Remote :
    Pending(d) ~> \/ delivery[d].status \in {"delivered", "failed"}
                  \/ delivery[d].status = "delivering" /\ ~Held(d)
                  \/ Crowded(d)
=============================================================================
