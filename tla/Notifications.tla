---------------------------- MODULE Notifications ----------------------------
(***************************************************************************)
(* One account's notifications (internal/notification).  An item is stored *)
(* by one call; then those past the newest MaxStored are listed and        *)
(* deleted one by one.  Marking reads an item, or lists all of them, and   *)
(* stores each again with the time it was read.                            *)
(***************************************************************************)
EXTENDS Handlers, FiniteSetsExt

CONSTANT MaxStored  \* MaxStoredPerAccount

Notices  == 1 .. MaxRequests  \* items, each named as its request and the older the lower
NoticeCalls ==
  [at : {"store", "list"}, id : Notices]
    \cup [at : {"delete", "mark"}, rest : SUBSET Notices]
    \cup [at : {"listUnread"}]

ASSUME NotificationsAssumption == MaxStored \in Nat \ {0} /\ None \notin NoticeCalls

VARIABLES
  notice,  \* notification/account: the items stored
  read,    \* the items stored with a time they were read
  marked,  \* history: items that were marked as read
  deleted, \* history: items that were pruned
  behind   \* history: items that nobody listed since a fault kept their handler from pruning

noticeVars == <<notice, read, marked, deleted, behind>>

NotificationsInit ==
  notice = {} /\ read = {} /\ marked = {} /\ deleted = {} /\ behind = {}

\* Notify; what somebody did to the own content is told to nobody.
Notify(p) == Begin(p, [at |-> "store", id |-> begun + 1]) /\ UNCHANGED noticeVars

\* Two items of different handlers can be stored in the other order than they were made.
StoreNotice(p) ==
  /\ At(p, "store") /\ Goto(p, "list")
  /\ notice' = notice \cup {req[p].id}
  /\ UNCHANGED <<read, marked, deleted, behind>>

Newer(i) == {j \in notice : j > i}

Prunable == {i \in notice : Cardinality(Newer(i)) >= MaxStored}

Work(p, place, rest) ==
  IF rest = {} THEN Return(p) ELSE Continue(p, [at |-> place, rest |-> rest])

ListPrunable(p) ==
  /\ At(p, "list") /\ Work(p, "delete", Prunable)
  /\ behind' = {}
  /\ UNCHANGED <<notice, read, marked, deleted>>

\* An item that somebody else deleted is deleted again, which is no error.
DeleteNotice(p) ==
  LET i == Max(req[p].rest) IN
  /\ At(p, "delete") /\ Work(p, "delete", req[p].rest \ {i})
  /\ notice' = notice \ {i} /\ read' = read \ {i}
  /\ deleted' = deleted \cup {i}
  /\ UNCHANGED <<marked, behind>>

-----------------------------------------------------------------------------
\* MarkRead of one item, or MarkAllRead; those read already are left as they are.
MarkRead(p, i) ==
  /\ i \in notice \ read
  /\ Begin(p, [at |-> "mark", rest |-> {i}])
  /\ UNCHANGED noticeVars

MarkAllRead(p) == Begin(p, [at |-> "listUnread"]) /\ UNCHANGED noticeVars

ListUnread(p) ==
  /\ At(p, "listUnread") /\ Work(p, "mark", notice \ read)
  /\ UNCHANGED noticeVars

\* Mutant: the copies are stored without the time.
StoreMarkedPlain(p) ==
  LET i == Max(req[p].rest) IN
  /\ At(p, "mark") /\ Work(p, "mark", req[p].rest \ {i})
  /\ notice' = notice \cup {i} /\ read' = read \ {i}
  /\ marked' = marked \cup {i}
  /\ UNCHANGED <<deleted, behind>>

\* The item is stored whether or not it was pruned since it was read.
StoreMarked(p) ==
  LET i == Max(req[p].rest) IN
  /\ At(p, "mark") /\ Work(p, "mark", req[p].rest \ {i})
  /\ notice' = notice \cup {i} /\ read' = read \cup {i}
  /\ marked' = marked \cup {i}
  /\ UNCHANGED <<deleted, behind>>

-----------------------------------------------------------------------------
Uncounted(ps) ==
  IF \E p \in ps : req[p].at \in {"list", "delete"} THEN notice ELSE {}

FailNotice(p) ==
  /\ p \in InFlight
  /\ Fault(p, None)
  /\ behind' = behind \cup Uncounted({p})
  /\ UNCHANGED <<notice, read, marked, deleted>>

CrashNotices ==
  /\ Crash
  /\ behind' = behind \cup Uncounted(InFlight)
  /\ UNCHANGED <<notice, read, marked, deleted>>

NotificationsNext ==
  \/ \E p \in Requests : Notify(p) \/ MarkAllRead(p) \/ \E i \in Notices : MarkRead(p, i)
  \/ \E p \in Requests :
       \/ StoreNotice(p) \/ ListPrunable(p) \/ DeleteNotice(p)
       \/ ListUnread(p) \/ StoreMarked(p) \/ FailNotice(p)
  \/ CrashNotices

-----------------------------------------------------------------------------
\* Every variable has its type, and each handler is at a call of its operation.
NotificationsTypeOK ==
  /\ HandlersIn("notifications", NoticeCalls)
  /\ notice \subseteq Notices /\ read \subseteq notice
  /\ UNION {marked, deleted, behind} \subseteq Notices

Pruning == \E p \in InFlight : req[p].at \in {"store", "list", "delete"}

\* No account keeps more than MaxStored items once those who notify it are done, but for
\* items that were deleted and stored again (notification.MarkAllRead stores what it listed)
\* and for those of a handler that did not get to prune, until the next one does.
StoredBounded ==
  Pruning \/ behind # {} \/ Cardinality(notice \ deleted) <= MaxStored

\* Pruning takes an item only when MaxStored newer ones were there.
NewestKept ==
  [][\A i \in deleted' \ deleted :
       Cardinality({j \in notice \cup deleted : j > i}) >= MaxStored]_<<handlers, noticeVars>>

\* What was marked as read stays so as long as it is stored, whatever overlaps: every copy
\* that is stored again is a read one.
ReadStays == marked \cap notice \subseteq read

\* The newest items are kept, and no more of them; what was read stays read.
NotificationsPromise == [](StoredBounded /\ ReadStays) /\ NewestKept
=============================================================================
