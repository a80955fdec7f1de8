------------------------------- MODULE Patches -------------------------------
(***************************************************************************)
(* The patch archive (internal/patcharchive): patches that arrived by mail *)
(* and the series they form, the maintainers' reviews, comments and        *)
(* downloads, and the audit log (internal/audit) that each is entered in.  *)
(*                                                                         *)
(* What is decided and its audit event are two calls, and Append reads the *)
(* log's sequence number and writes the event in one transaction, which    *)
(* fails if another event was appended meanwhile.                          *)
(***************************************************************************)
EXTENDS Handlers, Sequences, Functions

CONSTANTS
  Kinds,   \* author, version and number of parts of a patch's series
  Singles  \* the kinds of patches that are their series' only part

Mail       == 1 .. MaxRequests  \* mail and decisions, each named as its request
ReviewOps  == {"review", "comment", "resolve", "download"}
PatchMail  == [kind : Kinds \cup {None}, header : Mail \cup {None}]
PatchCalls ==
  [at : {"maintainer", "get", "store", "audit", "append"}, op : ReviewOps, id : Mail, patch : Mail,
   on : Mail \cup {None}, seen : 0 .. MaxRequests]

ASSUME PatchesAssumption ==
  /\ Singles \subseteq Kinds
  /\ None \notin Kinds /\ None \notin Mail /\ None \notin PatchMail /\ None \notin PatchCalls

VARIABLES
  arrived,    \* mail in the archive; its kind is None if it is not a valid patch
  review,     \* patch/review, by patch the last decision
  comment,    \* patch/comment, with the last decision about it
  log,        \* the audit events, in the order of their sequence numbers
  made,       \* history: decisions carried out
  answered,   \* history: decisions answered with success
  conflicted, \* history: events refused since another was appended meanwhile
  unlogged    \* history: decisions a fault left without their event

patchVars == <<arrived, review, comment, log, made, answered, conflicted, unlogged>>

PatchesInit ==
  /\ arrived = [m \in Mail |-> None] /\ review = [m \in Mail |-> None]
  /\ comment = [m \in Mail |-> None]
  /\ log = <<>>
  /\ made = {} /\ answered = {} /\ conflicted = {} /\ unlogged = {}

-----------------------------------------------------------------------------
(* Series.                                                                 *)

Valid == {m \in Mail : arrived[m] # None /\ arrived[m].kind # None}

\* The patch that m's In-Reply-To names, itself if none does.
ParentOf(m) == IF arrived[m].header \in Valid THEN arrived[m].header ELSE m

\* Mutant: the way up is one step.
RootOfParent(m) == ParentOf(m)

\* Where the way up ends, or closes a circle.
RootOf(m) ==
  LET up[n \in 0 .. Cardinality(Valid)] == IF n = 0 THEN m ELSE ParentOf(up[n - 1])
      back == {n \in 1 .. Cardinality(Valid) : \E k \in 0 .. n - 1 : up[k] = up[n]}
  IN  up[CHOOSE n \in back : \A k \in back : n <= k]

\* What a patch's page shows of its series: the patch, unless it is one of several parts.
SeriesMembers(m) ==
  IF arrived[m].kind \in Singles THEN {m}
  ELSE {n \in Valid : RootOf(n) = RootOf(m) /\ arrived[n].kind = arrived[m].kind}

Receive(kind, header) ==
  /\ Once
  /\ arrived' = [arrived EXCEPT ![begun + 1] = [kind |-> kind, header |-> header]]
  /\ UNCHANGED <<review, comment, log, made, answered, conflicted, unlogged>>

-----------------------------------------------------------------------------
(* UpdateReview, AddReviewComment, ResolveReviewComment and DownloadMbox.  *)

Decide(p, op, m, c) ==
  /\ arrived[m] # None
  /\ op = "resolve" <=> c # None
  /\ c # None => comment[c] # None
  /\ Begin(p, [at |-> "maintainer", op |-> op, id |-> begun + 1, patch |-> m, on |-> c, seen |-> 0])
  /\ UNCHANGED patchVars

\* The actor's roles are left open.
CanMaintain(p) ==
  /\ At(p, "maintainer")
  /\ Goto(p, "get") \/ Return(p)
  /\ UNCHANGED patchVars

\* Get; DownloadMbox collects its patches here.
Get(p) ==
  /\ At(p, "get")
  /\ IF req[p].patch \in Valid THEN Goto(p, IF req[p].op = "download" THEN "audit" ELSE "store")
     ELSE Return(p)
  /\ made' = IF req[p].op = "download" /\ req[p].patch \in Valid THEN made \cup {req[p].id} ELSE made
  /\ UNCHANGED <<arrived, review, comment, log, answered, conflicted, unlogged>>

StoreDecision(p) ==
  LET r == req[p] IN
  /\ At(p, "store") /\ Goto(p, "audit")
  /\ review' = IF r.op = "review" THEN [review EXCEPT ![r.patch] = r.id] ELSE review
  /\ comment' = IF r.op = "comment" THEN [comment EXCEPT ![r.id] = r.id]
                ELSE IF r.op = "resolve" THEN [comment EXCEPT ![r.on] = r.id] ELSE comment
  /\ made' = made \cup {r.id}
  /\ UNCHANGED <<arrived, log, answered, conflicted, unlogged>>

ReadSequence(p) ==
  /\ At(p, "audit")
  /\ Continue(p, [req[p] EXCEPT !.at = "append", !.seen = Len(log)])
  /\ UNCHANGED patchVars

AppendEvent(p) ==
  LET r == req[p] IN
  /\ At(p, "append") /\ Return(p)
  /\ IF r.seen = Len(log)
     THEN log' = Append(log, r.id) /\ answered' = answered \cup {r.id} /\ UNCHANGED conflicted
     ELSE conflicted' = conflicted \cup {r.id} /\ UNCHANGED <<log, answered>>
  /\ UNCHANGED <<arrived, review, comment, made, unlogged>>

Unlogged == {p \in Of("patches") : req[p].at \in {"audit", "append"}}

FailReview(p) ==
  /\ p \in InFlight
  /\ Fault(p, None)
  /\ unlogged' = unlogged \cup {req[q].id : q \in Unlogged \cap {p}}
  /\ UNCHANGED <<arrived, review, comment, log, made, answered, conflicted>>

CrashReviews ==
  /\ Crash
  /\ unlogged' = unlogged \cup {req[q].id : q \in Unlogged}
  /\ UNCHANGED <<arrived, review, comment, log, made, answered, conflicted>>

PatchesNext ==
  \/ \E kind \in Kinds \cup {None}, m \in Mail \cup {None} : Receive(kind, m)
  \/ \E p \in Requests, op \in ReviewOps, m \in Mail, c \in Mail \cup {None} : Decide(p, op, m, c)
  \/ \E p \in Requests :
       \/ CanMaintain(p) \/ Get(p) \/ StoreDecision(p)
       \/ ReadSequence(p) \/ AppendEvent(p) \/ FailReview(p)
  \/ CrashReviews

-----------------------------------------------------------------------------
\* Every variable has its type, and each handler is at a call of its operation.
PatchesTypeOK ==
  /\ HandlersIn("patches", PatchCalls)
  /\ arrived \in [Mail -> PatchMail \cup {None}]
  /\ review \in [Mail -> Mail \cup {None}] /\ comment \in [Mail -> Mail \cup {None}]
  /\ DOMAIN log \in {1 .. n : n \in 0 .. MaxRequests} /\ Range(log) \subseteq Mail
  /\ UNION {made, answered, conflicted, unlogged} \subseteq Mail

Circling(m) == \E S \in SUBSET Valid : m \in S /\ \A n \in S : ParentOf(n) \in S \ {n}

\* Joined by replies, in whichever direction.
Joined(m, n) ==
  \A S \in SUBSET Valid : m \in S /\ (\A k \in Valid : k \in S <=> ParentOf(k) \in S) => n \in S

\* A series of several parts is what one author sent of one version in one conversation,
\* whichever part a reader opens and in whatever order the parts came, unless mail replies to
\* itself in a circle; other patches of the conversation are shown alone
\* (patcharchive.seriesMembers).
SeriesWhole ==
  \A m \in Valid :
    IF arrived[m].kind \in Singles THEN SeriesMembers(m) = {m}
    ELSE Circling(m) \/
      SeriesMembers(m) = {n \in Valid : arrived[n].kind = arrived[m].kind /\ Joined(m, n)}

\* The audit log holds each decision once and none that was not carried out; one is missing
\* only while its handler is on the way, after a fault, or when two events were appended at
\* a time, and then the actor was told of a failure (audit.Append, patcharchive.appendAudit).
LogComplete ==
  /\ IsInjective(log)
  /\ Range(log) \subseteq made
  /\ answered \subseteq Range(log)
  /\ made \subseteq UNION {Range(log), conflicted, unlogged, {req[p].id : p \in Unlogged}}

\* The archive shows series whole and answers for every decision about them.
PatchesPromise == SeriesWhole /\ LogComplete
=============================================================================
