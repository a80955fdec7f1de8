------------------------------- MODULE Startup -------------------------------
(***************************************************************************)
(* What the platform stores while it starts (internal/platform): its first *)
(* administrator, the mailboxes of its own addresses and the default       *)
(* mailing lists.  A start stores one record after the other, takes back   *)
(* the administrator's if a later one fails, and may be cut short          *)
(* anywhere; the next start then meets what it left.                       *)
(*                                                                         *)
(* One process has the store, so starts follow one another; each is a      *)
(* request here.  What else a start imports is in Blog and Documents, and  *)
(* several requests for one platform mailbox are in Mailboxes.             *)
(***************************************************************************)
EXTENDS Handlers, Sequences

CONSTANT Platform  \* the holder of the platform's own mailboxes

\* The platform's own addresses, as steps of the start: the last three belong to lists.
Steps == <<[box |-> "support", list |-> FALSE], [box |-> "patchs", list |-> FALSE],
           [box |-> "announce", list |-> TRUE], [box |-> "development", list |-> TRUE],
           [box |-> "patchs", list |-> TRUE]>>
Own    == {Steps[i].box : i \in DOMAIN Steps}
Locals == Own \cup {"admin"}
ListIds == {s.box : s \in {Steps[i] : i \in {j \in DOMAIN Steps : Steps[j].list}}}

\* Accounts registered by a start are named as the start; Before was there before.
Before  == 0
Ids0    == 0 .. MaxRequests
StartPlaces ==
  {"look", "role", "create", "factor", "box", "own", "audit", "known", "renew", "link", "service", "list"}
UndoPlaces  == {"unassign", "unbox", "unfactor", "unaccount"}
StartCalls  ==
  [at : StartPlaces \cup UndoPlaces, id : Ids0, config : {"admin", "none"}, next : DOMAIN Steps,
   why : {"conflict", "failed"}]

ASSUME StartupAssumption ==
  Platform # None /\ Platform \notin Nat /\ None \notin Nat /\ None \notin StartCalls

Outcomes == {"served", "refused", "conflict", "failed", "misconfigured"}
\* How a start was configured, how it ended, and whether it could not read the role it asked for.
Endings  == [config : {"admin", "none", "partial"}, outcome : Outcomes, unread : BOOLEAN]

VARIABLES
  name,     \* the administrator's local part, as configured
  founder,  \* account/name of that local part
  owners,   \* permission/assignment of platform-owner
  factored, \* accounts with an authenticator
  boxOf,    \* mailbox/address: the account of each address's mailbox
  list,     \* mailing-list/list
  audited,  \* accounts with an account.bootstrap event
  linked,   \* accounts whose recovery address was sent a link
  last,     \* the last start's ending, or None
  halted    \* history: accounts with a start that was cut short or could not be taken back

admin == <<name, founder, owners, factored, audited, linked>>
startVars == <<admin, boxOf, list, last, halted>>

\* An older build may have served without an administrator, so that somebody else has the
\* name; or a start failed, failed to take back the role, and died before the account, which
\* is then an owner's with nothing else.
StartupInit ==
  /\ name \in Locals
  /\ \E before \in {"nothing", "platform", "stranger", "owner"} :
       LET there == IF before \in {"stranger", "owner"} THEN {Before} ELSE {} IN
       /\ before = "stranger" => name = "admin"
       /\ founder = IF there = {} THEN None ELSE Before
       /\ owners = IF before = "owner" THEN {Before} ELSE {}
       /\ halted = owners
       /\ factored = there \ owners
       /\ boxOf = [l \in Locals |-> IF before \in {"platform", "stranger"} /\ l \in Own THEN Platform
                                    ELSE IF before = "stranger" THEN Before ELSE None]
       /\ list = IF before \in {"platform", "stranger"} THEN ListIds ELSE {}
  /\ audited = {} /\ linked = {}
  /\ last = None

-----------------------------------------------------------------------------
\* A start ends.
Ending(p, outcome, unread) == [config |-> req[p].config, outcome |-> outcome, unread |-> unread]
End(p, outcome) == Return(p) /\ last' = Ending(p, outcome, FALSE)

\* Settings of which some are missing are not accepted, whatever is stored.
StartMisconfigured ==
  /\ Once
  /\ InFlight = {}
  /\ last' = [config |-> "partial", outcome |-> "misconfigured", unread |-> FALSE]
  /\ UNCHANGED <<admin, boxOf, list, halted>>

StartConfigured(p, config) ==
  /\ InFlight = {}
  /\ Begin(p, [at |-> IF config = "admin" THEN "look" ELSE "service", id |-> begun + 1,
               config |-> config, next |-> 1, why |-> "failed"])
  /\ UNCHANGED startVars

MayTakeOffice(a) == a \in owners

\* BootstrapTOTPAdmin: the account of the configured name, if it is there, must be an owner's.
LookForFounder(p) ==
  /\ At(p, "look")
  /\ IF founder = None THEN Goto(p, "create")
     ELSE Continue(p, [req[p] EXCEPT !.at = "role", !.id = founder])
  /\ UNCHANGED startVars

CheckRole(p) ==
  /\ At(p, "role")
  /\ IF MayTakeOffice(req[p].id) THEN Goto(p, "known") /\ UNCHANGED last ELSE End(p, "refused")
  /\ UNCHANGED <<admin, boxOf, list, halted>>

CheckFactor(p) ==
  /\ At(p, "known")
  /\ Goto(p, IF founder \in factored THEN "service" ELSE "renew")
  /\ UNCHANGED startVars

-----------------------------------------------------------------------------
(* Register for an administrator.                                          *)

CreateFounder(p) ==
  /\ At(p, "create") /\ Goto(p, "factor")
  /\ founder' = req[p].id
  /\ UNCHANGED <<name, owners, factored, audited, linked, boxOf, list, last, halted>>

PutFactor(p) ==
  /\ At(p, "factor") \/ At(p, "renew")
  /\ factored' = factored \cup {req[p].id}
  /\ Goto(p, IF req[p].at = "renew" THEN "link" ELSE "box")
  /\ UNCHANGED <<name, founder, owners, audited, linked, boxOf, list, last, halted>>

\* An administrator's name may be an address of the platform; its mailbox may be there.
OpenFounderBox(p) ==
  /\ At(p, "box")
  /\ IF boxOf[name] = None
     THEN boxOf' = [boxOf EXCEPT ![name] = req[p].id] /\ Goto(p, "own")
     ELSE Continue(p, [req[p] EXCEPT !.at = "unfactor", !.why = "conflict"]) /\ UNCHANGED boxOf
  /\ UNCHANGED <<admin, list, last, halted>>

AssignOwner(p) ==
  /\ At(p, "own") /\ Goto(p, "audit")
  /\ owners' = owners \cup {req[p].id}
  /\ UNCHANGED <<name, founder, factored, audited, linked, boxOf, list, last, halted>>

AuditFounder(p) ==
  /\ At(p, "audit") /\ Goto(p, "link")
  /\ audited' = audited \cup {req[p].id}
  /\ UNCHANGED <<name, founder, owners, factored, linked, boxOf, list, last, halted>>

\* sendRecoveryVerification, whose error is ignored.
SendLink(p) ==
  /\ At(p, "link") /\ Goto(p, "service")
  /\ linked' = linked \cup {req[p].id}
  /\ UNCHANGED <<name, founder, owners, factored, audited, boxOf, list, last, halted>>

\* Mutant: the mailbox is forgotten when a start is taken back.
UndoneBefore(place) ==
  [own |-> "unfactor", audit |-> "unassign", unassign |-> "unfactor", unbox |-> "unfactor",
   box |-> "unfactor", unfactor |-> "unaccount", factor |-> "unaccount"][place]

\* The deferred calls run last first; each takes back what was stored before that place.
Undone(place) ==
  [own |-> "unbox", audit |-> "unassign", unassign |-> "unbox", unbox |-> "unfactor",
   box |-> "unfactor", unfactor |-> "unaccount", factor |-> "unaccount"][place]

TakeBackFounder(p) ==
  LET r == req[p] IN
  /\ p \in InFlight /\ r.at \in UndoPlaces
  /\ owners' = IF r.at = "unassign" THEN owners \ {r.id} ELSE owners
  /\ factored' = IF r.at = "unfactor" THEN factored \ {r.id} ELSE factored
  /\ boxOf' = IF r.at = "unbox" THEN [boxOf EXCEPT ![name] = None] ELSE boxOf
  /\ IF r.at = "unaccount" THEN founder' = None /\ End(p, r.why)
     ELSE Goto(p, Undone(r.at)) /\ UNCHANGED <<founder, last>>
  /\ UNCHANGED <<name, audited, linked, list, halted>>

-----------------------------------------------------------------------------
(* EnsureManagementMailbox, EnsurePatchMailbox and EnsureDefaults.         *)

Following(r) == [r EXCEPT !.at = "service", !.next = r.next + 1]

\* The next address's mailbox is found, or opened unless somebody else has the address.
EnsureServiceBox(p) ==
  LET r == req[p] step == Steps[r.next] IN
  /\ At(p, "service")
  /\ IF boxOf[step.box] \in {None, Platform}
     THEN /\ boxOf' = [boxOf EXCEPT ![step.box] = Platform]
          /\ Continue(p, IF step.list THEN [r EXCEPT !.at = "list"] ELSE Following(r))
          /\ UNCHANGED last
     ELSE End(p, "conflict") /\ UNCHANGED boxOf
  /\ UNCHANGED <<admin, list, halted>>

\* The list is stored if it is missing; its settings are then left alone.
EnsureList(p) ==
  LET r == req[p] IN
  /\ At(p, "list")
  /\ list' = list \cup {Steps[r.next].box}
  /\ IF r.next = Len(Steps) THEN End(p, "served") ELSE Continue(p, Following(r)) /\ UNCHANGED last
  /\ UNCHANGED <<admin, boxOf, halted>>

-----------------------------------------------------------------------------
\* A call fails.  Failing to look for the authenticator or to send the link does not matter
\* to the start, nor does failing to take back; an owner whose role cannot be read counts as
\* none (IsOwner); anything else ends the start.
FailStart(p) ==
  LET r == req[p] IN
  /\ p \in InFlight
  /\ Fault(p, IF r.at \in {"known", "link"} THEN [r EXCEPT !.at = "service"]
              ELSE IF r.at \in {"factor", "box", "own", "audit", "unassign", "unbox", "unfactor"}
              THEN [r EXCEPT !.at = Undone(r.at)]
              ELSE None)
  /\ halted' = IF r.at \in UndoPlaces \cup {"link"} THEN halted \cup {r.id} ELSE halted
  /\ last' = IF r.at = "role" THEN Ending(p, "refused", TRUE)
             ELSE IF req'[p] = None THEN Ending(p, r.why, FALSE) ELSE last
  /\ UNCHANGED <<admin, boxOf, list>>

CrashStart ==
  /\ Crash
  /\ halted' = halted \cup {req[p].id : p \in InFlight}
  /\ last' = None
  /\ UNCHANGED <<admin, boxOf, list>>

StartupNext ==
  \/ StartMisconfigured
  \/ \E p \in Requests, config \in {"admin", "none"} : StartConfigured(p, config)
  \/ \E p \in Requests :
       \/ LookForFounder(p) \/ CheckRole(p) \/ CheckFactor(p) \/ CreateFounder(p)
       \/ PutFactor(p) \/ OpenFounderBox(p) \/ AssignOwner(p) \/ AuditFounder(p) \/ SendLink(p)
       \/ TakeBackFounder(p) \/ EnsureServiceBox(p) \/ EnsureList(p) \/ FailStart(p)
  \/ CrashStart

-----------------------------------------------------------------------------
\* Every variable has its type, and each handler is at a call of a start.
StartupTypeOK ==
  /\ HandlersIn("startup", StartCalls)
  /\ name \in Locals
  /\ founder \in Ids0 \cup {None}
  /\ {owners, factored, audited, linked, halted} \subseteq SUBSET Ids0
  /\ boxOf \in [Locals -> Ids0 \cup {None, Platform}]
  /\ list \subseteq ListIds
  /\ last \in Endings \cup {None}

Ended(outcome) == last # None /\ last.outcome = outcome

\* A start that serves has the platform's mailboxes and lists and, if it was told of an
\* administrator, an owner who can sign in and gets mail; only for one whose start was halted
\* short the mailbox, the audit event or the link may be missing, and stays so.
StartedWhole ==
  Ended("served") =>
    /\ \A l \in Own : boxOf[l] = Platform
    /\ list = ListIds
    /\ last.config = "admin" =>
         /\ founder \in owners
         /\ founder \notin halted => founder \in factored \cap audited \cap linked /\ boxOf[name] = founder

\* A start that fails leaves nothing of its administrator behind, and so the next one is as
\* good as the first, unless a crash kept it from taking back what it stored (identity.Register).
NothingLeft ==
  InFlight = {} /\ founder = None => (owners \cup factored \cup {boxOf[name]}) \cap (1 .. MaxRequests) \subseteq halted

\* The platform refuses to start for no other reason than a name that is somebody else's, a
\* role that could not be read, an administrator's name that is one of its own addresses, or
\* a start that was cut short: it left an account without its role or a mailbox without its
\* account, which no start repairs.
RefusedForCause ==
  /\ Ended("refused") => founder # None /\ (founder \in {Before} \cup halted \/ last.unread)
  /\ Ended("conflict") => name \in Own \/ boxOf[name] \in halted

\* The administrator of a platform that has served is never replaced or taken back by
\* another start, whatever fails in it (identity.BootstrapTOTPAdmin).
FounderStays ==
  [][Ended("served") /\ last.config = "admin" =>
       founder' = founder /\ owners \subseteq owners' /\ factored \subseteq factored']_<<handlers, startVars>>

\* A start ends with a whole platform, or leaves no trace and says why.
StartupPromise == [](StartedWhole /\ NothingLeft /\ RefusedForCause) /\ FounderStays
=============================================================================
