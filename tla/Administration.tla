--------------------------- MODULE Administration ---------------------------
(***************************************************************************)
(* Decisions of administrators about accounts and roles (internal/admin,   *)
(* internal/permission, web/handler/admin.go).  A request is authorized    *)
(* first and decides later, on rights it read in between, so a decision    *)
(* can be carried out by somebody who has just lost the right to it; and a *)
(* sign-in reads the status some calls before it stores its session.       *)
(***************************************************************************)
EXTENDS Handlers

CONSTANTS
  Owners, Admins, Members  \* the accounts, by the role they start with

People    == Owners \cup Admins \cup Members
Roles     == {"platform-admin", "source-maintainer", "rfc-maintainer"}
Decisions == {"active", "suspended"} \cup {"assign", "remove"}
AdminCalls ==
  [at : {"rights", "load", "store", "assign", "sweep", "verify"}, actor : People, target : People,
   choice : Decisions, role : Roles \cup {None}]

ASSUME AdministrationAssumption ==
  /\ Owners # {}
  /\ Owners \cap Admins = {} /\ (Owners \cup Admins) \cap Members = {}
  /\ None \notin Roles /\ None \notin AdminCalls

VARIABLES
  standing,  \* account status
  assigned,  \* permission/assignment, without the owners', which nothing takes back
  signedIn,  \* accounts with an open session
  lapsed,    \* history: some decision was carried out after its actor lost the right to it
  unswept,   \* history: accounts whose sessions a fault left open
  overtaken  \* history: accounts suspended while they were signing in

adminVars == <<standing, assigned, signedIn, lapsed, unswept, overtaken>>

AdministrationInit ==
  /\ standing = [a \in People |-> "active"]
  /\ assigned = Admins \X {"platform-admin"}
  /\ signedIn = People
  /\ lapsed = FALSE /\ unswept = {} /\ overtaken = {}

IsOwner(a) == a \in Owners
IsAdministrator(a) == IsOwner(a) \/ <<a, "platform-admin">> \in assigned

-----------------------------------------------------------------------------
\* authorize: the session, the account's status and its role are looked up.
Authorize(p, a, t, choice, role) ==
  /\ a \in signedIn /\ standing[a] = "active" /\ IsAdministrator(a)
  /\ Begin(p, [at |-> "rights", actor |-> a, target |-> t, choice |-> choice, role |-> role])
  /\ UNCHANGED adminVars

\* Mutant: an owner may act on the own account.
CanManageSelf(r) == IsOwner(r.target) => IsOwner(r.actor)

\* canManage, after the check that nobody changes the own status.
CanManage(r) ==
  /\ r.actor # r.target
  /\ IsOwner(r.target) => IsOwner(r.actor)

\* Only owners give and take roles, and never an owner's; nor the own administrator's role.
CanAssign(r) ==
  /\ IsOwner(r.actor) /\ ~ IsOwner(r.target)
  /\ r.role = "platform-admin" => r.actor # r.target

CheckRights(p) ==
  LET r == req[p] IN
  /\ At(p, "rights")
  /\ IF r.role = None
     THEN IF CanManage(r) THEN Goto(p, "load") ELSE Return(p)
     ELSE IF CanAssign(r) THEN Goto(p, "assign") ELSE Return(p)
  /\ UNCHANGED adminVars

\* The status is stored already: nothing to do.
LoadStanding(p) ==
  /\ At(p, "load")
  /\ IF standing[req[p].target] = req[p].choice THEN Return(p) ELSE Goto(p, "store")
  /\ UNCHANGED adminVars

\* Accounts whose status a sign-in has read that is still to store its session.
SigningIn == {req[p].target : p \in {q \in InFlight : req[q].at = "verify"}}

Entitled(a) == standing[a] = "active" /\ IsAdministrator(a)

StoreStanding(p) ==
  LET r == req[p] IN
  /\ At(p, "store")
  /\ standing' = [standing EXCEPT ![r.target] = r.choice]
  /\ lapsed' = (lapsed \/ ~ Entitled(r.actor))
  /\ IF r.choice = "suspended"
     THEN Goto(p, "sweep") /\ overtaken' = overtaken \cup ({r.target} \cap SigningIn)
     ELSE Return(p) /\ UNCHANGED overtaken
  /\ UNCHANGED <<assigned, signedIn, unswept>>

\* UpdateAdministrator, UpdateSourceMaintainer and UpdateRFCMaintainer.
StoreAssignment(p) ==
  LET r == req[p] IN
  /\ At(p, "assign")
  /\ assigned' = IF r.choice = "assign" THEN assigned \cup {<<r.target, r.role>>}
                 ELSE assigned \ {<<r.target, r.role>>}
  /\ lapsed' = (lapsed \/ ~ Entitled(r.actor))
  /\ IF r.choice = "remove" /\ r.role = "platform-admin" THEN Goto(p, "sweep") ELSE Return(p)
  /\ UNCHANGED <<standing, signedIn, unswept, overtaken>>

\* DeleteByAccount; Sessions has its steps.
Sweep(p) ==
  LET t == req[p].target IN
  /\ At(p, "sweep") /\ Return(p)
  /\ signedIn' = signedIn \ {t} /\ unswept' = unswept \ {t}
  /\ overtaken' = overtaken \ ({t} \ SigningIn)
  /\ UNCHANGED <<standing, assigned, lapsed>>

\* Mutant: the status is not looked at.
BeginSignInAny(p, a) ==
  /\ Begin(p, [at |-> "verify", actor |-> a, target |-> a, choice |-> "active", role |-> None])
  /\ UNCHANGED adminVars

\* AuthenticateTOTP: the account is looked up first.
BeginSignIn(p, a) ==
  /\ standing[a] = "active"
  /\ Begin(p, [at |-> "verify", actor |-> a, target |-> a, choice |-> "active", role |-> None])
  /\ UNCHANGED adminVars

\* The code is accepted or not, and the status not read again.
OpenSession(p) ==
  /\ At(p, "verify") /\ Return(p)
  /\ signedIn' \in {signedIn, signedIn \cup {req[p].target}}
  /\ UNCHANGED <<standing, assigned, lapsed, unswept, overtaken>>

Sweeping == {p \in InFlight : req[p].at = "sweep"}

FailDecision(p) ==
  /\ p \in InFlight
  /\ Fault(p, None)
  /\ unswept' = unswept \cup {req[q].target : q \in Sweeping \cap {p}}
  /\ UNCHANGED <<standing, assigned, signedIn, lapsed, overtaken>>

CrashDecisions ==
  /\ Crash
  /\ unswept' = unswept \cup {req[q].target : q \in Sweeping}
  /\ UNCHANGED <<standing, assigned, signedIn, lapsed, overtaken>>

AdministrationNext ==
  \/ \E p \in Requests, a \in People, t \in People :
       \/ \E s \in {"active", "suspended"} : Authorize(p, a, t, s, None)
       \/ \E c \in {"assign", "remove"}, role \in Roles : Authorize(p, a, t, c, role)
  \/ \E p \in Requests :
       \/ CheckRights(p) \/ LoadStanding(p) \/ StoreStanding(p)
       \/ StoreAssignment(p) \/ Sweep(p) \/ OpenSession(p) \/ FailDecision(p)
  \/ \E p \in Requests, a \in People : BeginSignIn(p, a)
  \/ CrashDecisions

-----------------------------------------------------------------------------
\* Every variable has its type, and each handler is at a call of its operation.
AdministrationTypeOK ==
  /\ HandlersIn("administration", AdminCalls)
  /\ standing \in [People -> {"active", "suspended"}]
  /\ assigned \subseteq People \X Roles
  /\ signedIn \subseteq People /\ unswept \subseteq People /\ overtaken \subseteq People
  /\ lapsed \in BOOLEAN

\* The platform is never left without an active owner, although owners can suspend one
\* another: whoever suspends is active, unless it was suspended while its request was on its
\* way (admin.UpdateAccountStatus refuses only actions on the own account).
OwnerRemains == lapsed \/ \E a \in Owners : standing[a] = "active"

\* A suspended account has no session, unless the handler is still to end it or was cut
\* short, or the account was signing in when it was suspended: suspending it again ends no
\* session, its status being stored already.
SuspendedSignedOut ==
  \A a \in signedIn \ (unswept \cup overtaken) : standing[a] = "active"
    \/ \E p \in Requests : At(p, "sweep") /\ req[p].target = a

\* Somebody can always administer the platform, and whoever may not use it is not signed in.
AdministrationPromise == OwnerRemains /\ SuspendedSignedOut
=============================================================================
