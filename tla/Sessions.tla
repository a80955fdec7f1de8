------------------------------ MODULE Sessions ------------------------------
(***************************************************************************)
(* Browser sessions (internal/session) and what opens and revokes them:    *)
(* sign-in, registration, rotation and recovery (internal/identity), and   *)
(* the suspension of accounts (internal/admin).  No lock or transaction    *)
(* spans the calls of a request: a sign-in checks the status, then the     *)
(* code, then stores its session; a revocation reads the account's index,  *)
(* then deletes the sessions it read one by one.                           *)
(*                                                                         *)
(* Verifying codes and storing factors is the matter of Authenticator: of  *)
(* a factor only its generation counts here, the number of times it was    *)
(* replaced.                                                               *)
(***************************************************************************)
EXTENDS Integers, FiniteSets

CONSTANTS
  Accounts,        \* user names
  Enrolled,        \* the accounts that exist at the start
  Requests,        \* request handlers
  MaxReplacements, \* bound: authenticators replaced, for each account
  MaxRequests,     \* bound: requests handled
  MaxFaults,       \* bound: crashes, failed reads and writes
  None             \* no session or request

ASSUME SizeAssumption ==
  /\ {MaxReplacements, MaxRequests, MaxFaults} \subseteq Nat
  /\ Enrolled \subseteq Accounts
  /\ None \notin Accounts \cup Requests

\* There are request handlers, and never infinitely many.
ASSUME RequestsAssumption == Requests # {} /\ IsFiniteSet(Requests)

SessionIds  == 1 .. MaxRequests
Generations == 0 .. MaxReplacements
Statuses    == {"absent", "active", "suspended"}
Places      == {"idle", "verify", "open", "replace", "unlink", "store", "scan", "sweep"}
Entries     == [account : Accounts, generation : Generations]
Calls       == [at : Places, account : Accounts \cup {None}, id : SessionIds \cup {None},
                generation : Generations, choice : Statuses, ids : SUBSET SessionIds]

VARIABLES
  status,       \* account status
  generation,   \* replacements of each account's authenticator
  session,      \* the open sessions
  req,          \* where each request is
  begun,        \* counter of what MaxRequests limits; numbers the requests' sessions
  faults,       \* counter of what MaxFaults limits
  owed,         \* history: sessions that a replacement or suspension found open
  interrupted   \* history: accounts with a request that a fault cut short

vars == <<status, generation, session, req, begun, faults, owed, interrupted>>

-----------------------------------------------------------------------------
Idle == [at |-> "idle", account |-> None, id |-> None, generation |-> 0,
         choice |-> "absent", ids |-> {}]

OpenOf(a) == {i \in SessionIds : session[i] # None /\ session[i].account = a}

Init ==
  /\ status = [a \in Accounts |-> IF a \in Enrolled THEN "active" ELSE "absent"]
  /\ generation = [a \in Accounts |-> 0]
  /\ session = [i \in SessionIds |-> None]
  /\ req = [p \in Requests |-> Idle]
  /\ begun = 0 /\ faults = 0
  /\ owed = {} /\ interrupted = {}

Begin(p, a, place, choice) ==
  /\ req[p] = Idle
  /\ begun < MaxRequests
  /\ begun' = begun + 1
  /\ req' = [req EXCEPT ![p] = [Idle EXCEPT !.at = place, !.account = a, !.id = begun + 1,
                                            !.choice = choice]]
  /\ UNCHANGED <<generation, session, faults, owed, interrupted>>

Goto(p, place) == req' = [req EXCEPT ![p].at = place]
Return(p)      == req' = [req EXCEPT ![p] = Idle]

-----------------------------------------------------------------------------
(* Opening and ending sessions.                                            *)

\* Mutant: the status of the account is not checked.
BeginSignInAny(p, a) ==
  /\ status[a] # "absent"
  /\ Begin(p, a, "verify", "absent")
  /\ UNCHANGED status

BeginSignIn(p, a) ==
  /\ status[a] = "active"
  /\ Begin(p, a, "verify", "absent")
  /\ UNCHANGED status

\* Verify accepts a code of the present authenticator, or refuses.
Verify(p) ==
  /\ req[p].at = "verify"
  /\ \/ req' = [req EXCEPT ![p].at = "open", ![p].generation = generation[req[p].account]]
     \/ Return(p)
  /\ UNCHANGED <<status, generation, session, begun, faults, owed, interrupted>>

\* A registration stores its account, and its session last.
Register(p, a) ==
  /\ status[a] = "absent"
  /\ Begin(p, a, "open", "absent")
  /\ status' = [status EXCEPT ![a] = "active"]

\* Mutant: the session is stored without its account.
OpenNameless(p) ==
  LET r == req[p] IN
  /\ r.at = "open"
  /\ session' = [session EXCEPT ![r.id] = [account |-> None, generation |-> r.generation]]
  /\ Return(p)
  /\ UNCHANGED <<status, generation, begun, faults, owed, interrupted>>

OpenSession(p) ==
  LET r == req[p] IN
  /\ r.at = "open"
  /\ session' = [session EXCEPT ![r.id] = [account |-> r.account, generation |-> r.generation]]
  /\ Return(p)
  /\ UNCHANGED <<status, generation, begun, faults, owed, interrupted>>

\* Logging out, and a session found or dropped after its time.
EndSession(i) ==
  /\ session[i] # None
  /\ session' = [session EXCEPT ![i] = None]
  /\ UNCHANGED <<status, generation, req, begun, faults, owed, interrupted>>

-----------------------------------------------------------------------------
(* Revoking them.                                                          *)

\* Completing a rotation or a recovery; a recovery asks for the link only, not
\* for the account's status.
BeginReplace(p, a) ==
  /\ status[a] # "absent"
  /\ Begin(p, a, "replace", "absent")
  /\ UNCHANGED status

\* The factor is stored, unless the code is refused.
Replace(p) ==
  LET a == req[p].account IN
  /\ req[p].at = "replace"
  /\ \/ /\ generation[a] < MaxReplacements
        /\ generation' = [generation EXCEPT ![a] = @ + 1]
        /\ Goto(p, "unlink")
        /\ owed' = owed \cup OpenOf(a)
     \/ Return(p) /\ UNCHANGED <<generation, owed>>
  /\ UNCHANGED <<status, session, begun, faults, interrupted>>

\* The link is deleted; whether that fails does not matter.
Unlink(p) ==
  /\ req[p].at = "unlink"
  /\ Goto(p, "scan")
  /\ UNCHANGED <<status, generation, session, begun, faults, owed, interrupted>>

\* An administrator suspends or reactivates an account.
BeginStatus(p, a, s) ==
  /\ status[a] \notin {"absent", s}
  /\ Begin(p, a, "store", s)
  /\ UNCHANGED status

\* Mutant: suspending an account leaves its sessions.
StoreStatusOnly(p) ==
  LET r == req[p] IN
  /\ r.at = "store"
  /\ status' = [status EXCEPT ![r.account] = r.choice]
  /\ owed' = IF r.choice = "suspended" THEN owed \cup OpenOf(r.account) ELSE owed
  /\ Return(p)
  /\ UNCHANGED <<generation, session, begun, faults, interrupted>>

\* Suspending an account goes on to end its sessions.
StoreStatus(p) ==
  LET r == req[p] IN
  /\ r.at = "store"
  /\ status' = [status EXCEPT ![r.account] = r.choice]
  /\ IF r.choice = "suspended"
     THEN Goto(p, "scan") /\ owed' = owed \cup OpenOf(r.account)
     ELSE Return(p) /\ UNCHANGED owed
  /\ UNCHANGED <<generation, session, begun, faults, interrupted>>

\* DeleteByAccount reads the account's index.
Scan(p) ==
  LET ids == OpenOf(req[p].account) IN
  /\ req[p].at = "scan"
  /\ IF ids = {} THEN Return(p)
     ELSE req' = [req EXCEPT ![p].at = "sweep", ![p].ids = ids]
  /\ UNCHANGED <<status, generation, session, begun, faults, owed, interrupted>>

\* Mutant: the sweep ends at a session that is already gone.
SweepStopping(p) ==
  \E i \in req[p].ids :
    /\ req[p].at = "sweep"
    /\ session' = [session EXCEPT ![i] = None]
    /\ IF req[p].ids = {i} \/ session[i] = None THEN Return(p)
       ELSE req' = [req EXCEPT ![p].ids = @ \ {i}]
    /\ UNCHANGED <<status, generation, begun, faults, owed, interrupted>>

\* It deletes the sessions it read; one that is gone by now is passed over.
Sweep(p) ==
  \E i \in req[p].ids :
    /\ req[p].at = "sweep"
    /\ session' = [session EXCEPT ![i] = None]
    /\ IF req[p].ids = {i} THEN Return(p) ELSE req' = [req EXCEPT ![p].ids = @ \ {i}]
    /\ UNCHANGED <<status, generation, begun, faults, owed, interrupted>>

-----------------------------------------------------------------------------
(* Failures and crashes.                                                   *)

\* The read or write p is at fails, and p returns the error.
Fail(p) ==
  /\ faults < MaxFaults /\ req[p].at \notin {"idle", "unlink"}
  /\ faults' = faults + 1
  /\ Return(p)
  /\ interrupted' = IF req[p].at \in {"scan", "sweep"} THEN interrupted \cup {req[p].account}
                    ELSE interrupted
  /\ UNCHANGED <<status, generation, session, begun, owed>>

\* The process dies and starts again: every request is gone.
Crash ==
  /\ faults < MaxFaults
  /\ faults' = faults + 1
  /\ req' = [p \in Requests |-> Idle]
  /\ interrupted' = interrupted \cup ({req[p].account : p \in Requests} \ {None})
  /\ UNCHANGED <<status, generation, session, begun, owed>>

\* All requests are answered.
Rest == (\A p \in Requests : req[p] = Idle) /\ UNCHANGED vars

Continue(p) ==
  \/ Verify(p) \/ OpenSession(p) \/ Replace(p) \/ Unlink(p)
  \/ StoreStatus(p) \/ Scan(p) \/ Sweep(p)

Next ==
  \/ Crash \/ Rest
  \/ \E i \in SessionIds : EndSession(i)
  \/ \E p \in Requests :
       \/ Continue(p) \/ Fail(p)
       \/ \E a \in Accounts :
            \/ BeginSignIn(p, a) \/ Register(p, a) \/ BeginReplace(p, a)
            \/ \E s \in {"active", "suspended"} : BeginStatus(p, a, s)

Spec == Init /\ [][Next]_vars

\* The Go scheduler runs every request on.
FairSpec == Spec /\ \A p \in Requests : WF_vars(Continue(p))

-----------------------------------------------------------------------------
(* Properties.                                                             *)

\* Every variable holds values of its type.
TypeOK ==
  /\ status \in [Accounts -> Statuses]
  /\ generation \in [Accounts -> Generations]
  /\ session \in [SessionIds -> Entries \cup {None}]
  /\ req \in [Requests -> Calls]
  /\ begun \in 0 .. MaxRequests
  /\ faults \in 0 .. MaxFaults
  /\ owed \subseteq SessionIds
  /\ interrupted \subseteq Accounts

\* p is about to end session i, or to read the index that lists it.
Revoking(p, i) ==
  /\ session[i] # None /\ req[p].account = session[i].account
  /\ \/ req[p].at \in {"unlink", "scan"}
     \/ req[p].at = "sweep" /\ i \in req[p].ids

\* A session that a replacement or a suspension found open is ended or about
\* to be, whatever ends or opens sessions meanwhile, unless a fault cut a
\* request of its account short.
RevokedUnlessInterrupted ==
  \A i \in owed :
    session[i] # None =>
      \/ session[i].account \in interrupted
      \/ \E p \in Requests : Revoking(p, i)

\* The sessions of account a that were opened with an authenticator replaced
\* since, or at all if a is suspended.
Survivors(a) ==
  {i \in OpenOf(a) : status[a] = "suspended" \/ session[i].generation < generation[a]}

\* What a finished revocation leaves of those are sign-ins that ran beside it:
\* one for each other request handler at most.
SurvivorsBounded ==
  \A a \in Accounts :
    \/ a \in interrupted
    \/ \E p \in Requests : req[p].account = a /\ req[p].at \in {"unlink", "scan", "sweep"}
    \/ Cardinality(Survivors(a)) < Cardinality(Requests)

\* So the sessions of a replaced authenticator or a suspended account do end.
OwedEnd ==
  \A i \in SessionIds :
    i \in owed ~> session[i] = None \/ session[i].account \in interrupted
=============================================================================
