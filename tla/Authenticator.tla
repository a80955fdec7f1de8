---------------------------- MODULE Authenticator ---------------------------
(***************************************************************************)
(* The authenticators of accounts: internal/auth/totp.go, as the sign-in,  *)
(* registration, rotation and recovery of internal/identity use it.  Each  *)
(* request handler works through its calls one at a time; every call reads *)
(* or writes one record of the store.  Only TOTPService.Verify holds a     *)
(* lock (mutex): replacing an authenticator and confirming a recovery      *)
(* address read the whole factor and write it back later without it.       *)
(*                                                                         *)
(* Time is counted in TOTP steps of 30 seconds.  A code is the secret and  *)
(* the step it was computed for; secret 0 is the one an account was first  *)
(* enrolled with, secret l the one link l carries.  Sessions, and who must *)
(* be signed in to start what, are the matter of module Sessions.          *)
(***************************************************************************)
EXTENDS Integers, FiniteSets

CONSTANTS
  Accounts,       \* user names
  Enrolled,       \* the accounts that exist at the start
  Requests,       \* request handlers
  MaxFailures,    \* maxFailures (5)
  LockTime,       \* 15 minutes
  EnrollmentTTL,  \* 10 minutes
  RecoveryTTL,    \* 30 minutes
  ConfirmTTL,     \* 24 hours
  MaxTime,        \* bound: the last step
  MaxLinks,       \* bound: enrollments, recovery and confirmation links issued
  MaxRequests,    \* bound: requests handled
  MaxFaults,      \* bound: crashes, failed reads and writes
  None            \* no factor, link or request

ASSUME SizeAssumption ==
  /\ MaxFailures \in Nat \ {0}
  /\ {LockTime, EnrollmentTTL, RecoveryTTL, ConfirmTTL} \subseteq Nat \ {0}
  /\ {MaxTime, MaxLinks, MaxRequests, MaxFaults} \subseteq Nat
  /\ MaxTime >= 2
  /\ Enrolled \subseteq Accounts
  /\ None \notin Accounts \cup Requests \cup Nat

Links   == 1 .. MaxLinks
Secrets == 0 .. MaxLinks
Steps   == 0 .. MaxTime + 1
Kinds   == {"registration", "rotation", "recovery", "confirm"}
Ops     == {"verify", "rotate", "address", "replace", "register", "confirm"}
Places  == {"idle", "verify", "put", "issue", "reread", "write", "create", "first", "mailbox",
            "unlink", "dropfactor", "dropaccount"}

Codes   == [secret : Secrets \cup {None}, step : Steps]
Factors == [secret : Secrets, verified : BOOLEAN, failed : 0 .. MaxFailures - 1,
            locked : Nat, last : Steps]
Tokens  == [kind : Kinds, account : Accounts, expires : Nat]
Calls   == [op : Ops \cup {None}, at : Places, account : Accounts \cup {None},
            link : Links \cup {None}, code : Codes, seen : Factors \cup {None},
            hit : BOOLEAN, time : Nat]

\* None is no factor and no token, and the server handles finitely many requests.
ASSUME RequestsAssumption == None \notin Factors \cup Tokens /\ IsFiniteSet(Requests)

VARIABLES
  now,          \* the current step
  taken,        \* the accounts that exist
  factor,       \* the stored authenticators
  link,         \* the stored enrollments and links
  issued,       \* links issued so far
  mutex,        \* TOTPService.mu: the request inside Verify
  req,          \* where each request is
  begun,        \* counter of what MaxRequests limits
  faults,       \* counter of what MaxFaults limits
  raced,        \* history: accounts where a lock-free write or deletion overlapped a write
  accepted,     \* history: codes accepted, with their accounts
  ledger,       \* history: wrong codes recorded since the last accepted code
  confirmed,    \* history: accounts whose recovery address was confirmed
  uses,         \* history: factors written with each link
  interrupted   \* history: accounts whose request a crash cut short, or whose
                \* registration failed and could not be taken back

storeVars   == <<taken, factor, link, issued>>
historyVars == <<raced, accepted, ledger, confirmed, uses, interrupted>>
vars == <<now, storeVars, mutex, req, begun, faults, historyVars>>

-----------------------------------------------------------------------------
WrongCode == [secret |-> None, step |-> 0]
Idle == [op |-> None, at |-> "idle", account |-> None, link |-> None, code |-> WrongCode,
         seen |-> None, hit |-> FALSE, time |-> 0]
Clear == [streak |-> 0, barred |-> 0]

NewFactor(s, verified, step) ==
  [secret |-> s, verified |-> verified, failed |-> 0, locked |-> 0, last |-> step]

\* A step is valid while it is at most one away.
ValidStep(s, code) == code.secret = s /\ code.step \in now - 1 .. now + 1

\* What a user types: the code shown now, the one before, or a wrong one.
CodesOf(s) == {[secret |-> s, step |-> k] : k \in now - 1 .. now} \cup {WrongCode}

Valid(l) == link[l] # None /\ link[l].expires > now

Init ==
  /\ now = 2
  /\ taken = Enrolled
  /\ \E v \in [Accounts -> BOOLEAN] :
       /\ factor = [a \in Accounts |-> IF a \in Enrolled THEN NewFactor(0, v[a], 0) ELSE None]
       /\ confirmed = {a \in Enrolled : v[a]}
  /\ link = [l \in Links |-> None] /\ issued = 0
  /\ mutex = None
  /\ req = [p \in Requests |-> Idle]
  /\ begun = 0 /\ faults = 0
  /\ raced = {} /\ accepted = {} /\ interrupted = {}
  /\ ledger = [a \in Accounts |-> Clear]
  /\ uses = [l \in Links |-> 0]

\* Request r starts in handler p.
Begin(p, r) ==
  /\ req[p] = Idle
  /\ begun < MaxRequests
  /\ begun' = begun + 1
  /\ req' = [req EXCEPT ![p] = r]
  /\ UNCHANGED <<now, storeVars, mutex, faults, historyVars>>

Goto(p, place) == req' = [req EXCEPT ![p].at = place]
Return(p)      == req' = [req EXCEPT ![p] = Idle]

\* The link of kind k for account a, which expires after its time to live.
TTL == [registration |-> EnrollmentTTL, rotation |-> EnrollmentTTL, recovery |-> RecoveryTTL,
        confirm |-> ConfirmTTL]
PutLink(k, a) ==
  /\ issued < MaxLinks
  /\ issued' = issued + 1
  /\ link' = [link EXCEPT ![issued + 1] = [kind |-> k, account |-> a, expires |-> now + TTL[k]]]

-----------------------------------------------------------------------------
(* Verify, and what follows an accepted code.                              *)

\* A sign-in, the start of a rotation, or a change of the recovery address,
\* with a code of the account's authenticator.  They differ after Verify only.
BeginVerify(p, a, c) ==
  Begin(p, [Idle EXCEPT !.op = "verify", !.at = "verify", !.account = a, !.code = c])

\* Verify refuses a locked factor and a code already used without a write.
Examined(p, f, c) ==
  IF f # None /\ f.locked <= now /\ (ValidStep(f.secret, c) => c.step > f.last)
  THEN req' = [req EXCEPT ![p].at = "put", ![p].seen = f, ![p].time = now,
                          ![p].hit = ValidStep(f.secret, c)]
  ELSE Return(p)

\* Mutant: Verify does not take the lock.
ExamineUnlocked(p) ==
  /\ req[p].at = "verify"
  /\ Examined(p, factor[req[p].account], req[p].code)
  /\ UNCHANGED <<now, storeVars, mutex, begun, faults, historyVars>>

\* Verify takes the lock and reads the factor.
Examine(p) ==
  /\ req[p].at = "verify" /\ mutex = None
  /\ Examined(p, factor[req[p].account], req[p].code)
  /\ mutex' = IF req'[p].at = "put" THEN p ELSE None
  /\ UNCHANGED <<now, storeVars, begun, faults, historyVars>>

\* Mutant: the count of wrong codes goes on.
MissOneMore(f, time) ==
  IF f.failed + 1 > MaxFailures THEN [f EXCEPT !.failed = 0, !.locked = time + LockTime]
  ELSE [f EXCEPT !.failed = @ + 1]

\* The factor after an accepted code, and after a wrong one.
Hit(f, step) == [f EXCEPT !.failed = 0, !.locked = 0, !.last = step]
Miss(f, time) ==
  IF f.failed + 1 >= MaxFailures THEN [f EXCEPT !.failed = 0, !.locked = time + LockTime]
  ELSE [f EXCEPT !.failed = @ + 1]

\* What the ledger says after a wrong code.
Streak(l, time) ==
  IF l.streak + 1 >= MaxFailures THEN [streak |-> 0, barred |-> time + LockTime]
  ELSE [l EXCEPT !.streak = @ + 1]

\* Verify writes its copy back and releases the lock.
Record(p) ==
  LET r == req[p]
      a == r.account
  IN  /\ r.at = "put"
      /\ factor' = [factor EXCEPT ![a] = IF r.hit THEN Hit(r.seen, r.code.step)
                                         ELSE Miss(r.seen, r.time)]
      /\ mutex' = None
      /\ \/ Return(p)
         \/ /\ r.hit
            /\ \E op \in {"rotate", "address"} :
                 req' = [req EXCEPT ![p].at = "issue", ![p].op = op]
      /\ accepted' = IF r.hit THEN accepted \cup {<<a, r.code>>} ELSE accepted
      /\ ledger' = [ledger EXCEPT ![a] = IF r.hit THEN Clear ELSE Streak(@, r.time)]
      /\ UNCHANGED <<now, taken, link, issued, begun, faults,
                     raced, confirmed, uses, interrupted>>

\* A rotation's enrollment, or the link that confirms a recovery address (a
\* registration ends with one).  Past the bound the link is not stored, as
\* when the write fails.
Issue(p) ==
  /\ req[p].at = "issue"
  /\ IF issued < MaxLinks
     THEN PutLink(IF req[p].op = "rotate" THEN "rotation" ELSE "confirm", req[p].account)
     ELSE UNCHANGED <<issued, link>>
  /\ Return(p)
  /\ UNCHANGED <<now, taken, factor, mutex, begun, faults, historyVars>>

-----------------------------------------------------------------------------
(* Registration, rotation, recovery, and confirming a recovery address.    *)

BeginRegistration(a) ==
  /\ a \notin taken
  /\ PutLink("registration", a)
  /\ UNCHANGED <<now, taken, factor, mutex, req, begun, faults, historyVars>>

\* A recovery link is mailed only to a confirmed address.
RequestRecovery(a) ==
  /\ factor[a] # None /\ factor[a].verified
  /\ PutLink("recovery", a)
  /\ UNCHANGED <<now, taken, factor, mutex, req, begun, faults, historyVars>>

\* Completing a registration, a rotation or a recovery: the link is valid, and
\* the code is one of its secret.
BeginComplete(p, l, c) ==
  /\ Valid(l) /\ link[l].kind # "confirm"
  /\ ValidStep(l, c)
  /\ LET new == link[l].kind = "registration" IN
     Begin(p, [Idle EXCEPT !.op = IF new THEN "register" ELSE "replace",
                           !.at = IF new THEN "create" ELSE "reread",
                           !.account = link[l].account, !.link = l, !.code = c])

BeginConfirm(p, l) ==
  /\ Valid(l) /\ link[l].kind = "confirm"
  /\ Begin(p, [Idle EXCEPT !.op = "confirm", !.at = "reread", !.account = link[l].account,
                           !.link = l])

\* accounts.Create, which refuses a user name that is taken.
CreateAccount(p) ==
  LET a == req[p].account IN
  /\ req[p].at = "create"
  /\ IF a \notin taken THEN taken' = taken \cup {a} /\ Goto(p, "first")
     ELSE Return(p) /\ UNCHANGED taken
  /\ UNCHANGED <<now, factor, link, issued, mutex, begun, faults, historyVars>>

\* Register stores a factor on which no step has been used.
StoreFirst(p) ==
  LET f == NewFactor(req[p].link, FALSE, 0) IN
  /\ req[p].at = "first"
  /\ factor' = [factor EXCEPT ![req[p].account] = f]
  /\ req' = [req EXCEPT ![p].at = "mailbox", ![p].seen = f]
  /\ UNCHANGED <<now, taken, link, issued, mutex, begun, faults, historyVars>>

StoreMailbox(p) ==
  /\ req[p].at = "mailbox"
  /\ Goto(p, "write")
  /\ UNCHANGED <<now, storeVars, mutex, begun, faults, historyVars>>

\* The factor is read again: a replacement keeps the recovery address, a
\* confirmation keeps everything else.
Reread(p) ==
  LET f == factor[req[p].account] IN
  /\ req[p].at = "reread"
  /\ IF f = None THEN Return(p)
     ELSE req' = [req EXCEPT ![p].at = "write", ![p].seen = f]
  /\ UNCHANGED <<now, storeVars, mutex, begun, faults, historyVars>>

\* The factor that request r stores.
Newest(r) ==
  IF r.op = "confirm" THEN [r.seen EXCEPT !.verified = TRUE]
  ELSE NewFactor(r.link, r.seen.verified, r.code.step)

\* Some other write of a's factor overlaps one that saw f, or the link l
\* writes its factor once more.
Overlaps(a, f, l) ==
  \/ factor[a] # f
  \/ uses[l] > 0
  \/ \E q \in Requests : req[q].at = "put" /\ req[q].account = a

\* The lock-free writes.  The code of a registration or replacement is judged
\* once more, and may have become too old.
WriteFactor(p) ==
  LET r == req[p]
      a == r.account
  IN  /\ r.at = "write"
      /\ r.op = "confirm" \/ ValidStep(r.link, r.code)
      /\ factor' = [factor EXCEPT ![a] = Newest(r)]
      /\ Goto(p, "unlink")
      /\ raced' = IF Overlaps(a, r.seen, r.link) THEN raced \cup {a} ELSE raced
      /\ uses' = [uses EXCEPT ![r.link] = @ + 1]
      /\ IF r.op = "confirm"
         THEN confirmed' = confirmed \cup {a} /\ UNCHANGED <<accepted, ledger>>
         ELSE /\ accepted' = accepted \cup {<<a, r.code>>}
              /\ ledger' = [ledger EXCEPT ![a] = Clear]
              /\ UNCHANGED confirmed
      /\ UNCHANGED <<now, taken, link, issued, mutex, begun, faults, interrupted>>

RefuseLate(p) ==
  /\ req[p].at = "write"
  /\ req[p].op # "confirm" /\ ~ValidStep(req[p].link, req[p].code)
  /\ Return(p)
  /\ UNCHANGED <<now, storeVars, mutex, begun, faults, historyVars>>

AfterUnlink(p) == IF req[p].op = "register" THEN Goto(p, "issue") ELSE Return(p)

\* Mutant: the link is kept.
UnlinkKeeping(p) ==
  /\ req[p].at = "unlink"
  /\ AfterUnlink(p)
  /\ UNCHANGED <<now, storeVars, mutex, begun, faults, historyVars>>

Unlink(p) ==
  /\ req[p].at = "unlink"
  /\ link' = [link EXCEPT ![req[p].link] = None]
  /\ AfterUnlink(p)
  /\ UNCHANGED <<now, taken, factor, issued, mutex, begun, faults, historyVars>>

-----------------------------------------------------------------------------
(* Time, failures and crashes.                                             *)

Tick ==
  /\ now < MaxTime
  /\ now' = now + 1
  /\ UNCHANGED <<storeVars, mutex, req, begun, faults, historyVars>>

\* Where Register goes on when a call of its own fails: it takes back what it has
\* stored, last things first, whether or not that works.
Cleanup == [first |-> "dropaccount", mailbox |-> "dropfactor", dropfactor |-> "dropaccount"]

\* The call p is at fails and p returns the error; a link that cannot be deleted
\* is ignored.  An account that cannot be deleted stays, as it is.
Fail(p) ==
  LET at == req[p].at IN
  /\ faults < MaxFaults /\ at # "idle"
  /\ faults' = faults + 1
  /\ IF at = "unlink" THEN AfterUnlink(p)
     ELSE IF at \in DOMAIN Cleanup THEN Goto(p, Cleanup[at])
     ELSE Return(p)
  /\ interrupted' = IF at = "dropaccount" THEN interrupted \cup {req[p].account} ELSE interrupted
  /\ mutex' = IF mutex = p THEN None ELSE mutex
  /\ UNCHANGED <<now, storeVars, begun, raced, accepted, ledger, confirmed, uses>>

\* What is known of the codes of account a goes with its factor.
Forget(a) ==
  /\ ledger' = [ledger EXCEPT ![a] = Clear]
  /\ accepted' = {x \in accepted : x[1] # a}
  /\ confirmed' = confirmed \ {a}

\* TOTPService.DeleteFactor, without the lock.
DeleteFactor(p) ==
  LET a == req[p].account IN
  /\ req[p].at = "dropfactor"
  /\ factor' = [factor EXCEPT ![a] = None]
  /\ Forget(a)
  /\ raced' = IF \E q \in Requests : req[q].at = "put" /\ req[q].account = a
              THEN raced \cup {a} ELSE raced
  /\ Goto(p, "dropaccount")
  /\ UNCHANGED <<now, taken, link, issued, mutex, begun, faults, uses, interrupted>>

\* accounts.Delete.  The account's other requests and links, and a factor that
\* could not be deleted, belong to an account that nothing refers to any more.
DeleteAccount(p) ==
  LET a == req[p].account
      Void(l)  == link[l] # None /\ link[l].account = a /\ link[l].kind # "registration"
      Stale(q) == req[q].account = a /\ req[q].op # "register"
  IN  /\ req[p].at = "dropaccount"
      /\ taken' = taken \ {a}
      /\ factor' = [factor EXCEPT ![a] = None]
      /\ Forget(a)
      /\ link' = [l \in Links |-> IF Void(l) THEN None ELSE link[l]]
      /\ req' = [q \in Requests |-> IF q = p \/ Stale(q) THEN Idle ELSE req[q]]
      /\ mutex' = IF mutex # None /\ req'[mutex] = Idle THEN None ELSE mutex
      /\ UNCHANGED <<now, issued, begun, faults, raced, uses, interrupted>>

\* The process dies and starts again: every request is gone.
Crash ==
  /\ faults < MaxFaults
  /\ faults' = faults + 1
  /\ req' = [p \in Requests |-> Idle]
  /\ mutex' = None
  /\ interrupted' = interrupted \cup ({req[p].account : p \in Requests} \ {None})
  /\ UNCHANGED <<now, storeVars, begun, raced, accepted, ledger, confirmed, uses>>

\* All requests are answered.
Rest == (\A p \in Requests : req[p] = Idle) /\ UNCHANGED vars

Continue(p) ==
  \/ Examine(p) \/ Record(p) \/ Issue(p)
  \/ CreateAccount(p) \/ StoreFirst(p) \/ StoreMailbox(p)
  \/ Reread(p) \/ WriteFactor(p) \/ RefuseLate(p) \/ Unlink(p)
  \/ DeleteFactor(p) \/ DeleteAccount(p)

Next ==
  \/ Tick \/ Crash \/ Rest
  \/ \E a \in Accounts : BeginRegistration(a) \/ RequestRecovery(a)
  \/ \E p \in Requests :
       \/ Continue(p) \/ Fail(p)
       \/ \E a \in taken :
            \E c \in CodesOf(IF factor[a] = None THEN None ELSE factor[a].secret) :
              BeginVerify(p, a, c)
       \/ \E l \in Links :
            \/ BeginConfirm(p, l)
            \/ \E c \in CodesOf(l) : BeginComplete(p, l, c)

Spec == Init /\ [][Next]_vars

-----------------------------------------------------------------------------
(* Properties.                                                             *)

\* Every variable holds values of its type.
TypeOK ==
  /\ now \in Steps
  /\ taken \subseteq Accounts
  /\ factor \in [Accounts -> Factors \cup {None}]
  /\ link \in [Links -> Tokens \cup {None}]
  /\ issued \in 0 .. MaxLinks
  /\ mutex \in Requests \cup {None}
  /\ req \in [Requests -> Calls]
  /\ begun \in 0 .. MaxRequests
  /\ faults \in 0 .. MaxFaults
  /\ raced \subseteq Accounts
  /\ accepted \subseteq Accounts \X Codes
  /\ ledger \in [Accounts -> [streak : 0 .. MaxFailures - 1, barred : Nat]]
  /\ confirmed \subseteq Accounts
  /\ uses \in [Links -> Nat]
  /\ interrupted \subseteq Accounts

\* p's code is accepted by Verify in this step.
Accepts(p) ==
  req[p].at = "put" /\ req[p].hit /\ req'[p] # req[p] /\ faults' = faults

\* Verify accepts no code a second time, whatever sign-ins, rotations and
\* recoveries run beside it, unless a lock-free write of the factor overlapped
\* another write.
CodesUsedOnce ==
  [][\A p \in Requests :
       Accepts(p) /\ req[p].account \notin raced
       => <<req[p].account, req[p].code>> \notin accepted]_vars

\* After MaxFailures wrong codes in a row nothing is accepted for LockTime,
\* with the same exception.
LockoutHolds ==
  [][\A p \in Requests :
       Accepts(p) /\ req[p].account \notin raced
       => ledger[req[p].account].barred <= req[p].time]_vars

\* A code is judged as if each account's requests came one at a time.
CodesJudged == CodesUsedOnce /\ LockoutHolds

\* A recovery address once confirmed stays confirmed through sign-ins,
\* rotations and recoveries, with the same exception.
ConfirmationKept == \A a \in confirmed \ raced : factor[a].verified

\* An account nobody can sign in to for want of a factor is about to get one or to
\* be deleted, unless a crash cut its registration short or the deletion failed.
EnrolledUnlessInterrupted ==
  \A a \in taken :
    factor[a] = None
    => \/ a \in interrupted
       \/ \E p \in Requests : req[p].account = a /\ req[p].at \in {"first", "dropaccount"}

\* A link writes the factor at most once for each request that held it when it
\* was first used; only faults renew it.
LinkUses == \A l \in Links : uses[l] <= Cardinality(Requests) * (1 + faults)

\* What enrolment, confirmation and recovery have set up stands, and a link sets up no more.
EnrolmentHolds == ConfirmationKept /\ EnrolledUnlessInterrupted /\ LinkUses

-----------------------------------------------------------------------------
(* A claim of the documentation that the code does not keep.               *)

\* "Recovery links ... can be used once."
RecoveryOnce ==
  \A l \in Links : link[l] # None /\ link[l].kind = "recovery" => uses[l] <= 1
=============================================================================
