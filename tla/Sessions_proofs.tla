--------------------------- MODULE Sessions_proofs --------------------------
(***************************************************************************)
(* Machine-checked proofs about Sessions, for every value of its constants. *)
(***************************************************************************)
EXTENDS Sessions, FiniteSetTheorems, TLAPS

\* A request is idle, or works for an account under a number given to it.
BusyTyped ==
  \A p \in Requests :
    \/ req[p] = Idle
    \/ /\ req[p].at # "idle"
       /\ req[p].account \in Accounts
       /\ req[p].id \in 1 .. begun

\* The inductive strengthening of TypeOK.
CallInv == TypeOK /\ BusyTyped

LEMMA IdleType == Idle \in Calls
  BY SizeAssumption DEF Idle, Calls, Places, Statuses, Generations

LEMMA InitCall == Init => CallInv
<1>1. SUFFICES ASSUME Init
               PROVE  CallInv
  OBVIOUS
<1>2. TypeOK
  BY <1>1, IdleType, SizeAssumption DEF Init, TypeOK, Statuses, Generations
<1>3. BusyTyped
  BY <1>1 DEF Init, BusyTyped
<1>4. QED
  BY <1>2, <1>3 DEF CallInv

\* A request that starts gets the next number.
LEMMA BeginCall ==
  ASSUME CallInv, NEW p \in Requests, NEW a \in Accounts, NEW place \in Places \ {"idle"},
         NEW choice \in Statuses, Begin(p, a, place, choice), status' \in [Accounts -> Statuses]
  PROVE  CallInv'
<1>1. begun + 1 \in SessionIds /\ begun \in Nat /\ begun' = begun + 1
  BY SizeAssumption DEF CallInv, TypeOK, Begin, SessionIds
<1>2. PICK r : r = [Idle EXCEPT !.at = place, !.account = a, !.id = begun + 1, !.choice = choice]
  OBVIOUS
<1>3. r \in Calls /\ r.at = place /\ r.account = a /\ r.id = begun + 1
  BY <1>1, <1>2, IdleType DEF Calls, Idle
<1>4. req' = [req EXCEPT ![p] = r]
  BY <1>2 DEF Begin
<1>5. req' \in [Requests -> Calls]
  BY <1>3, <1>4 DEF CallInv, TypeOK
<1>6. begun' \in 0 .. MaxRequests
  BY <1>1, SizeAssumption DEF SessionIds
<1>7. TypeOK'
  BY <1>5, <1>6 DEF CallInv, TypeOK, Begin
<1>8. ASSUME NEW q \in Requests
      PROVE  req'[q] = Idle \/ (/\ req'[q].at # "idle" /\ req'[q].account \in Accounts
                                /\ req'[q].id \in 1 .. begun')
  <2>1. CASE q = p
    BY <1>1, <1>3, <1>4, <2>1 DEF CallInv, TypeOK
  <2>2. CASE q # p
    BY <1>1, <1>4, <2>2 DEF CallInv, TypeOK, BusyTyped
  <2>3. QED
    BY <2>1, <2>2
<1>9. QED
  BY <1>7, <1>8 DEF CallInv, BusyTyped

\* A request that goes on, with the account and number it has, or returns.
LEMMA StepCall ==
  ASSUME CallInv, NEW p \in Requests, NEW r \in Calls,
         r = Idle \/ (/\ req[p] # Idle /\ r.at # "idle"
                      /\ r.account = req[p].account /\ r.id = req[p].id),
         req' = [req EXCEPT ![p] = r], begun' = begun
  PROVE  req' \in [Requests -> Calls] /\ BusyTyped'
<1>1. req' \in [Requests -> Calls]
  BY DEF CallInv, TypeOK
<1>2. ASSUME NEW q \in Requests
      PROVE  req'[q] = Idle \/ (/\ req'[q].at # "idle" /\ req'[q].account \in Accounts
                                /\ req'[q].id \in 1 .. begun')
  <2>1. CASE q = p
    BY <2>1 DEF CallInv, TypeOK, BusyTyped
  <2>2. CASE q # p
    BY <2>2 DEF CallInv, TypeOK, BusyTyped
  <2>3. QED
    BY <2>1, <2>2
<1>3. QED
  BY <1>1, <1>2 DEF BusyTyped

\* Moving on and returning, in that form.
LEMMA GotoCall ==
  ASSUME CallInv, NEW p \in Requests, NEW place \in Places \ {"idle"}, req[p].at # "idle",
         Goto(p, place), begun' = begun
  PROVE  req' \in [Requests -> Calls] /\ BusyTyped'
<1>1. PICK r : r = [req[p] EXCEPT !.at = place]
  OBVIOUS
<1>2. req[p] \in Calls /\ req[p] # Idle
  BY DEF CallInv, TypeOK, Idle
<1>3. r \in Calls /\ r.at = place /\ r.account = req[p].account /\ r.id = req[p].id
  BY <1>1, <1>2 DEF Calls
<1>4. req' = [req EXCEPT ![p] = r]
  BY <1>1 DEF Goto
<1>5. QED
  BY <1>2, <1>3, <1>4, StepCall

LEMMA ReturnCall ==
  ASSUME CallInv, NEW p \in Requests, Return(p), begun' = begun
  PROVE  req' \in [Requests -> Calls] /\ BusyTyped'
  BY IdleType, StepCall DEF Return

\* A working request has an account and a number.
LEMMA BusyFields ==
  ASSUME CallInv, NEW p \in Requests, req[p].at # "idle"
  PROVE  /\ req[p] \in Calls /\ req[p] # Idle
         /\ req[p].account \in Accounts
         /\ req[p].id \in SessionIds
         /\ req[p].id \in 1 .. begun
<1>1. req[p] \in Calls /\ req[p] # Idle
  BY DEF CallInv, TypeOK, Idle
<1>2. req[p].account \in Accounts /\ req[p].id \in 1 .. begun
  BY <1>1 DEF CallInv, BusyTyped
<1>3. begun \in Nat /\ begun <= MaxRequests
  BY SizeAssumption DEF CallInv, TypeOK
<1>4. req[p].id \in SessionIds
  BY <1>2, <1>3, SizeAssumption DEF SessionIds
<1>5. QED
  BY <1>1, <1>2, <1>4

LEMMA OpenOfType == ASSUME NEW a PROVE OpenOf(a) \subseteq SessionIds
  BY DEF OpenOf

LEMMA VerifyCall ==
  ASSUME CallInv, NEW p \in Requests, Verify(p)
  PROVE  CallInv'
<1>1. req' \in [Requests -> Calls] /\ BusyTyped'
  <2>1. CASE Return(p)
    BY <2>1, ReturnCall DEF Verify
  <2>2. CASE req' = [req EXCEPT ![p].at = "open", ![p].generation = generation[req[p].account]]
    <3>1. PICK r : r = [req[p] EXCEPT !.at = "open", !.generation = generation[req[p].account]]
      OBVIOUS
    <3>2. req[p] \in Calls /\ req[p] # Idle /\ generation[req[p].account] \in Generations
      BY BusyFields DEF Verify, CallInv, TypeOK
    <3>3. r \in Calls /\ r.at = "open" /\ r.account = req[p].account /\ r.id = req[p].id
      BY <3>1, <3>2 DEF Calls, Places
    <3>4. req' = [req EXCEPT ![p] = r]
      BY <2>2, <3>1
    <3>5. QED
      BY <3>2, <3>3, <3>4, StepCall DEF Verify
  <2>3. QED
    BY <2>1, <2>2 DEF Verify
<1>2. QED
  BY <1>1 DEF Verify, CallInv, TypeOK

LEMMA OpenCall ==
  ASSUME CallInv, NEW p \in Requests, OpenSession(p)
  PROVE  CallInv'
<1>1. req' \in [Requests -> Calls] /\ BusyTyped'
  BY ReturnCall DEF OpenSession
<1>2. [account |-> req[p].account, generation |-> req[p].generation] \in Entries
  BY BusyFields DEF OpenSession, Entries, Calls
<1>3. QED
  BY <1>1, <1>2 DEF OpenSession, CallInv, TypeOK

LEMMA ReplaceCall ==
  ASSUME CallInv, NEW p \in Requests, Replace(p)
  PROVE  CallInv'
<1>1. req' \in [Requests -> Calls] /\ BusyTyped'
  BY ReturnCall, GotoCall DEF Replace, Places
<1>2. generation' \in [Accounts -> Generations]
  BY BusyFields, SizeAssumption DEF Replace, CallInv, TypeOK, Generations
<1>3. owed' \subseteq SessionIds
  BY OpenOfType DEF Replace, CallInv, TypeOK
<1>4. QED
  BY <1>1, <1>2, <1>3 DEF Replace, CallInv, TypeOK

LEMMA StoreCall ==
  ASSUME CallInv, NEW p \in Requests, StoreStatus(p)
  PROVE  CallInv'
<1>1. req' \in [Requests -> Calls] /\ BusyTyped'
  BY ReturnCall, GotoCall DEF StoreStatus, Places
<1>2. status' \in [Accounts -> Statuses]
  BY BusyFields DEF StoreStatus, CallInv, TypeOK, Calls
<1>3. owed' \subseteq SessionIds
  BY OpenOfType DEF StoreStatus, CallInv, TypeOK
<1>4. QED
  BY <1>1, <1>2, <1>3 DEF StoreStatus, CallInv, TypeOK

LEMMA ScanCall ==
  ASSUME CallInv, NEW p \in Requests, Scan(p)
  PROVE  CallInv'
<1>1. req' \in [Requests -> Calls] /\ BusyTyped'
  <2>1. CASE Return(p)
    BY <2>1, ReturnCall DEF Scan
  <2>2. CASE req' = [req EXCEPT ![p].at = "sweep", ![p].ids = OpenOf(req[p].account)]
    <3>1. PICK r : r = [req[p] EXCEPT !.at = "sweep", !.ids = OpenOf(req[p].account)]
      OBVIOUS
    <3>2. req[p] \in Calls /\ req[p] # Idle
      BY BusyFields DEF Scan
    <3>3. r \in Calls /\ r.at = "sweep" /\ r.account = req[p].account /\ r.id = req[p].id
      BY <3>1, <3>2, OpenOfType DEF Calls, Places
    <3>4. req' = [req EXCEPT ![p] = r]
      BY <2>2, <3>1
    <3>5. QED
      BY <3>2, <3>3, <3>4, StepCall DEF Scan
  <2>3. QED
    BY <2>1, <2>2 DEF Scan
<1>2. QED
  BY <1>1 DEF Scan, CallInv, TypeOK

LEMMA SweepCall ==
  ASSUME CallInv, NEW p \in Requests, Sweep(p)
  PROVE  CallInv'
<1>1. PICK i \in req[p].ids :
        /\ req[p].at = "sweep"
        /\ session' = [session EXCEPT ![i] = None]
        /\ Return(p) \/ req' = [req EXCEPT ![p].ids = @ \ {i}]
        /\ UNCHANGED <<status, generation, begun, faults, owed, interrupted>>
  BY DEF Sweep
<1>2. req' \in [Requests -> Calls] /\ BusyTyped'
  <2>1. CASE Return(p)
    BY <1>1, <2>1, ReturnCall
  <2>2. CASE req' = [req EXCEPT ![p].ids = @ \ {i}]
    <3>1. PICK r : r = [req[p] EXCEPT !.ids = @ \ {i}]
      OBVIOUS
    <3>2. req[p] \in Calls /\ req[p] # Idle
      BY <1>1, BusyFields
    <3>3. r \in Calls /\ r.at = "sweep" /\ r.account = req[p].account /\ r.id = req[p].id
      BY <1>1, <3>1, <3>2 DEF Calls
    <3>4. req' = [req EXCEPT ![p] = r]
      BY <2>2, <3>1
    <3>5. QED
      BY <1>1, <3>2, <3>3, <3>4, StepCall
  <2>3. QED
    BY <1>1, <2>1, <2>2
<1>3. session' \in [SessionIds -> Entries \cup {None}]
  BY <1>1 DEF CallInv, TypeOK
<1>4. QED
  BY <1>1, <1>2, <1>3 DEF CallInv, TypeOK

\* The starts of requests, each of which is a Begin.
LEMMA StartCall ==
  ASSUME CallInv, NEW p \in Requests, NEW a \in Accounts,
         \/ BeginSignIn(p, a) \/ Register(p, a) \/ BeginReplace(p, a)
         \/ \E s \in {"active", "suspended"} : BeginStatus(p, a, s)
  PROVE  CallInv'
<1>1. CASE BeginSignIn(p, a)
  BY <1>1, BeginCall DEF BeginSignIn, Places, Statuses, CallInv, TypeOK
<1>2. CASE Register(p, a)
  BY <1>2, BeginCall DEF Register, Places, Statuses, CallInv, TypeOK
<1>3. CASE BeginReplace(p, a)
  BY <1>3, BeginCall DEF BeginReplace, Places, Statuses, CallInv, TypeOK
<1>4. CASE \E s \in {"active", "suspended"} : BeginStatus(p, a, s)
  BY <1>4, BeginCall DEF BeginStatus, Places, Statuses, CallInv, TypeOK
<1>5. QED
  BY <1>1, <1>2, <1>3, <1>4

LEMMA ContinueCall ==
  ASSUME CallInv, NEW p \in Requests, Continue(p)
  PROVE  CallInv'
<1>1. CASE Unlink(p)
  <2>1. req' \in [Requests -> Calls] /\ BusyTyped'
    BY <1>1, GotoCall DEF Unlink, Places
  <2>2. QED
    BY <1>1, <2>1 DEF Unlink, CallInv, TypeOK
<1>2. QED
  BY <1>1, VerifyCall, OpenCall, ReplaceCall, StoreCall, ScanCall, SweepCall DEF Continue

LEMMA FailCall ==
  ASSUME CallInv, NEW p \in Requests, Fail(p)
  PROVE  CallInv'
<1>1. req' \in [Requests -> Calls] /\ BusyTyped'
  BY ReturnCall DEF Fail
<1>2. req[p].account \in Accounts
  BY BusyFields DEF Fail
<1>3. interrupted' \subseteq Accounts
  BY <1>2 DEF Fail, CallInv, TypeOK
<1>4. faults' \in 0 .. MaxFaults
  BY SizeAssumption DEF Fail, CallInv, TypeOK
<1>5. QED
  BY <1>1, <1>3, <1>4 DEF Fail, CallInv, TypeOK

LEMMA CrashCall ==
  ASSUME CallInv, Crash
  PROVE  CallInv'
<1>1. \A p \in Requests : req[p].account \in Accounts \cup {None}
  BY DEF CallInv, TypeOK, Calls
<1>2. interrupted' \subseteq Accounts
  BY <1>1 DEF Crash, CallInv, TypeOK
<1>3. faults' \in 0 .. MaxFaults
  BY SizeAssumption DEF Crash, CallInv, TypeOK
<1>4. req' \in [Requests -> Calls] /\ BusyTyped'
  BY IdleType DEF Crash, BusyTyped
<1>5. QED
  BY <1>2, <1>3, <1>4 DEF Crash, CallInv, TypeOK

LEMMA NextCall == CallInv /\ [Next]_vars => CallInv'
<1>1. SUFFICES ASSUME CallInv, [Next]_vars
               PROVE  CallInv'
  OBVIOUS
<1>2. CASE UNCHANGED vars
  BY <1>1, <1>2 DEF vars, CallInv, TypeOK, BusyTyped
<1>3. ASSUME NEW i \in SessionIds, EndSession(i)
      PROVE  CallInv'
  BY <1>1, <1>3 DEF EndSession, CallInv, TypeOK, BusyTyped
<1>4. QED
  BY <1>1, <1>2, <1>3, StartCall, ContinueCall, FailCall, CrashCall DEF Next, Rest

LEMMA CallInvariant == Spec => []CallInv
  BY InitCall, NextCall, PTL DEF Spec

\* Every variable keeps to its type, for any accounts, requests and bounds.
THEOREM TypeCorrect == Spec => []TypeOK
<1>1. CallInv => TypeOK
  BY DEF CallInv
<1>2. QED
  BY <1>1, CallInvariant, PTL

-----------------------------------------------------------------------------
(* Revocation: no session owed an end escapes the sweeps.                  *)

\* The number of a request is its own, and while a sign-in or registration is
\* on its way no session is stored, or owed an end, under its number.
NumbersFresh ==
  /\ \A p, q \in Requests : req[p] # Idle /\ req[q] # Idle /\ req[p].id = req[q].id => p = q
  /\ \A p \in Requests : req[p].at \in {"verify", "open"} =>
       req[p].id \notin owed /\ session[req[p].id] = None
  /\ \A i \in SessionIds : i \in owed \/ session[i] # None => i <= begun

\* The inductive strengthening of RevokedUnlessInterrupted.
RevokeInv == CallInv /\ NumbersFresh /\ RevokedUnlessInterrupted

LEMMA InitRevoke == Init => RevokeInv
<1>1. SUFFICES ASSUME Init
               PROVE  RevokeInv
  OBVIOUS
<1>2. NumbersFresh
  BY <1>1 DEF Init, NumbersFresh, Idle
<1>3. RevokedUnlessInterrupted
  BY <1>1 DEF Init, RevokedUnlessInterrupted
<1>4. QED
  BY <1>1, <1>2, <1>3, InitCall DEF RevokeInv

\* Numbers stay fresh when no session is opened and only open sessions become
\* owed an end.
LEMMA FreshStep ==
  ASSUME RevokeInv, NEW p \in Requests, NEW r \in Calls, req' = [req EXCEPT ![p] = r],
         \/ r = Idle
         \/ /\ req[p] # Idle /\ r.id = req[p].id
            /\ r.at \in {"verify", "open"} => req[p].at \in {"verify", "open"},
         begun' = begun,
         \A i \in SessionIds : i \in owed' => i \in owed \/ session[i] # None,
         owed' \subseteq SessionIds,
         \A i \in SessionIds : session'[i] \in {session[i], None}
  PROVE  NumbersFresh'
<1>1. ASSUME NEW q \in Requests
      PROVE  \/ req'[q] = Idle
             \/ /\ req[q] # Idle /\ req'[q].id = req[q].id
                /\ req'[q].at \in {"verify", "open"} => req[q].at \in {"verify", "open"}
  <2>1. CASE q = p
    BY <2>1 DEF RevokeInv, CallInv, TypeOK
  <2>2. CASE q # p
    BY <2>2 DEF RevokeInv, CallInv, TypeOK
  <2>3. QED
    BY <2>1, <2>2
<1>2. \A s, q \in Requests : req'[s] # Idle /\ req'[q] # Idle /\ req'[s].id = req'[q].id => s = q
  BY <1>1 DEF RevokeInv, NumbersFresh
<1>3. ASSUME NEW q \in Requests, req'[q].at \in {"verify", "open"}
      PROVE  req'[q].id \notin owed' /\ session'[req'[q].id] = None
  <2>1. req'[q] # Idle
    BY <1>3 DEF Idle
  <2>2. req[q].at \in {"verify", "open"} /\ req'[q].id = req[q].id
    BY <1>1, <1>3, <2>1
  <2>3. req[q].id \in SessionIds
    BY <2>2, BusyFields DEF RevokeInv
  <2>4. req[q].id \notin owed /\ session[req[q].id] = None
    BY <2>2 DEF RevokeInv, NumbersFresh
  <2>5. QED
    BY <2>2, <2>3, <2>4
<1>4. \A i \in SessionIds : i \in owed' \/ session'[i] # None => i <= begun'
  BY DEF RevokeInv, NumbersFresh
<1>5. QED
  BY <1>2, <1>3, <1>4 DEF NumbersFresh

\* What is owed stays covered when nothing is newly owed or opened, and every
\* request that revoked a session still open does so still.
LEMMA CoverStep ==
  ASSUME RevokeInv, owed' = owed, interrupted \subseteq interrupted',
         \A i \in SessionIds : session'[i] \in {session[i], None},
         \A p \in Requests, i \in SessionIds :
           Revoking(p, i) /\ session'[i] # None =>
             Revoking(p, i)' \/ session'[i].account \in interrupted'
  PROVE  RevokedUnlessInterrupted'
<1>1. SUFFICES ASSUME NEW i \in owed, session'[i] # None
               PROVE  \/ session'[i].account \in interrupted'
                      \/ \E p \in Requests : Revoking(p, i)'
  BY DEF RevokedUnlessInterrupted
<1>2. i \in SessionIds /\ session'[i] = session[i]
  BY <1>1 DEF RevokeInv, CallInv, TypeOK
<1>3. session[i].account \in interrupted \/ \E p \in Requests : Revoking(p, i)
  BY <1>1, <1>2 DEF RevokeInv, RevokedUnlessInterrupted
<1>4. CASE session[i].account \in interrupted
  BY <1>2, <1>4
<1>5. ASSUME NEW p \in Requests, Revoking(p, i)
      PROVE  Revoking(p, i)' \/ session'[i].account \in interrupted'
  BY <1>1, <1>2, <1>5
<1>6. QED
  BY <1>3, <1>4, <1>5

LEMMA BeginRevoke ==
  ASSUME RevokeInv, NEW p \in Requests, NEW a \in Accounts, NEW place \in Places \ {"idle"},
         NEW choice \in Statuses, Begin(p, a, place, choice)
  PROVE  NumbersFresh' /\ RevokedUnlessInterrupted'
<1>1. begun \in Nat /\ begun' = begun + 1
  BY SizeAssumption DEF RevokeInv, CallInv, TypeOK, Begin
<1>2. PICK r : r = [Idle EXCEPT !.at = place, !.account = a, !.id = begun + 1, !.choice = choice]
  OBVIOUS
<1>3. r.at = place /\ r.id = begun + 1
  BY <1>2 DEF Idle
<1>4. req' = [req EXCEPT ![p] = r]
  BY <1>2 DEF Begin
<1>5. req'[p] = r /\ \A q \in Requests \ {p} : req'[q] = req[q]
  BY <1>4 DEF RevokeInv, CallInv, TypeOK
<1>6. ASSUME NEW q \in Requests, req[q] # Idle
      PROVE  req[q].id \in SessionIds /\ req[q].id \in 1 .. begun
  BY <1>6, BusyFields DEF RevokeInv, CallInv, BusyTyped
<1>7. ASSUME NEW s \in Requests, NEW q \in Requests,
             req'[s] # Idle, req'[q] # Idle, req'[s].id = req'[q].id
      PROVE  s = q
  BY <1>1, <1>3, <1>5, <1>6, <1>7 DEF RevokeInv, NumbersFresh
<1>8. begun + 1 \in SessionIds
  BY <1>1, SizeAssumption DEF Begin, SessionIds, RevokeInv, CallInv, TypeOK
<1>9. begun + 1 \notin owed /\ session[begun + 1] = None
  BY <1>1, <1>8 DEF RevokeInv, NumbersFresh
<1>10. ASSUME NEW q \in Requests, req'[q].at \in {"verify", "open"}
       PROVE  req'[q].id \notin owed' /\ session'[req'[q].id] = None
  BY <1>3, <1>5, <1>9, <1>10 DEF RevokeInv, NumbersFresh, Begin
<1>11. ASSUME NEW i \in SessionIds, i \in owed' \/ session'[i] # None
       PROVE  i <= begun'
  BY <1>1, <1>11 DEF RevokeInv, NumbersFresh, Begin, SessionIds
<1>12. NumbersFresh'
  BY <1>7, <1>10, <1>11 DEF NumbersFresh
<1>13. ASSUME NEW q \in Requests, NEW i \in SessionIds, Revoking(q, i)
       PROVE  Revoking(q, i)'
  <2>1. q # p
    BY <1>13 DEF Begin, Idle, Revoking
  <2>2. QED
    BY <1>5, <1>13, <2>1 DEF Begin, Revoking
<1>14. RevokedUnlessInterrupted'
  BY <1>13, CoverStep DEF Begin
<1>15. QED
  BY <1>12, <1>14

LEMMA StartRevoke ==
  ASSUME RevokeInv, NEW p \in Requests, NEW a \in Accounts,
         \/ BeginSignIn(p, a) \/ Register(p, a) \/ BeginReplace(p, a)
         \/ \E s \in {"active", "suspended"} : BeginStatus(p, a, s)
  PROVE  NumbersFresh' /\ RevokedUnlessInterrupted'
  BY BeginRevoke DEF BeginSignIn, Register, BeginReplace, BeginStatus, Places, Statuses

\* A request moves on to a place where it revokes no less than before.
LEMMA MoveRevoke ==
  ASSUME RevokeInv, NEW p \in Requests, NEW r \in Calls, req' = [req EXCEPT ![p] = r],
         \/ r = Idle
         \/ /\ req[p] # Idle /\ r.id = req[p].id /\ r.account = req[p].account
            /\ r.at \in {"verify", "open"} => req[p].at \in {"verify", "open"},
         begun' = begun, owed' = owed, interrupted' = interrupted,
         \A i \in SessionIds : session'[i] \in {session[i], None},
         \A i \in SessionIds : Revoking(p, i) /\ session'[i] # None => Revoking(p, i)'
  PROVE  NumbersFresh' /\ RevokedUnlessInterrupted'
<1>1. NumbersFresh'
  BY FreshStep DEF RevokeInv, CallInv, TypeOK
<1>2. ASSUME NEW q \in Requests, NEW i \in SessionIds, Revoking(q, i), session'[i] # None
      PROVE  Revoking(q, i)'
  <2>1. CASE q = p
    BY <1>2, <2>1
  <2>2. CASE q # p
    <3>1. req'[q] = req[q] /\ session'[i] = session[i]
      BY <1>2, <2>2 DEF RevokeInv, CallInv, TypeOK
    <3>2. QED
      BY <1>2, <3>1 DEF Revoking
  <2>3. QED
    BY <2>1, <2>2
<1>3. RevokedUnlessInterrupted'
  BY <1>2, CoverStep
<1>4. QED
  BY <1>1, <1>3

LEMMA VerifyRevoke ==
  ASSUME RevokeInv, NEW p \in Requests, Verify(p)
  PROVE  NumbersFresh' /\ RevokedUnlessInterrupted'
<1>1. req[p] \in Calls /\ req[p] # Idle /\ req[p].account \in Accounts
  BY BusyFields DEF Verify, RevokeInv
<1>2. generation[req[p].account] \in Generations
  BY <1>1 DEF RevokeInv, CallInv, TypeOK
<1>3. \E c \in Calls :
        /\ req' = [req EXCEPT ![p] = c]
        /\ c = Idle \/ (c.id = req[p].id /\ c.account = req[p].account)
  <2>1. CASE Return(p)
    BY <2>1, IdleType DEF Return
  <2>2. CASE req' = [req EXCEPT ![p].at = "open", ![p].generation = generation[req[p].account]]
    <3>1. PICK c : c = [req[p] EXCEPT !.at = "open", !.generation = generation[req[p].account]]
      OBVIOUS
    <3>2. c \in Calls /\ c.id = req[p].id /\ c.account = req[p].account
      BY <1>1, <1>2, <3>1 DEF Calls, Places
    <3>3. QED
      BY <2>2, <3>1, <3>2
  <2>3. QED
    BY <2>1, <2>2 DEF Verify
<1>4. \A i \in SessionIds : ~Revoking(p, i)
  BY DEF Verify, Revoking
<1>5. QED
  BY <1>1, <1>3, <1>4, MoveRevoke DEF Verify

LEMMA OpenRevoke ==
  ASSUME RevokeInv, NEW p \in Requests, OpenSession(p)
  PROVE  NumbersFresh' /\ RevokedUnlessInterrupted'
<1>1. PICK k : k = req[p].id
  OBVIOUS
<1>2. k \in SessionIds /\ k <= begun /\ req[p] # Idle /\ k \notin owed
  BY <1>1, BusyFields DEF OpenSession, RevokeInv, NumbersFresh, CallInv, TypeOK
<1>3. /\ \A i \in SessionIds \ {k} : session'[i] = session[i]
      /\ req'[p] = Idle /\ \A q \in Requests \ {p} : req'[q] = req[q]
  BY <1>1 DEF OpenSession, Return, RevokeInv, CallInv, TypeOK
<1>4. \A s, q \in Requests : req'[s] # Idle /\ req'[q] # Idle /\ req'[s].id = req'[q].id => s = q
  BY <1>3 DEF RevokeInv, NumbersFresh
<1>5. ASSUME NEW q \in Requests, req'[q].at \in {"verify", "open"}
      PROVE  req'[q].id \notin owed' /\ session'[req'[q].id] = None
  <2>1. q # p /\ req'[q] = req[q]
    BY <1>3, <1>5 DEF Idle
  <2>2. req[q].id \in SessionIds /\ req[q].id # k
    BY <1>1, <1>2, <1>5, <2>1, BusyFields DEF RevokeInv, NumbersFresh, Idle
  <2>3. QED
    BY <1>3, <1>5, <2>1, <2>2 DEF RevokeInv, NumbersFresh, OpenSession
<1>6. NumbersFresh'
  BY <1>2, <1>3, <1>4, <1>5 DEF RevokeInv, NumbersFresh, OpenSession
<1>7. ASSUME NEW i \in owed', session'[i] # None
      PROVE  \/ session'[i].account \in interrupted'
             \/ \E q \in Requests : Revoking(q, i)'
  <2>1. i \in owed /\ i \in SessionIds /\ i # k /\ session'[i] = session[i]
    BY <1>2, <1>3, <1>7 DEF OpenSession, RevokeInv, CallInv, TypeOK
  <2>2. CASE session[i].account \in interrupted
    BY <2>1, <2>2 DEF OpenSession
  <2>3. ASSUME NEW q \in Requests, Revoking(q, i)
        PROVE  Revoking(q, i)'
    <3>1. q # p
      BY <2>3 DEF OpenSession, Revoking
    <3>2. QED
      BY <1>3, <2>1, <2>3, <3>1 DEF Revoking
  <2>4. QED
    BY <1>7, <2>1, <2>2, <2>3 DEF RevokeInv, RevokedUnlessInterrupted
<1>8. QED
  BY <1>6, <1>7 DEF RevokedUnlessInterrupted

\* The step that makes the open sessions of its account owed goes on to revoke
\* them.
LEMMA ClaimRevoke ==
  ASSUME RevokeInv, NEW p \in Requests, NEW place \in {"unlink", "scan"},
         req[p].at \in {"replace", "store"}, Goto(p, place),
         owed' = owed \cup OpenOf(req[p].account),
         UNCHANGED <<session, begun, interrupted>>
  PROVE  NumbersFresh' /\ RevokedUnlessInterrupted'
<1>1. PICK r : r = [req[p] EXCEPT !.at = place]
  OBVIOUS
<1>2. req[p] \in Calls /\ req[p] # Idle
  BY BusyFields DEF RevokeInv
<1>3. /\ r \in Calls /\ r.at = place /\ r.account = req[p].account /\ r.id = req[p].id
      /\ req' = [req EXCEPT ![p] = r]
  BY <1>1, <1>2 DEF Calls, Places, Goto
<1>4. req'[p] = r /\ \A q \in Requests \ {p} : req'[q] = req[q]
  BY <1>3 DEF RevokeInv, CallInv, TypeOK
<1>5. /\ owed' \subseteq SessionIds
      /\ \A i \in SessionIds : i \in owed' => i \in owed \/ session[i] # None
  BY DEF OpenOf, RevokeInv, CallInv, TypeOK
<1>6. NumbersFresh'
  BY <1>2, <1>3, <1>5, FreshStep
<1>7. ASSUME NEW i \in owed', session'[i] # None
      PROVE  \/ session'[i].account \in interrupted'
             \/ \E q \in Requests : Revoking(q, i)'
  <2>1. CASE i \in OpenOf(req[p].account)
    <3>1. Revoking(p, i)'
      BY <1>3, <1>4, <2>1 DEF Revoking, OpenOf
    <3>2. QED
      BY <3>1
  <2>2. CASE i \in owed
    <3>1. CASE session[i].account \in interrupted
      BY <3>1
    <3>2. ASSUME NEW q \in Requests, Revoking(q, i)
          PROVE  Revoking(q, i)'
      <4>1. q # p
        BY <3>2 DEF Revoking
      <4>2. QED
        BY <1>4, <3>2, <4>1 DEF Revoking
    <3>3. QED
      BY <1>7, <2>2, <3>1, <3>2 DEF RevokeInv, RevokedUnlessInterrupted
  <2>3. QED
    BY <2>1, <2>2
<1>8. QED
  BY <1>6, <1>7 DEF RevokedUnlessInterrupted

LEMMA ReturnRevoke ==
  ASSUME RevokeInv, NEW p \in Requests, Return(p), \A i \in SessionIds : ~Revoking(p, i),
         UNCHANGED <<session, begun, owed, interrupted>>
  PROVE  NumbersFresh' /\ RevokedUnlessInterrupted'
  BY IdleType, MoveRevoke DEF Return

LEMMA ReplaceRevoke ==
  ASSUME RevokeInv, NEW p \in Requests, Replace(p)
  PROVE  NumbersFresh' /\ RevokedUnlessInterrupted'
<1>1. CASE Return(p) /\ UNCHANGED <<generation, owed>>
  BY <1>1, ReturnRevoke DEF Replace, Revoking
<1>2. QED
  BY <1>1, ClaimRevoke DEF Replace

LEMMA StoreRevoke ==
  ASSUME RevokeInv, NEW p \in Requests, StoreStatus(p)
  PROVE  NumbersFresh' /\ RevokedUnlessInterrupted'
<1>1. CASE req[p].choice = "suspended"
  BY <1>1, ClaimRevoke DEF StoreStatus
<1>2. CASE req[p].choice # "suspended"
  BY <1>2, ReturnRevoke DEF StoreStatus, Revoking
<1>3. QED
  BY <1>1, <1>2

LEMMA UnlinkRevoke ==
  ASSUME RevokeInv, NEW p \in Requests, Unlink(p)
  PROVE  NumbersFresh' /\ RevokedUnlessInterrupted'
<1>1. PICK r : r = [req[p] EXCEPT !.at = "scan"]
  OBVIOUS
<1>2. req[p] \in Calls /\ req[p] # Idle
  BY BusyFields DEF Unlink, RevokeInv
<1>3. /\ r \in Calls /\ r.at = "scan" /\ r.account = req[p].account /\ r.id = req[p].id
      /\ req' = [req EXCEPT ![p] = r]
  BY <1>1, <1>2 DEF Calls, Places, Unlink, Goto
<1>4. req'[p] = r
  BY <1>3 DEF RevokeInv, CallInv, TypeOK
<1>5. \A i \in SessionIds : Revoking(p, i) => Revoking(p, i)'
  BY <1>3, <1>4 DEF Revoking, Unlink
<1>6. QED
  BY <1>2, <1>3, <1>5, MoveRevoke DEF Unlink

\* Reading the index finds every session that p was to revoke.
LEMMA ScanRevoke ==
  ASSUME RevokeInv, NEW p \in Requests, Scan(p)
  PROVE  NumbersFresh' /\ RevokedUnlessInterrupted'
<1>1. \A i \in SessionIds : Revoking(p, i) => i \in OpenOf(req[p].account)
  BY DEF Revoking, OpenOf
<1>2. CASE OpenOf(req[p].account) = {}
  BY <1>1, <1>2, ReturnRevoke DEF Scan
<1>3. CASE OpenOf(req[p].account) # {}
  <2>1. PICK r : r = [req[p] EXCEPT !.at = "sweep", !.ids = OpenOf(req[p].account)]
    OBVIOUS
  <2>2. req[p] \in Calls /\ req[p] # Idle
    BY BusyFields DEF Scan, RevokeInv
  <2>3. /\ r \in Calls /\ r.at = "sweep" /\ r.ids = OpenOf(req[p].account)
        /\ r.account = req[p].account /\ r.id = req[p].id
    BY <2>1, <2>2, OpenOfType DEF Calls, Places
  <2>4. req' = [req EXCEPT ![p] = r]
    BY <1>3, <2>1 DEF Scan
  <2>5. req'[p] = r
    BY <2>4 DEF RevokeInv, CallInv, TypeOK
  <2>6. \A i \in SessionIds : Revoking(p, i) => Revoking(p, i)'
    BY <1>1, <2>3, <2>5 DEF Revoking, Scan
  <2>7. QED
    BY <2>2, <2>3, <2>4, <2>6, MoveRevoke DEF Scan
<1>4. QED
  BY <1>2, <1>3

\* A sweep goes on until no session it read is left.
LEMMA SweepRevoke ==
  ASSUME RevokeInv, NEW p \in Requests, Sweep(p)
  PROVE  NumbersFresh' /\ RevokedUnlessInterrupted'
<1>1. PICK i \in req[p].ids :
        /\ req[p].at = "sweep"
        /\ session' = [session EXCEPT ![i] = None]
        /\ IF req[p].ids = {i} THEN Return(p) ELSE req' = [req EXCEPT ![p].ids = @ \ {i}]
        /\ UNCHANGED <<status, generation, begun, faults, owed, interrupted>>
  BY DEF Sweep
<1>2. req[p] \in Calls /\ req[p] # Idle
  BY <1>1, BusyFields DEF RevokeInv
<1>3. \A j \in SessionIds : session'[j] \in {session[j], None} /\ (j = i => session'[j] = None)
  BY <1>1 DEF RevokeInv, CallInv, TypeOK
<1>4. CASE req[p].ids = {i}
  <2>1. ASSUME NEW j \in SessionIds, Revoking(p, j), session'[j] # None
        PROVE  FALSE
    BY <1>1, <1>3, <1>4, <2>1 DEF Revoking
  <2>2. QED
    BY <1>1, <1>2, <1>3, <1>4, <2>1, IdleType, MoveRevoke DEF Return
<1>5. CASE req[p].ids # {i}
  <2>1. PICK r : r = [req[p] EXCEPT !.ids = @ \ {i}]
    OBVIOUS
  <2>2. /\ r \in Calls /\ r.at = "sweep" /\ r.ids = req[p].ids \ {i}
        /\ r.account = req[p].account /\ r.id = req[p].id
    BY <1>1, <1>2, <2>1 DEF Calls
  <2>3. req' = [req EXCEPT ![p] = r]
    BY <1>1, <1>5, <2>1
  <2>4. req'[p] = r
    BY <2>3 DEF RevokeInv, CallInv, TypeOK
  <2>5. ASSUME NEW j \in SessionIds, Revoking(p, j), session'[j] # None
        PROVE  Revoking(p, j)'
    BY <1>1, <1>3, <2>2, <2>4, <2>5 DEF Revoking
  <2>6. QED
    BY <1>1, <1>2, <1>3, <2>2, <2>3, <2>5, MoveRevoke
<1>6. QED
  BY <1>4, <1>5

LEMMA EndRevoke ==
  ASSUME RevokeInv, NEW k \in SessionIds, EndSession(k)
  PROVE  NumbersFresh' /\ RevokedUnlessInterrupted'
<1>1. \A i \in SessionIds : session'[i] \in {session[i], None}
  BY DEF EndSession, RevokeInv, CallInv, TypeOK
<1>2. \A p \in Requests : req[p].at \in {"verify", "open"} => req[p].id \in SessionIds
  BY BusyFields DEF RevokeInv
<1>3. NumbersFresh'
  BY <1>1, <1>2 DEF EndSession, RevokeInv, NumbersFresh
<1>4. ASSUME NEW p \in Requests, NEW i \in SessionIds, Revoking(p, i), session'[i] # None
      PROVE  Revoking(p, i)'
  BY <1>1, <1>4 DEF EndSession, Revoking
<1>5. QED
  BY <1>1, <1>3, <1>4, CoverStep DEF EndSession

\* A fault cuts a revocation short only on the record.
LEMMA FailRevoke ==
  ASSUME RevokeInv, NEW p \in Requests, Fail(p)
  PROVE  NumbersFresh' /\ RevokedUnlessInterrupted'
<1>1. req'[p] = Idle /\ \A q \in Requests \ {p} : req'[q] = req[q]
  BY DEF Fail, Return, RevokeInv, CallInv, TypeOK
<1>2. NumbersFresh'
  BY IdleType, FreshStep DEF Fail, Return, RevokeInv, CallInv, TypeOK
<1>3. ASSUME NEW q \in Requests, NEW i \in SessionIds, Revoking(q, i)
      PROVE  Revoking(q, i)' \/ session'[i].account \in interrupted'
  <2>1. CASE q = p
    BY <1>3, <2>1 DEF Fail, Revoking
  <2>2. CASE q # p
    BY <1>1, <1>3, <2>2 DEF Fail, Revoking
  <2>3. QED
    BY <2>1, <2>2
<1>4. QED
  BY <1>2, <1>3, CoverStep DEF Fail

LEMMA CrashRevoke ==
  ASSUME RevokeInv, Crash
  PROVE  NumbersFresh' /\ RevokedUnlessInterrupted'
<1>1. \A p \in Requests : req'[p] = Idle
  BY DEF Crash
<1>2. NumbersFresh'
  BY <1>1 DEF Crash, RevokeInv, NumbersFresh, Idle
<1>3. ASSUME NEW p \in Requests, NEW i \in SessionIds, Revoking(p, i)
      PROVE  session'[i].account \in interrupted'
  <2>1. req[p].account \in Accounts /\ session[i].account = req[p].account
    BY <1>3, BusyFields DEF Revoking, RevokeInv
  <2>2. QED
    BY <2>1, SizeAssumption DEF Crash
<1>4. QED
  BY <1>2, <1>3, CoverStep DEF Crash

LEMMA NextRevoke == RevokeInv /\ [Next]_vars => RevokeInv'
<1>1. SUFFICES ASSUME RevokeInv, [Next]_vars
               PROVE  RevokeInv'
  OBVIOUS
<1>2. CallInv'
  BY <1>1, NextCall DEF RevokeInv
<1>3. CASE UNCHANGED vars
  <2>1. NumbersFresh'
    BY <1>1, <1>3 DEF vars, RevokeInv, NumbersFresh
  <2>2. RevokedUnlessInterrupted'
    BY <1>1, <1>3 DEF vars, RevokeInv, RevokedUnlessInterrupted, Revoking
  <2>3. QED
    BY <1>2, <2>1, <2>2 DEF RevokeInv
<1>4. ASSUME NEW p \in Requests, Continue(p)
      PROVE  NumbersFresh' /\ RevokedUnlessInterrupted'
  BY <1>1, <1>4, VerifyRevoke, OpenRevoke, ReplaceRevoke, UnlinkRevoke, StoreRevoke,
     ScanRevoke, SweepRevoke DEF Continue
<1>5. CASE Next
  <2>1. CASE Rest
    BY <1>3, <2>1 DEF Rest
  <2>2. (NumbersFresh' /\ RevokedUnlessInterrupted') \/ Rest
    BY <1>1, <1>4, <1>5, StartRevoke, EndRevoke, FailRevoke, CrashRevoke DEF Next
  <2>3. QED
    BY <1>2, <2>1, <2>2 DEF RevokeInv
<1>6. QED
  BY <1>1, <1>3, <1>5

\* However sign-ins, log-outs, replacements and suspensions overlap, a session
\* that a replacement or suspension found open is ended, or a request is still
\* about to end it, or a fault cut a request of its account short: for any
\* accounts, requests and bounds.
THEOREM Revoked == Spec => []RevokedUnlessInterrupted
<1>1. RevokeInv => RevokedUnlessInterrupted
  BY DEF RevokeInv
<1>2. QED
  BY <1>1, InitRevoke, NextRevoke, PTL DEF Spec

-----------------------------------------------------------------------------
(* What a revocation leaves.                                               *)

\* A session of account a, opened with the authenticator of generation g, is one
\* that should not be open.
Stale(a, g) == status[a] = "suspended" \/ g < generation[a]

\* p is about to open such a session: it passed its checks before.
LateRequest(p, a) ==
  /\ req[p].account = a
  /\ \/ req[p].at = "open" /\ Stale(a, req[p].generation)
     \/ req[p].at = "verify" /\ status[a] = "suspended"

\* The sessions that survive, or are about to survive, the last revocation.
Late(a) == {i \in SessionIds : \/ i \in Survivors(a) \ owed
                               \/ \E p \in Requests : LateRequest(p, a) /\ req[p].id = i}

\* An account that does not exist has no request and a first authenticator.
AbsentUntouched ==
  /\ \A a \in Accounts : status[a] = "absent" =>
       generation[a] = 0 /\ \A p \in Requests : req[p].account # a
  /\ \A p \in Requests : req[p].at = "store" => req[p].choice \in {"active", "suspended"}

\* The inductive strengthening of SurvivorsBounded.
LateInv ==
  /\ AbsentUntouched
  /\ \A a \in Accounts : Cardinality(Late(a)) < Cardinality(Requests)

LEMMA RequestsCount == IsFiniteSet(Requests) /\ Cardinality(Requests) \in Nat
BY RequestsAssumption, FS_CardinalityType

LEMMA SessionIdsFinite == IsFiniteSet(SessionIds)
BY FS_Interval, SizeAssumption DEF SessionIds

\* A step that leaves no account with late sessions it did not have.
LEMMA LateShrinks ==
  ASSUME LateInv, \A a \in Accounts : Late(a)' \subseteq Late(a)
  PROVE  \A a \in Accounts : Cardinality(Late(a)') < Cardinality(Requests)
<1>1. ASSUME NEW a \in Accounts
      PROVE  Cardinality(Late(a)') < Cardinality(Requests)
  <2>1. Late(a) \subseteq SessionIds
    BY DEF Late
  <2>2. IsFiniteSet(Late(a))
    BY <2>1, SessionIdsFinite, FS_Subset
  <2>3. IsFiniteSet(Late(a)') /\ Cardinality(Late(a)') <= Cardinality(Late(a))
    BY <2>2, FS_Subset
  <2>4. Cardinality(Late(a)) \in Nat /\ Cardinality(Late(a)') \in Nat
    BY <2>2, <2>3, FS_CardinalityType
  <2>5. QED
    BY <2>3, <2>4, RequestsCount DEF LateInv
<1>2. QED
  BY <1>1

\* A late session is that of a request, other than the one that revokes.
LEMMA LateClaimed ==
  ASSUME NEW L, NEW p \in Requests, NEW number, L \subseteq {number[q] : q \in Requests \ {p}}
  PROVE  Cardinality(L) < Cardinality(Requests)
<1> DEFINE R == {q \in Requests \ {p} : number[q] \in L}
           f == [q \in R |-> number[q]]
<1>1. IsFiniteSet(Requests \ {p}) /\ Cardinality(Requests \ {p}) = Cardinality(Requests) - 1
  BY RequestsCount, FS_RemoveElement
<1>2. f \in Surjection(R, L)
  BY DEF Surjection
<1>3. R \in SUBSET (Requests \ {p})
  OBVIOUS
<1> HIDE DEF R, f
<1>4. IsFiniteSet(R) /\ Cardinality(R) <= Cardinality(Requests \ {p})
  BY <1>1, <1>3, FS_Subset
<1>5. IsFiniteSet(L) /\ Cardinality(L) <= Cardinality(R)
  BY <1>2, <1>4, FS_Surjection
<1>6. Cardinality(L) \in Nat /\ Cardinality(R) \in Nat
  BY <1>4, <1>5, FS_CardinalityType
<1>7. QED
  BY <1>1, <1>4, <1>5, <1>6, RequestsCount

\* The fields late sessions depend on.
LEMMA LateTypes ==
  ASSUME CallInv
  PROVE  /\ \A a \in Accounts : generation[a] \in Nat
         /\ \A i \in SessionIds : session[i] # None =>
              session[i].account \in Accounts /\ session[i].generation \in Nat
         /\ \A p \in Requests : req[p].generation \in Nat
<1>1. generation \in [Accounts -> Generations] /\ session \in [SessionIds -> Entries \cup {None}]
      /\ req \in [Requests -> Calls]
  BY DEF CallInv, TypeOK
<1>2. Generations \subseteq Nat
  BY SizeAssumption DEF Generations
<1>3. QED
  BY <1>1, <1>2 DEF Entries, Calls

\* A step that opens nothing and replaces or suspends nothing.
LEMMA LateKept ==
  ASSUME CallInv, owed' = owed, generation' = generation,
         \A a \in Accounts : status'[a] = "suspended" => status[a] = "suspended",
         \A i \in SessionIds : session'[i] \in {session[i], None},
         \A q \in Requests : \A a \in Accounts : LateRequest(q, a)' => LateRequest(q, a) /\ req'[q].id = req[q].id
  PROVE  \A a \in Accounts : Late(a)' \subseteq Late(a)
<1>1. ASSUME NEW a \in Accounts, NEW i \in Late(a)'
      PROVE  i \in Late(a)
  <2>1. i \in SessionIds
    BY <1>1 DEF Late
  <2>2. CASE i \in Survivors(a)' \ owed'
    <3>1. session'[i] = session[i] /\ session[i] # None /\ session[i].account = a
      BY <2>2 DEF Survivors, OpenOf
    <3>2. i \in Survivors(a)
      BY <2>2, <3>1 DEF Survivors, OpenOf
    <3>3. QED
      BY <2>2, <3>2 DEF Late
  <2>3. CASE \E q \in Requests : LateRequest(q, a)' /\ req'[q].id = i
    BY <2>1, <2>3 DEF Late
  <2>4. QED
    BY <1>1, <2>2, <2>3 DEF Late
<1>2. QED
  BY <1>1

\* What a request that goes on may become, for those steps.
LEMMA LateMoves ==
  ASSUME CallInv, UNCHANGED <<generation, owed>>, NEW p \in Requests, NEW r,
         req' = [req EXCEPT ![p] = r],
         r = Idle \/ r.at \notin {"verify", "open"},
         \A a \in Accounts : status'[a] = "suspended" => status[a] = "suspended",
         \A i \in SessionIds : session'[i] \in {session[i], None}
  PROVE  \A a \in Accounts : Late(a)' \subseteq Late(a)
<1>1. req'[p] = r /\ \A q \in Requests : q # p => req'[q] = req[q]
  BY DEF CallInv, TypeOK
<1>2. ASSUME NEW q \in Requests, NEW a \in Accounts, LateRequest(q, a)'
      PROVE  LateRequest(q, a) /\ req'[q].id = req[q].id
  <2>1. q # p
    BY <1>1, <1>2 DEF LateRequest, Idle
  <2>2. QED
    BY <1>1, <1>2, <2>1 DEF LateRequest, Stale
<1>3. QED
  BY <1>2, LateKept

LEMMA ReturnLate ==
  ASSUME CallInv, UNCHANGED <<generation, owed>>, NEW p \in Requests, Return(p),
         \A a \in Accounts : status'[a] = "suspended" => status[a] = "suspended",
         \A i \in SessionIds : session'[i] \in {session[i], None}
  PROVE  \A a \in Accounts : Late(a)' \subseteq Late(a)
BY LateMoves DEF Return

LEMMA BeginLate ==
  ASSUME CallInv, LateInv, NEW p \in Requests, NEW a \in Accounts,
         \/ BeginSignIn(p, a) \/ Register(p, a) \/ BeginReplace(p, a)
         \/ \E s \in {"active", "suspended"} : BeginStatus(p, a, s)
  PROVE  \A b \in Accounts : Late(b)' \subseteq Late(b)
<1>1. PICK place, choice :
        /\ Begin(p, a, place, choice)
        /\ place = "verify" => status'[a] = "active"
        /\ place = "open" => status'[a] = "active" /\ generation[a] = 0
  <2>1. CASE BeginSignIn(p, a)
    BY <2>1 DEF BeginSignIn
  <2>2. CASE Register(p, a)
    BY <2>2 DEF Register, CallInv, TypeOK, LateInv, AbsentUntouched
  <2>3. CASE BeginReplace(p, a)
    BY <2>3 DEF BeginReplace
  <2>4. CASE \E s \in {"active", "suspended"} : BeginStatus(p, a, s)
    BY <2>4 DEF BeginStatus
  <2>5. QED
    BY <2>1, <2>2, <2>3, <2>4
<1>2. PICK r : r = [Idle EXCEPT !.at = place, !.account = a, !.id = begun + 1, !.choice = choice]
  OBVIOUS
<1>3. r.at = place /\ r.account = a /\ r.id = begun + 1 /\ r.generation = 0
  BY <1>2 DEF Idle
<1>4. req'[p] = r /\ \A q \in Requests : q # p => req'[q] = req[q]
  BY <1>1, <1>2 DEF Begin, CallInv, TypeOK
<1>5. UNCHANGED <<generation, session, owed>>
  BY <1>1 DEF Begin
<1>6. \A b \in Accounts : status'[b] = "suspended" => status[b] = "suspended"
  BY DEF BeginSignIn, Register, BeginReplace, BeginStatus, CallInv, TypeOK
<1>7. ASSUME NEW q \in Requests, NEW b \in Accounts, LateRequest(q, b)'
      PROVE  LateRequest(q, b) /\ req'[q].id = req[q].id
  <2>1. CASE q = p
    BY <1>1, <1>3, <1>4, <1>5, <1>7, <2>1, LateTypes DEF LateRequest, Stale
  <2>2. CASE q # p
    BY <1>4, <1>5, <1>6, <1>7, <2>2 DEF LateRequest, Stale
  <2>3. QED
    BY <2>1, <2>2
<1>8. QED
  BY <1>5, <1>6, <1>7, LateKept

\* A code is accepted for the authenticator of the moment.
LEMMA VerifyLate ==
  ASSUME CallInv, NEW p \in Requests, Verify(p)
  PROVE  \A a \in Accounts : Late(a)' \subseteq Late(a)
<1>1. CASE Return(p)
  BY <1>1, ReturnLate DEF Verify
<1>2. CASE req' = [req EXCEPT ![p].at = "open", ![p].generation = generation[req[p].account]]
  <2>1. req[p] \in Calls /\ req[p].account \in Accounts /\ req[p].at = "verify"
    BY BusyFields DEF Verify
  <2>2. /\ req'[p].at = "open" /\ req'[p].generation = generation[req[p].account]
        /\ req'[p].account = req[p].account /\ req'[p].id = req[p].id
        /\ \A q \in Requests : q # p => req'[q] = req[q]
    BY <1>2, <2>1 DEF CallInv, TypeOK, Calls
  <2>3. UNCHANGED <<status, generation, session, owed>>
    BY DEF Verify
  <2>4. ASSUME NEW q \in Requests, NEW a \in Accounts, LateRequest(q, a)'
        PROVE  LateRequest(q, a) /\ req'[q].id = req[q].id
    <3>1. CASE q = p
      BY <2>1, <2>2, <2>3, <2>4, <3>1, LateTypes DEF LateRequest, Stale
    <3>2. CASE q # p
      BY <2>2, <2>3, <2>4, <3>2 DEF LateRequest, Stale
    <3>3. QED
      BY <3>1, <3>2
  <2>5. QED
    BY <2>3, <2>4, LateKept
<1>3. QED
  BY <1>1, <1>2 DEF Verify

\* A late session that opens was late before.
LEMMA OpenLate ==
  ASSUME RevokeInv, NEW p \in Requests, OpenSession(p)
  PROVE  \A a \in Accounts : Late(a)' \subseteq Late(a)
<1>1. req[p] \in Calls /\ req[p].account \in Accounts /\ req[p].id \in SessionIds
  BY BusyFields DEF OpenSession, RevokeInv
<1>2. /\ session'[req[p].id] = [account |-> req[p].account, generation |-> req[p].generation]
      /\ \A i \in SessionIds : i # req[p].id => session'[i] = session[i]
      /\ req'[p] = Idle /\ \A q \in Requests : q # p => req'[q] = req[q]
  BY <1>1 DEF OpenSession, Return, RevokeInv, CallInv, TypeOK
<1>3. UNCHANGED <<status, generation, owed>>
  BY DEF OpenSession
<1>4. ASSUME NEW a \in Accounts, NEW i \in Late(a)'
      PROVE  i \in Late(a)
  <2>1. i \in SessionIds
    BY <1>4 DEF Late
  <2>2. CASE i \in Survivors(a)' \ owed' /\ i = req[p].id
    <3>1. req[p].account = a /\ Stale(a, req[p].generation)
      BY <1>2, <1>3, <2>2 DEF Survivors, OpenOf, Stale
    <3>2. LateRequest(p, a)
      BY <3>1 DEF LateRequest, OpenSession
    <3>3. QED
      BY <2>1, <2>2, <3>2 DEF Late
  <2>3. CASE i \in Survivors(a)' \ owed' /\ i # req[p].id
    <3>1. i \in Survivors(a) \ owed
      BY <1>2, <1>3, <2>1, <2>3 DEF Survivors, OpenOf
    <3>2. QED
      BY <2>1, <3>1 DEF Late
  <2>4. ASSUME NEW q \in Requests, LateRequest(q, a)', req'[q].id = i
        PROVE  i \in Late(a)
    <3>1. q # p
      BY <1>2, <2>4 DEF LateRequest, Idle
    <3>2. LateRequest(q, a) /\ req[q].id = i
      BY <1>2, <1>3, <2>4, <3>1 DEF LateRequest, Stale
    <3>3. QED
      BY <2>1, <3>2 DEF Late
  <2>5. QED
    BY <1>4, <2>2, <2>3, <2>4 DEF Late
<1>5. QED
  BY <1>4

\* A replacement or a suspension finds every session of the account open, so
\* only the sign-ins of other requests can still be late.
LEMMA ClaimLate ==
  ASSUME RevokeInv, LateInv, NEW p \in Requests, NEW place \in {"unlink", "scan"},
         req[p].at \in {"replace", "store"}, Goto(p, place),
         owed' = owed \cup OpenOf(req[p].account), session' = session,
         \A a \in Accounts : a # req[p].account => generation'[a] = generation[a] /\ status'[a] = status[a]
  PROVE  \A a \in Accounts : Cardinality(Late(a)') < Cardinality(Requests)
<1>1. req[p] \in Calls /\ req[p].account \in Accounts
  BY BusyFields DEF RevokeInv
<1>2. req'[p].at = place /\ \A q \in Requests : q # p => req'[q] = req[q]
  BY <1>1 DEF Goto, RevokeInv, CallInv, TypeOK, Calls
<1>3. ASSUME NEW a \in Accounts
      PROVE  Cardinality(Late(a)') < Cardinality(Requests)
  <2>1. CASE a = req[p].account
    <3>1. Survivors(a)' \subseteq owed'
      BY <2>1 DEF Survivors, OpenOf
    <3>2. PICK number : number = [q \in Requests |-> req'[q].id]
      OBVIOUS
    <3>3. Late(a)' \subseteq {number[q] : q \in Requests \ {p}}
      <4>1. ~LateRequest(p, a)'
        BY <1>2 DEF LateRequest
      <4>2. QED
        BY <3>1, <3>2, <4>1 DEF Late
    <3>4. QED
      BY <3>3, LateClaimed
  <2>2. CASE a # req[p].account
    <3>1. ASSUME NEW i \in Late(a)'
          PROVE  i \in Late(a)
      <4>1. i \in SessionIds /\ generation'[a] = generation[a] /\ status'[a] = status[a]
        BY <2>2, <3>1 DEF Late
      <4>2. CASE i \in Survivors(a)' \ owed'
        BY <4>1, <4>2 DEF Survivors, OpenOf, Late
      <4>3. ASSUME NEW q \in Requests, LateRequest(q, a)', req'[q].id = i
            PROVE  i \in Late(a)
        <5>1. q # p
          BY <1>2, <4>3 DEF LateRequest
        <5>2. LateRequest(q, a) /\ req[q].id = i
          BY <1>2, <4>1, <4>3, <5>1 DEF LateRequest, Stale
        <5>3. QED
          BY <4>1, <5>2 DEF Late
      <4>4. QED
        BY <3>1, <4>2, <4>3 DEF Late
    <3>2. IsFiniteSet(Late(a))
      BY SessionIdsFinite, FS_Subset DEF Late
    <3>3. IsFiniteSet(Late(a)') /\ Cardinality(Late(a)') <= Cardinality(Late(a))
      BY <3>1, <3>2, FS_Subset
    <3>4. Cardinality(Late(a)) \in Nat /\ Cardinality(Late(a)') \in Nat
      BY <3>2, <3>3, FS_CardinalityType
    <3>5. QED
      BY <3>3, <3>4, RequestsCount DEF LateInv
  <2>3. QED
    BY <2>1, <2>2
<1>4. QED
  BY <1>3

LEMMA ContinueLate ==
  ASSUME RevokeInv, LateInv, NEW p \in Requests, Continue(p)
  PROVE  \A a \in Accounts : Cardinality(Late(a)') < Cardinality(Requests)
<1> DEFINE Bounded == \A a \in Accounts : Cardinality(Late(a)') < Cardinality(Requests)
<1> USE DEF RevokeInv
<1>1. CASE Verify(p) \/ OpenSession(p)
  BY <1>1, VerifyLate, OpenLate, LateShrinks
<1>2. CASE Replace(p)
  <2>1. CASE Return(p) /\ UNCHANGED <<generation, owed>>
    BY <1>2, <2>1, ReturnLate, LateShrinks DEF Replace
  <2>2. CASE /\ generation' = [generation EXCEPT ![req[p].account] = @ + 1]
             /\ Goto(p, "unlink") /\ owed' = owed \cup OpenOf(req[p].account)
    <3>1. \A a \in Accounts : a # req[p].account => generation'[a] = generation[a]
      BY <2>2 DEF CallInv, TypeOK
    <3>2. QED
      BY <1>2, <2>2, <3>1, ClaimLate DEF Replace
  <2>3. QED
    BY <1>2, <2>1, <2>2 DEF Replace
<1>3. CASE Unlink(p)
  <2>1. PICK r : r = [req[p] EXCEPT !.at = "scan"]
    OBVIOUS
  <2>2. req[p] \in Calls
    BY DEF CallInv, TypeOK
  <2>3. r.at = "scan" /\ req' = [req EXCEPT ![p] = r]
    BY <1>3, <2>1, <2>2 DEF Unlink, Goto, Calls
  <2>4. QED
    BY <1>3, <2>3, LateMoves, LateShrinks DEF Unlink
<1>4. CASE StoreStatus(p)
  <2>1. req[p] \in Calls /\ req[p].account \in Accounts
    BY <1>4, BusyFields DEF StoreStatus
  <2>2. \A a \in Accounts : status'[a] = IF a = req[p].account THEN req[p].choice ELSE status[a]
    BY <1>4, <2>1 DEF StoreStatus, CallInv, TypeOK
  <2>3. CASE req[p].choice = "suspended"
    BY <1>4, <2>2, <2>3, ClaimLate DEF StoreStatus
  <2>4. CASE req[p].choice # "suspended"
    BY <1>4, <2>2, <2>4, ReturnLate, LateShrinks DEF StoreStatus
  <2>5. QED
    BY <2>3, <2>4
<1>5. CASE Scan(p)
  <2>1. CASE Return(p)
    BY <1>5, <2>1, ReturnLate, LateShrinks DEF Scan
  <2>2. CASE req' = [req EXCEPT ![p].at = "sweep", ![p].ids = OpenOf(req[p].account)]
    <3>1. PICK r : r = [req[p] EXCEPT !.at = "sweep", !.ids = OpenOf(req[p].account)]
      OBVIOUS
    <3>2. r.at = "sweep" /\ req' = [req EXCEPT ![p] = r]
      BY <2>2, <3>1 DEF CallInv, TypeOK, Calls
    <3>3. QED
      BY <1>5, <3>2, LateMoves, LateShrinks DEF Scan
  <2>3. QED
    BY <1>5, <2>1, <2>2 DEF Scan
<1>6. CASE Sweep(p)
  <2>1. PICK i \in req[p].ids :
          /\ req[p].at = "sweep"
          /\ session' = [session EXCEPT ![i] = None]
          /\ Return(p) \/ req' = [req EXCEPT ![p].ids = @ \ {i}]
          /\ UNCHANGED <<status, generation, owed>>
    BY <1>6 DEF Sweep
  <2>2. \A j \in SessionIds : session'[j] \in {session[j], None}
    BY <2>1 DEF CallInv, TypeOK
  <2>3. CASE Return(p)
    BY <2>1, <2>2, <2>3, ReturnLate, LateShrinks
  <2>4. CASE req' = [req EXCEPT ![p].ids = @ \ {i}]
    <3>1. PICK r : r = [req[p] EXCEPT !.ids = @ \ {i}]
      OBVIOUS
    <3>2. r.at = "sweep" /\ req' = [req EXCEPT ![p] = r]
      BY <2>1, <2>4, <3>1 DEF CallInv, TypeOK, Calls
    <3>3. QED
      BY <2>1, <2>2, <3>2, LateMoves, LateShrinks
  <2>5. QED
    BY <2>1, <2>3, <2>4
<1>7. QED
  BY <1>1, <1>2, <1>3, <1>4, <1>5, <1>6 DEF Continue

\* An account that does not exist stays untouched until it is registered.
LEMMA AbsentNext ==
  ASSUME CallInv, AbsentUntouched, [Next]_vars
  PROVE  AbsentUntouched'
<1>1. ASSUME NEW p \in Requests, NEW r, req' = [req EXCEPT ![p] = r],
             r = Idle \/ (r.account = req[p].account /\ (r.at = "store" => req[p].at = "store" /\ r.choice = req[p].choice)),
             generation' = generation,
             \A a \in Accounts : status'[a] = "absent" => status[a] = "absent"
      PROVE  AbsentUntouched'
  <2>1. req'[p] = r /\ \A q \in Requests : q # p => req'[q] = req[q]
    BY <1>1 DEF CallInv, TypeOK
  <2>2. \A q \in Requests : /\ req'[q].account \in {req[q].account, None}
                            /\ req'[q].at = "store" => req[q].at = "store" /\ req'[q].choice = req[q].choice
    BY <1>1, <2>1 DEF Idle
  <2>3. None \notin Accounts
    BY SizeAssumption
  <2>4. QED
    BY <1>1, <2>2, <2>3 DEF AbsentUntouched
<1>2. ASSUME NEW p \in Requests, Return(p), generation' = generation,
             \A a \in Accounts : status'[a] = "absent" => status[a] = "absent"
      PROVE  AbsentUntouched'
  BY <1>1, <1>2 DEF Return
<1>3. ASSUME NEW p \in Requests, NEW a \in Accounts, NEW place, NEW choice, Begin(p, a, place, choice),
             status'[a] # "absent", place = "store" => choice \in {"active", "suspended"},
             \A b \in Accounts : status'[b] = "absent" => status[b] = "absent"
      PROVE  AbsentUntouched'
  <2>1. PICK r : r = [Idle EXCEPT !.at = place, !.account = a, !.id = begun + 1, !.choice = choice]
    OBVIOUS
  <2>2. r.at = place /\ r.account = a /\ r.choice = choice
    BY <2>1 DEF Idle
  <2>3. req'[p] = r /\ \A q \in Requests : q # p => req'[q] = req[q]
    BY <1>3, <2>1 DEF Begin, CallInv, TypeOK
  <2>4. UNCHANGED generation
    BY <1>3 DEF Begin
  <2>5. QED
    BY <1>3, <2>2, <2>3, <2>4 DEF AbsentUntouched
<1>4. ASSUME NEW p \in Requests, NEW a \in Accounts,
             \/ BeginSignIn(p, a) \/ Register(p, a) \/ BeginReplace(p, a)
             \/ \E s \in {"active", "suspended"} : BeginStatus(p, a, s)
      PROVE  AbsentUntouched'
  <2>1. CASE BeginSignIn(p, a)
    BY <1>3, <2>1 DEF BeginSignIn
  <2>2. CASE Register(p, a)
    BY <1>3, <2>2 DEF Register, CallInv, TypeOK
  <2>3. CASE BeginReplace(p, a)
    BY <1>3, <2>3 DEF BeginReplace
  <2>4. CASE \E s \in {"active", "suspended"} : BeginStatus(p, a, s)
    BY <1>3, <2>4 DEF BeginStatus
  <2>5. QED
    BY <1>4, <2>1, <2>2, <2>3, <2>4
<1>5. ASSUME NEW p \in Requests, Continue(p)
      PROVE  AbsentUntouched'
  <2>1. req[p] \in Calls
    BY DEF CallInv, TypeOK
  <2>2. CASE Verify(p)
    <3>1. PICK r : r = [req[p] EXCEPT !.at = "open", !.generation = generation[req[p].account]]
      OBVIOUS
    <3>2. r.account = req[p].account /\ r.at = "open"
      BY <2>1, <3>1 DEF Calls
    <3>3. QED
      BY <1>1, <1>2, <2>2, <3>1, <3>2, ZenonT(60) DEF Verify
  <2>3. CASE OpenSession(p)
    BY <1>2, <2>3 DEF OpenSession
  <2>4. CASE Replace(p)
    <3>1. CASE Return(p) /\ UNCHANGED <<generation, owed>>
      BY <1>2, <2>4, <3>1 DEF Replace
    <3>2. CASE generation' = [generation EXCEPT ![req[p].account] = @ + 1] /\ Goto(p, "unlink")
      <4>1. req[p].account \in Accounts /\ status[req[p].account] # "absent"
        BY <2>4, BusyFields DEF Replace, AbsentUntouched
      <4>2. \A q \in Requests : /\ req'[q].account = req[q].account
                                /\ req'[q].at = "store" => req'[q] = req[q]
        BY <2>1, <3>2 DEF Goto, CallInv, TypeOK, Calls
      <4>3. status' = status /\ \A a \in Accounts : a # req[p].account => generation'[a] = generation[a]
        BY <2>4, <3>2 DEF Replace, CallInv, TypeOK
      <4>4. QED
        BY <4>1, <4>2, <4>3 DEF AbsentUntouched
    <3>3. QED
      BY <2>4, <3>1, <3>2 DEF Replace
  <2>5. CASE Unlink(p)
    <3>1. PICK r : r = [req[p] EXCEPT !.at = "scan"]
      OBVIOUS
    <3>2. r.account = req[p].account /\ r.at = "scan"
      BY <2>1, <3>1 DEF Calls
    <3>3. QED
      BY <1>1, <2>5, <3>1, <3>2 DEF Unlink, Goto
  <2>6. CASE StoreStatus(p)
    <3>1. \A a \in Accounts : status'[a] = "absent" => status[a] = "absent"
      BY <2>6 DEF StoreStatus, AbsentUntouched, CallInv, TypeOK
    <3>2. CASE Return(p)
      BY <1>2, <2>6, <3>1, <3>2 DEF StoreStatus
    <3>3. CASE Goto(p, "scan")
      <4>1. PICK r : r = [req[p] EXCEPT !.at = "scan"]
        OBVIOUS
      <4>2. r.account = req[p].account /\ r.at = "scan"
        BY <2>1, <4>1 DEF Calls
      <4>3. QED
        BY <1>1, <2>6, <3>1, <3>3, <4>1, <4>2 DEF StoreStatus, Goto
    <3>4. QED
      BY <2>6, <3>2, <3>3 DEF StoreStatus
  <2>7. CASE Scan(p)
    <3>1. PICK r : r = [req[p] EXCEPT !.at = "sweep", !.ids = OpenOf(req[p].account)]
      OBVIOUS
    <3>2. r.account = req[p].account /\ r.at = "sweep"
      BY <2>1, <3>1 DEF Calls
    <3>3. QED
      BY <1>1, <1>2, <2>7, <3>1, <3>2 DEF Scan
  <2>8. CASE Sweep(p)
    <3>1. PICK i : /\ req[p].at = "sweep" /\ UNCHANGED <<status, generation>>
                   /\ Return(p) \/ req' = [req EXCEPT ![p].ids = @ \ {i}]
      BY <2>8 DEF Sweep
    <3>2. PICK r : r = [req[p] EXCEPT !.ids = @ \ {i}]
      OBVIOUS
    <3>3. r.account = req[p].account /\ r.at = "sweep"
      BY <2>1, <3>1, <3>2 DEF Calls
    <3>4. QED
      BY <1>1, <1>2, <3>1, <3>2, <3>3
  <2>9. QED
    BY <1>5, <2>2, <2>3, <2>4, <2>5, <2>6, <2>7, <2>8 DEF Continue
<1>6. ASSUME NEW p \in Requests, Fail(p)
      PROVE  AbsentUntouched'
  BY <1>2, <1>6 DEF Fail
<1>7. CASE Crash
  BY <1>7, SizeAssumption DEF Crash, AbsentUntouched, Idle
<1>8. CASE \/ UNCHANGED vars \/ \E i \in SessionIds : EndSession(i)
  BY <1>8 DEF vars, EndSession, AbsentUntouched
<1>9. QED
  BY <1>4, <1>5, <1>6, <1>7, <1>8 DEF Next, Rest

LEMMA NextLate == RevokeInv /\ LateInv /\ [Next]_vars => LateInv'
<1> SUFFICES ASSUME RevokeInv, LateInv, [Next]_vars PROVE LateInv'
  OBVIOUS
<1> DEFINE Bounded == \A a \in Accounts : Cardinality(Late(a)') < Cardinality(Requests)
<1> USE DEF RevokeInv
<1>1. ASSUME UNCHANGED vars
      PROVE  Bounded
  BY <1>1, LateKept, LateShrinks DEF vars, LateRequest, Stale
<1>2. ASSUME NEW i \in SessionIds, EndSession(i)
      PROVE  Bounded
  <2>1. \A j \in SessionIds : session'[j] \in {session[j], None}
    BY <1>2 DEF EndSession, CallInv, TypeOK
  <2>2. QED
    BY <1>2, <2>1, LateKept, LateShrinks DEF EndSession, LateRequest, Stale
<1>3. ASSUME NEW p \in Requests, Fail(p)
      PROVE  Bounded
  BY <1>3, ReturnLate, LateShrinks DEF Fail
<1>4. ASSUME Crash
      PROVE  Bounded
  <2>1. \A q \in Requests : req'[q].at = "idle"
    BY <1>4 DEF Crash, Idle
  <2>2. QED
    BY <1>4, <2>1, LateKept, LateShrinks DEF Crash, LateRequest
<1>5. ASSUME NEW p \in Requests, NEW a \in Accounts,
             \/ BeginSignIn(p, a) \/ Register(p, a) \/ BeginReplace(p, a)
             \/ \E s \in {"active", "suspended"} : BeginStatus(p, a, s)
      PROVE  Bounded
  BY <1>5, BeginLate, LateShrinks
<1>6. Bounded
  BY <1>1, <1>2, <1>3, <1>4, <1>5, ContinueLate DEF Next, Rest
<1>7. AbsentUntouched'
  BY AbsentNext DEF LateInv
<1>8. QED
  BY <1>6, <1>7 DEF LateInv

LEMMA InitLate == Init => LateInv
<1> SUFFICES ASSUME Init PROVE LateInv
  OBVIOUS
<1>1. AbsentUntouched
  BY SizeAssumption DEF Init, AbsentUntouched, Idle
<1>2. \A a : Late(a) = {}
  BY DEF Init, Late, Survivors, OpenOf, LateRequest, Idle
<1>3. Cardinality({}) < Cardinality(Requests)
  BY RequestsAssumption, RequestsCount, FS_EmptySet
<1>4. QED
  BY <1>1, <1>2, <1>3 DEF LateInv

\* Once no request is revoking sessions of an account, and none was cut short, the
\* sessions that outlived a replaced authenticator or a suspension are sign-ins
\* that ran beside the revocation: fewer than there are request handlers.
THEOREM FewSurvive == Spec => []SurvivorsBounded
<1>1. RevokeInv /\ LateInv => SurvivorsBounded
  <2> SUFFICES ASSUME RevokeInv, LateInv, NEW a \in Accounts, a \notin interrupted,
                      ~\E p \in Requests : req[p].account = a /\ req[p].at \in {"unlink", "scan", "sweep"}
               PROVE  Cardinality(Survivors(a)) < Cardinality(Requests)
    BY DEF SurvivorsBounded
  <2>1. ASSUME NEW i \in Survivors(a)
        PROVE  i \in Late(a)
    <3>1. i \in SessionIds /\ session[i] # None /\ session[i].account = a
      BY DEF Survivors, OpenOf
    <3>2. i \notin owed
      BY <3>1 DEF RevokeInv, RevokedUnlessInterrupted, Revoking
    <3>3. QED
      BY <3>1, <3>2 DEF Late
  <2>2. IsFiniteSet(Late(a))
    BY SessionIdsFinite, FS_Subset DEF Late
  <2>3. IsFiniteSet(Survivors(a)) /\ Cardinality(Survivors(a)) <= Cardinality(Late(a))
    BY <2>1, <2>2, FS_Subset
  <2>4. Cardinality(Survivors(a)) \in Nat /\ Cardinality(Late(a)) \in Nat
    BY <2>2, <2>3, FS_CardinalityType
  <2>5. QED
    BY <2>3, <2>4, RequestsCount DEF LateInv
<1>2. QED
  BY <1>1, InitRevoke, NextRevoke, InitLate, NextLate, PTL DEF Spec
=============================================================================
