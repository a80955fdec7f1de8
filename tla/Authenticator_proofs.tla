------------------------- MODULE Authenticator_proofs -----------------------
(***************************************************************************)
(* Proofs about Authenticator, for every number of accounts, requests and  *)
(* links: its types, that enrolment, confirmation and recovery keep what   *)
(* they have set up, and that codes are judged as if the requests of an    *)
(* account came one at a time unless a lock-free write overlapped another. *)
(***************************************************************************)
EXTENDS Authenticator, FiniteSetTheorems, TLAPS

-----------------------------------------------------------------------------
(* The inductive invariant.                                                *)

Linked == {"create", "first", "mailbox", "reread", "write", "unlink"}

\* A working request has what its place needs: the op it got there with, its
\* link, the factor it saw, and a code that was judged when it was taken.
Busy(r) ==
  /\ r.at # "idle"
  /\ r.account \in Accounts
  /\ r.at \in {"verify", "put"} => r.op = "verify"
  /\ r.at = "issue" => r.op \in {"rotate", "address", "register"}
  /\ r.at = "reread" => r.op \in {"replace", "confirm"}
  /\ r.at \in {"create", "first", "mailbox", "dropfactor", "dropaccount"} => r.op = "register"
  /\ r.at \in {"write", "unlink"} => r.op \in {"replace", "confirm", "register"}
  /\ r.at \in Linked => /\ r.link \in Links
                        /\ r.op # "confirm" => r.code.secret = r.link /\ r.code.step > 0
  /\ r.at \in {"put", "mailbox", "write"} => r.seen \in Factors
  /\ r.at = "put" => /\ r.seen.locked <= r.time
                     /\ r.hit => r.code.secret = r.seen.secret /\ r.code.step > r.seen.last
  /\ r.at \in {"mailbox", "write"} /\ r.op = "register" => r.seen = NewFactor(r.link, FALSE, 0)

CallInv ==
  /\ TypeOK
  /\ now \in 2 .. MaxTime
  /\ \A p \in Requests : req[p] = Idle \/ Busy(req[p])

\* Who is between reading a factor and writing it back in Verify holds the lock.
LockHeld ==
  /\ \A p \in Requests : req[p].at = "put" => mutex = p
  /\ mutex # None => req[mutex].at = "put"

\* A registration that has created its account.
Registering(p) ==
  /\ req[p].op = "register"
  /\ req[p].at \in {"first", "mailbox", "write", "unlink", "issue", "dropfactor", "dropaccount"}

\* Only its own registration gives an account its first factor or takes the account
\* back; nobody has seen a factor before there was one.
AccountsKept ==
  /\ \A a \in Accounts : factor[a] # None => a \in taken
  /\ \A p \in Requests :
       /\ Registering(p) \/ req[p].at \in {"put", "write"} => req[p].account \in taken
       /\ req[p].at = "first" => factor[req[p].account] = None
  /\ \A p, q \in Requests :
       req[p].at = "first" /\ req[q].at \in {"put", "mailbox", "write"}
       => req[p].account # req[q].account
  /\ \A p, q \in Requests :
       Registering(p) /\ Registering(q) /\ req[p].account = req[q].account => p = q
  /\ EnrolledUnlessInterrupted

\* What is on record for an account without a factor: nothing.
Blank(a) == ledger[a] = Clear /\ a \notin confirmed /\ \A x \in accepted : x[1] # a

\* What a factor says of the codes of its account: the last step used, the wrong
\* codes since, and whether the recovery address was confirmed.
Told(a) ==
  /\ ledger[a].streak = factor[a].failed
  /\ ledger[a].barred = factor[a].locked
  /\ a \in confirmed => factor[a].verified
  /\ \A x \in accepted : x[1] = a /\ x[2].secret = factor[a].secret => x[2].step <= factor[a].last

\* All of it is true unless a lock-free write overlapped another write, and what
\* Verify saw under the lock is what is stored.
FactorsTold ==
  /\ \A a \in Accounts : IF factor[a] = None THEN Blank(a) ELSE a \in raced \/ Told(a)
  /\ \A p \in Requests :
       req[p].at = "put" => req[p].account \in raced \/ req[p].seen = factor[req[p].account]

\* A secret that is or may become somebody's otherwise than by a replacement.
Enrols(s) ==
  \/ \E a \in Accounts : factor[a] # None /\ factor[a].secret = s
  \/ \E p \in Requests : req[p].seen # None /\ req[p].seen.secret = s
  \/ \E p \in Requests : req[p].op = "register" /\ req[p].link = s
  \/ \E x \in accepted : x[2].secret = s

\* A link that replaces a factor.
Replaces(l) ==
  \/ link[l] # None /\ link[l].kind \in {"rotation", "recovery"}
  \/ \E p \in Requests : req[p].op = "replace" /\ req[p].link = l

\* Request r is about what token t was issued for.
Fits(r, t) ==
  /\ t.account = r.account
  /\ t.kind = "registration" <=> r.op = "register"
  /\ t.kind = "confirm" <=> r.op = "confirm"

\* Until it is used the secret of a link that replaces a factor is nobody's; a
\* link is not issued twice, and is used for what it was issued for.
LinksApart ==
  /\ \A l \in Links : l > issued => link[l] = None /\ uses[l] = 0 /\ ~Enrols(l)
  /\ \A l \in Links : uses[l] = 0 => ~(Enrols(l) /\ Replaces(l))
  /\ \A p \in Requests :
       req[p].link # None
       => /\ req[p].link <= issued
          /\ link[req[p].link] # None => Fits(req[p], link[req[p].link])

JudgeInv == CallInv /\ LockHeld /\ AccountsKept /\ FactorsTold /\ LinksApart

\* The requests that hold link l and have still to write the factor, and those
\* that have written it and are about to delete the link.
Holding(l)  == {p \in Requests : req[p].link = l /\ req[p].at \in Linked \ {"unlink"}}
Unlinking(l) == {p \in Requests : req[p].link = l /\ req[p].at = "unlink"}

\* The inductive strengthening of LinkUses: while a link is stored, all but the
\* requests about to delete it have used it up to what faults allow.
UsesBounded == \A l \in Links :
  /\ link[l] # None => uses[l] <= Cardinality(Requests) * faults + Cardinality(Unlinking(l))
  /\ uses[l] + Cardinality(Holding(l)) <= Cardinality(Requests) * (1 + faults)

-----------------------------------------------------------------------------
(* What each action does to the requests.                                  *)

Others(p) == \A q \in Requests \ {p} : req'[q] = req[q]

\* A request keeps what it is about while it moves on.
Keeps(p) ==
  /\ req'[p].op = req[p].op /\ req'[p].account = req[p].account
  /\ req'[p].link = req[p].link /\ req'[p].code = req[p].code

\* A request that is not at work, and what that leaves out.
LEMMA IdleCall ==
  /\ Idle \in Calls /\ WrongCode \in Codes
  /\ Idle.at = "idle" /\ Idle.op = None /\ Idle.account = None /\ Idle.link = None /\ Idle.seen = None
  /\ ~Busy(Idle)
BY SizeAssumption DEF Idle, Calls, WrongCode, Codes, Places, Steps, Busy

\* Putting one call in the place of another.
LEMMA Placed ==
  ASSUME req \in [Requests -> Calls], NEW p \in Requests, NEW r \in Calls,
         req' = [req EXCEPT ![p] = r]
  PROVE  req' \in [Requests -> Calls] /\ req'[p] = r /\ Others(p)
BY DEF Others

LEMMA Returned ==
  ASSUME req \in [Requests -> Calls], NEW p \in Requests, Return(p)
  PROVE  req' \in [Requests -> Calls] /\ req'[p] = Idle /\ Others(p)
BY IdleCall, Placed DEF Return

LEMMA Gone ==
  ASSUME req \in [Requests -> Calls], NEW p \in Requests, NEW place \in Places, Goto(p, place)
  PROVE  /\ req' \in [Requests -> Calls] /\ Others(p)
         /\ Keeps(p) /\ req'[p].at = place
         /\ req'[p].seen = req[p].seen /\ req'[p].hit = req[p].hit /\ req'[p].time = req[p].time
BY DEF Goto, Calls, Others, Keeps

LEMMA FactorTypes ==
  /\ \A s \in Secrets, v \in BOOLEAN, k \in Steps : NewFactor(s, v, k) \in Factors
  /\ \A f \in Factors, k \in Steps : Hit(f, k) \in Factors
  /\ \A f \in Factors, t \in Nat : Miss(f, t) \in Factors
  /\ \A r \in Calls : r.seen \in Factors /\ (r.op = "confirm" \/ r.link \in Links) => Newest(r) \in Factors
  /\ Clear \in [streak : 0 .. MaxFailures - 1, barred : Nat]
  /\ \A m \in [streak : 0 .. MaxFailures - 1, barred : Nat], t \in Nat :
       Streak(m, t) \in [streak : 0 .. MaxFailures - 1, barred : Nat]
<1>1. \A s \in Secrets, v \in BOOLEAN, k \in Steps : NewFactor(s, v, k) \in Factors
  BY SizeAssumption DEF NewFactor, Factors
<1>2. ASSUME NEW f \in Factors, NEW k \in Steps
      PROVE  Hit(f, k) \in Factors
  <2>1. \A g \in Factors : [g EXCEPT !.failed = 0] \in Factors
    BY SizeAssumption DEF Factors
  <2>2. \A g \in Factors : [g EXCEPT !.locked = 0] \in Factors
    BY DEF Factors
  <2>3. \A g \in Factors : [g EXCEPT !.last = k] \in Factors
    BY DEF Factors
  <2>4. Hit(f, k) = [[[f EXCEPT !.failed = 0] EXCEPT !.locked = 0] EXCEPT !.last = k]
    BY DEF Hit
  <2> QED BY <2>1, <2>2, <2>3, <2>4
<1>3. ASSUME NEW f \in Factors, NEW t \in Nat
      PROVE  Miss(f, t) \in Factors
  <2>1. CASE f.failed + 1 >= MaxFailures
    <3>1. Miss(f, t) = [secret |-> f.secret, verified |-> f.verified, failed |-> 0,
                        locked |-> t + LockTime, last |-> f.last]
      BY <2>1 DEF Miss, Factors
    <3> QED BY <3>1, SizeAssumption DEF Factors
  <2>2. CASE ~(f.failed + 1 >= MaxFailures)
    <3>1. Miss(f, t) = [secret |-> f.secret, verified |-> f.verified, failed |-> f.failed + 1,
                        locked |-> f.locked, last |-> f.last]
      BY <2>2 DEF Miss, Factors
    <3> QED BY <3>1, <2>2, SizeAssumption DEF Factors
  <2> QED BY <2>1, <2>2
<1>4. \A r \in Calls : r.seen \in Factors /\ (r.op = "confirm" \/ r.link \in Links) => Newest(r) \in Factors
  <2> SUFFICES ASSUME NEW r \in Calls, r.seen \in Factors, r.op = "confirm" \/ r.link \in Links
               PROVE  Newest(r) \in Factors
    OBVIOUS
  <2>1. CASE r.op = "confirm"
    BY <2>1 DEF Newest, Factors
  <2>2. CASE r.op # "confirm"
    <3>1. r.link \in Secrets /\ r.seen.verified \in BOOLEAN /\ r.code.step \in Steps
      BY <2>2 DEF Links, Secrets, Factors, Calls, Codes
    <3> QED BY <3>1, <2>2, <1>1 DEF Newest
  <2> QED BY <2>1, <2>2
<1>5. Clear \in [streak : 0 .. MaxFailures - 1, barred : Nat]
  BY SizeAssumption DEF Clear
<1>6. \A m \in [streak : 0 .. MaxFailures - 1, barred : Nat], t \in Nat :
        Streak(m, t) \in [streak : 0 .. MaxFailures - 1, barred : Nat]
  BY SizeAssumption DEF Streak
<1> QED BY <1>1, <1>2, <1>3, <1>4, <1>5, <1>6

\* A request that is at work has what it needs.
LEMMA Working ==
  ASSUME CallInv, NEW p \in Requests, req[p].at # "idle"
  PROVE  req[p] \in Calls /\ Busy(req[p]) /\ req[p].account \in Accounts
<1>1. req[p] \in Calls /\ (req[p] = Idle \/ Busy(req[p]))
  BY DEF CallInv, TypeOK
<1>2. Busy(req[p])
  BY <1>1, IdleCall
<1> QED BY <1>1, <1>2 DEF Busy

LEMMA BeginVerifyFacts ==
  ASSUME CallInv, NEW p \in Requests, NEW a \in Accounts,
         NEW c \in Codes, BeginVerify(p, a, c)
  PROVE  /\ req' \in [Requests -> Calls] /\ Others(p) /\ req[p] = Idle
         /\ req'[p].op = "verify" /\ req'[p].at = "verify" /\ req'[p].account = a
         /\ req'[p].link = None /\ req'[p].seen = None
<1> DEFINE r == [Idle EXCEPT !.op = "verify", !.at = "verify", !.account = a, !.code = c]
<1>1. /\ r \in Calls /\ r.op = "verify" /\ r.at = "verify" /\ r.account = a /\ r.code = c
      /\ r.link = None /\ r.seen = None
  BY IdleCall DEF Idle, Calls, Ops, Places
<1>2. req[p] = Idle /\ req' = [req EXCEPT ![p] = r]
  BY DEF BeginVerify, Begin
<1> HIDE DEF r
<1> QED BY <1>1, <1>2, Placed DEF CallInv, TypeOK

\* A completing request is a registration's or a replacement's, as its link says.
LEMMA BeginCompleteFacts ==
  ASSUME CallInv, NEW p \in Requests, NEW l \in Links,
         NEW c \in Codes, BeginComplete(p, l, c)
  PROVE  /\ req' \in [Requests -> Calls] /\ Others(p) /\ req[p] = Idle
         /\ link[l] \in Tokens /\ link[l].kind # "confirm"
         /\ req'[p].op = IF link[l].kind = "registration" THEN "register" ELSE "replace"
         /\ req'[p].at = IF link[l].kind = "registration" THEN "create" ELSE "reread"
         /\ req'[p].account = link[l].account /\ req'[p].link = l /\ req'[p].code = c
         /\ req'[p].seen = None
<1> DEFINE new == link[l].kind = "registration"
           r == [Idle EXCEPT !.op = IF new THEN "register" ELSE "replace",
                             !.at = IF new THEN "create" ELSE "reread",
                             !.account = link[l].account, !.link = l, !.code = c]
<1>1. link[l] \in Tokens /\ link[l].kind # "confirm" /\ link[l].account \in Accounts
  BY DEF BeginComplete, Valid, CallInv, TypeOK, Tokens
<1>2. /\ r \in Calls /\ r.account = link[l].account /\ r.link = l /\ r.code = c
      /\ r.op = IF new THEN "register" ELSE "replace"
      /\ r.at = IF new THEN "create" ELSE "reread"
      /\ r.seen = None
  BY IdleCall, <1>1 DEF Idle, Calls, Ops, Places
<1>3. req[p] = Idle /\ req' = [req EXCEPT ![p] = r]
  BY DEF BeginComplete, Begin
<1> HIDE DEF r
<1> QED BY <1>1, <1>2, <1>3, Placed DEF CallInv, TypeOK

LEMMA BeginConfirmFacts ==
  ASSUME CallInv, NEW p \in Requests, NEW l \in Links, BeginConfirm(p, l)
  PROVE  /\ req' \in [Requests -> Calls] /\ Others(p) /\ req[p] = Idle
         /\ link[l] \in Tokens /\ link[l].kind = "confirm"
         /\ req'[p].op = "confirm" /\ req'[p].at = "reread"
         /\ req'[p].account = link[l].account /\ req'[p].link = l /\ req'[p].seen = None
<1> DEFINE r == [Idle EXCEPT !.op = "confirm", !.at = "reread", !.account = link[l].account,
                             !.link = l]
<1>1. link[l] \in Tokens /\ link[l].kind = "confirm" /\ link[l].account \in Accounts
  BY DEF BeginConfirm, Valid, CallInv, TypeOK, Tokens
<1>2. /\ r \in Calls /\ r.account = link[l].account /\ r.link = l
      /\ r.op = "confirm" /\ r.at = "reread" /\ r.seen = None
  BY IdleCall, <1>1 DEF Idle, Calls, Ops, Places
<1>3. req[p] = Idle /\ req' = [req EXCEPT ![p] = r]
  BY DEF BeginConfirm, Begin
<1> HIDE DEF r
<1> QED BY <1>1, <1>2, <1>3, Placed DEF CallInv, TypeOK

\* Verify returns, or goes on with the factor as it is stored and the lock.
LEMMA ExamineFacts ==
  ASSUME CallInv, NEW p \in Requests, Examine(p)
  PROVE  /\ req' \in [Requests -> Calls] /\ Others(p)
         /\ req[p].at = "verify" /\ mutex = None
         /\ \/ req'[p] = Idle /\ mutex' = None
            \/ /\ req'[p].at = "put" /\ mutex' = p /\ Keeps(p)
               /\ req'[p].seen = factor[req[p].account] /\ req'[p].seen \in Factors
               /\ req'[p].time = now /\ req'[p].seen.locked <= now
               /\ req'[p].hit => /\ req'[p].code.secret = req'[p].seen.secret
                                 /\ req'[p].code.step > req'[p].seen.last
<1> DEFINE f == factor[req[p].account]
           hit == ValidStep(f.secret, req[p].code)
<1>1. req \in [Requests -> Calls] /\ now \in Nat /\ req[p].account \in Accounts
  BY Working DEF CallInv, TypeOK, Examine
<1>2. f \in Factors \cup {None} /\ hit \in BOOLEAN
  BY <1>1 DEF CallInv, TypeOK, ValidStep
<1>3. req[p].at = "verify" /\ mutex = None /\ Examined(p, f, req[p].code)
  BY DEF Examine
<1>4. CASE f # None /\ f.locked <= now /\ (hit => req[p].code.step > f.last)
  <2>1. req' = [req EXCEPT ![p].at = "put", ![p].seen = f, ![p].time = now, ![p].hit = hit]
    BY <1>3, <1>4 DEF Examined
  <2>a. f \in Factors /\ hit \in BOOLEAN
    BY <1>2, <1>4
  <2> HIDE DEF f, hit
  <2>2. /\ req' \in [Requests -> Calls] /\ Others(p) /\ Keeps(p)
        /\ req'[p].at = "put" /\ req'[p].seen = f /\ req'[p].time = now /\ req'[p].hit = hit
    <3> DEFINE r1 == [req EXCEPT ![p].at = "put", ![p].seen = f]
    <3>1. /\ r1 \in [Requests -> Calls] /\ r1[p].at = "put" /\ r1[p].seen = f
          /\ \A q \in Requests \ {p} : r1[q] = req[q]
          /\ r1[p].op = req[p].op /\ r1[p].account = req[p].account
          /\ r1[p].link = req[p].link /\ r1[p].code = req[p].code
      BY <1>1, <2>a, ZenonT(60) DEF Calls, Places
    <3>2. req' = [r1 EXCEPT ![p].time = now, ![p].hit = hit]
      BY <2>1
    <3> HIDE DEF r1
    <3> QED BY <3>1, <3>2, <1>1, <2>a, ZenonT(60) DEF Calls, Others, Keeps
  <2>3. mutex' = p
    BY <2>2 DEF Examine
  <2>4. hit => req[p].code.secret = f.secret
    BY DEF hit, ValidStep
  <2> QED BY <2>2, <2>3, <2>4, <1>3, <1>4, <1>2 DEF f, Keeps
<1>5. CASE ~(f # None /\ f.locked <= now /\ (hit => req[p].code.step > f.last))
  <2>1. Return(p)
    BY <1>3, <1>5 DEF Examined
  <2>2. req' \in [Requests -> Calls] /\ req'[p] = Idle /\ Others(p)
    BY <2>1, <1>1, Returned
  <2>3. mutex' = None
    BY <2>2, IdleCall DEF Examine
  <2> QED BY <2>2, <2>3, <1>3
<1> QED BY <1>4, <1>5

LEMMA RecordFacts ==
  ASSUME CallInv, NEW p \in Requests, Record(p)
  PROVE  /\ req' \in [Requests -> Calls] /\ Others(p) /\ req[p].at = "put"
         /\ \/ req'[p] = Idle
            \/ /\ req'[p].at = "issue" /\ req'[p].op \in {"rotate", "address"}
               /\ req'[p].account = req[p].account /\ req'[p].link = req[p].link
               /\ req'[p].seen = req[p].seen
<1>1. req \in [Requests -> Calls]
  BY DEF CallInv, TypeOK
<1>2. CASE Return(p)
  BY <1>1, <1>2, Returned DEF Record
<1>3. CASE \E op \in {"rotate", "address"} : req' = [req EXCEPT ![p].at = "issue", ![p].op = op]
  <2>1. PICK op \in {"rotate", "address"} : req' = [req EXCEPT ![p].at = "issue", ![p].op = op]
    BY <1>3
  <2> QED BY <1>1, <2>1 DEF Record, Calls, Places, Ops, Others
<1> QED BY <1>2, <1>3 DEF Record

LEMMA IssueFacts ==
  ASSUME CallInv, NEW p \in Requests, Issue(p)
  PROVE  /\ req' \in [Requests -> Calls] /\ Others(p) /\ req[p].at = "issue" /\ req'[p] = Idle
BY Returned DEF CallInv, TypeOK, Issue

LEMMA CreateAccountFacts ==
  ASSUME CallInv, NEW p \in Requests, CreateAccount(p)
  PROVE  /\ req' \in [Requests -> Calls] /\ Others(p) /\ req[p].at = "create"
         /\ \/ req'[p] = Idle /\ taken' = taken
            \/ /\ req'[p].at = "first" /\ Keeps(p) /\ req'[p].seen = req[p].seen
               /\ req[p].account \notin taken /\ taken' = taken \cup {req[p].account}
BY Returned, Gone DEF CallInv, TypeOK, CreateAccount, Places

LEMMA StoreFirstFacts ==
  ASSUME CallInv, NEW p \in Requests, StoreFirst(p)
  PROVE  /\ req' \in [Requests -> Calls] /\ Others(p) /\ req[p].at = "first"
         /\ req'[p].at = "mailbox" /\ Keeps(p)
         /\ req'[p].seen = NewFactor(req[p].link, FALSE, 0)
         /\ req[p].op = "register" /\ req[p].link \in Links
         /\ NewFactor(req[p].link, FALSE, 0) \in Factors
<1>1. req \in [Requests -> Calls] /\ req[p].at = "first"
  BY DEF CallInv, TypeOK, StoreFirst
<1>2. req[p].op = "register" /\ req[p].link \in Links
  BY <1>1, IdleCall DEF CallInv, Busy, Linked
<1> DEFINE f == NewFactor(req[p].link, FALSE, 0)
<1>3. f \in Factors
  <2>1. req[p].link \in Secrets /\ 0 \in Steps
    BY <1>2, SizeAssumption DEF Links, Secrets, Steps
  <2> QED BY <2>1, FactorTypes
<1>4. req' = [req EXCEPT ![p].at = "mailbox", ![p].seen = f]
  BY DEF StoreFirst
<1> HIDE DEF f
<1>5. /\ req' \in [Requests -> Calls] /\ Others(p) /\ Keeps(p)
      /\ req'[p].at = "mailbox" /\ req'[p].seen = f
  BY <1>1, <1>3, <1>4, ZenonT(60) DEF Calls, Places, Others, Keeps
<1> QED BY <1>1, <1>2, <1>3, <1>5 DEF f

LEMMA StoreMailboxFacts ==
  ASSUME CallInv, NEW p \in Requests, StoreMailbox(p)
  PROVE  /\ req' \in [Requests -> Calls] /\ Others(p) /\ req[p].at = "mailbox"
         /\ req'[p].at = "write" /\ Keeps(p) /\ req'[p].seen = req[p].seen
BY Gone DEF CallInv, TypeOK, StoreMailbox, Places

LEMMA RereadFacts ==
  ASSUME CallInv, NEW p \in Requests, Reread(p)
  PROVE  /\ req' \in [Requests -> Calls] /\ Others(p) /\ req[p].at = "reread"
         /\ \/ req'[p] = Idle
            \/ /\ req'[p].at = "write" /\ Keeps(p)
               /\ req'[p].seen = factor[req[p].account] /\ req'[p].seen \in Factors
<1> DEFINE f == factor[req[p].account]
<1>1. req \in [Requests -> Calls] /\ req[p].at = "reread" /\ req[p].account \in Accounts
  BY Working DEF CallInv, TypeOK, Reread
<1>2. f \in Factors \cup {None}
  BY <1>1 DEF CallInv, TypeOK
<1>3. CASE f = None
  BY <1>1, <1>3, Returned DEF Reread
<1>4. CASE f # None
  <2>1. req' = [req EXCEPT ![p].at = "write", ![p].seen = f]
    BY <1>4 DEF Reread
  <2>a. f \in Factors
    BY <1>2, <1>4
  <2> HIDE DEF f
  <2>2. /\ req' \in [Requests -> Calls] /\ Others(p) /\ Keeps(p)
        /\ req'[p].at = "write" /\ req'[p].seen = f
    BY <1>1, <2>a, <2>1, ZenonT(60) DEF Calls, Places, Others, Keeps
  <2> QED BY <1>1, <1>2, <1>4, <2>2 DEF f
<1> QED BY <1>3, <1>4

LEMMA WriteFactorFacts ==
  ASSUME CallInv, NEW p \in Requests, WriteFactor(p)
  PROVE  /\ req' \in [Requests -> Calls] /\ Others(p) /\ req[p].at = "write"
         /\ req'[p].at = "unlink" /\ Keeps(p) /\ req'[p].seen = req[p].seen
BY Gone DEF CallInv, TypeOK, WriteFactor, Places

LEMMA RefuseLateFacts ==
  ASSUME CallInv, NEW p \in Requests, RefuseLate(p)
  PROVE  /\ req' \in [Requests -> Calls] /\ Others(p) /\ req[p].at = "write" /\ req'[p] = Idle
BY Returned DEF CallInv, TypeOK, RefuseLate

LEMMA AfterUnlinkFacts ==
  ASSUME CallInv, NEW p \in Requests, AfterUnlink(p)
  PROVE  /\ req' \in [Requests -> Calls] /\ Others(p)
         /\ \/ req'[p] = Idle
            \/ /\ req[p].op = "register" /\ req'[p].at = "issue"
               /\ Keeps(p) /\ req'[p].seen = req[p].seen
BY Returned, Gone DEF CallInv, TypeOK, AfterUnlink, Places

LEMMA CleanupPlaces ==
  /\ DOMAIN Cleanup = {"first", "mailbox", "dropfactor"}
  /\ Cleanup["first"] = "dropaccount" /\ Cleanup["mailbox"] = "dropfactor"
  /\ Cleanup["dropfactor"] = "dropaccount"
  /\ \A x \in DOMAIN Cleanup : Cleanup[x] \in Places
BY DEF Cleanup, Places

\* Where a request is after a call of it failed.
LEMMA FailFacts ==
  ASSUME CallInv, NEW p \in Requests, Fail(p)
  PROVE  /\ req' \in [Requests -> Calls] /\ Others(p) /\ req[p].at # "idle"
         /\ \/ req'[p] = Idle /\ req[p].at # "first"
            \/ /\ Keeps(p) /\ req'[p].seen = req[p].seen
               /\ \/ req[p].at = "unlink" /\ req[p].op = "register" /\ req'[p].at = "issue"
                  \/ req[p].at \in {"first", "dropfactor"} /\ req'[p].at = "dropaccount"
                  \/ req[p].at = "mailbox" /\ req'[p].at = "dropfactor"
<1> DEFINE at == req[p].at
<1>1. req \in [Requests -> Calls] /\ at # "idle"
  BY DEF CallInv, TypeOK, Fail
<1>2. CASE at = "unlink"
  BY <1>1, <1>2, AfterUnlinkFacts DEF Fail
<1>3. CASE at # "unlink" /\ at \in DOMAIN Cleanup
  <2>1. Goto(p, Cleanup[at]) /\ Cleanup[at] \in Places
    BY <1>3, CleanupPlaces DEF Fail
  <2>2. at \in {"first", "mailbox", "dropfactor"}
    BY <1>3, CleanupPlaces
  <2>3. /\ req' \in [Requests -> Calls] /\ Others(p)
        /\ Keeps(p) /\ req'[p].at = Cleanup[at] /\ req'[p].seen = req[p].seen
    BY <1>1, <2>1, Gone
  <2> QED BY <1>1, <2>2, <2>3, CleanupPlaces
<1>4. CASE at # "unlink" /\ at \notin DOMAIN Cleanup
  <2>1. Return(p) /\ at # "first"
    BY <1>4, CleanupPlaces DEF Fail
  <2> QED BY <1>1, <2>1, Returned
<1> QED BY <1>2, <1>3, <1>4

LEMMA DeleteFactorFacts ==
  ASSUME CallInv, NEW p \in Requests, DeleteFactor(p)
  PROVE  /\ req' \in [Requests -> Calls] /\ Others(p) /\ Keeps(p)
         /\ req[p].at = "dropfactor" /\ req'[p].at = "dropaccount"
         /\ req'[p].seen = req[p].seen
         /\ req[p].op = "register" /\ req[p].account \in Accounts
BY Gone, Working DEF CallInv, TypeOK, DeleteFactor, Places, Busy

\* DeleteAccount and Crash end requests and leave the others.
LEMMA DeleteAccountFacts ==
  ASSUME CallInv, NEW p \in Requests, DeleteAccount(p)
  PROVE  /\ req' \in [Requests -> Calls]
         /\ req[p].at = "dropaccount" /\ req[p].op = "register" /\ req[p].account \in Accounts
         /\ req'[p] = Idle
         /\ \A q \in Requests : req'[q] = Idle \/ req'[q] = req[q]
         /\ \A q \in Requests : req[q].account = req[p].account /\ req[q].op # "register" => req'[q] = Idle
         /\ \A q \in Requests \ {p} :
              req[q].account # req[p].account \/ req[q].op = "register" => req'[q] = req[q]
<1>1. /\ req \in [Requests -> Calls] /\ req[p].at = "dropaccount" /\ req[p].account \in Accounts
      /\ req[p].op = "register"
  BY Working DEF CallInv, TypeOK, DeleteAccount, Busy
<1>2. req' = [q \in Requests |->
                IF q = p \/ (req[q].account = req[p].account /\ req[q].op # "register")
                THEN Idle ELSE req[q]]
  BY DEF DeleteAccount
<1> QED BY <1>1, <1>2, IdleCall

LEMMA CrashFacts ==
  ASSUME Crash
  PROVE  req' \in [Requests -> Calls] /\ \A q \in Requests : req'[q] = Idle
BY IdleCall DEF Crash

\* The codes a user types, and the link a request stores.
LEMMA CodeTypes ==
  ASSUME CallInv, NEW s \in Secrets \cup {None}
  PROVE  CodesOf(s) \subseteq Codes
BY IdleCall, SizeAssumption DEF CodesOf, Codes, Steps, CallInv

LEMMA PutLinkFacts ==
  ASSUME CallInv, NEW k \in Kinds, NEW a \in Accounts, PutLink(k, a)
  PROVE  /\ issued + 1 \in Links /\ issued' = issued + 1 /\ issued' \in 0 .. MaxLinks
         /\ link' \in [Links -> Tokens \cup {None}]
         /\ link'[issued + 1] \in Tokens /\ link'[issued + 1].kind = k
         /\ \A l \in Links : l # issued + 1 => link'[l] = link[l]
<1>1. issued \in 0 .. MaxLinks /\ issued < MaxLinks /\ issued' = issued + 1 /\ MaxLinks \in Nat
  BY SizeAssumption DEF PutLink, CallInv, TypeOK
<1>2. issued + 1 \in Links /\ issued' \in 0 .. MaxLinks
  BY <1>1 DEF Links
<1> DEFINE t == [kind |-> k, account |-> a, expires |-> now + TTL[k]]
<1>3. t \in Tokens /\ t.kind = k
  <2>1. TTL[k] \in Nat /\ now \in Nat
    BY SizeAssumption DEF TTL, Kinds, CallInv
  <2> QED BY <2>1 DEF Tokens
<1>4. link' = [link EXCEPT ![issued + 1] = t]
  BY DEF PutLink
<1> HIDE DEF t
<1>5. /\ link' \in [Links -> Tokens \cup {None}] /\ link'[issued + 1] = t
      /\ \A l \in Links : l # issued + 1 => link'[l] = link[l]
  BY <1>2, <1>3, <1>4 DEF CallInv, TypeOK
<1> QED BY <1>1, <1>2, <1>3, <1>5

-----------------------------------------------------------------------------
(* Types, and what a request has at each of its places.                    *)

LEMMA InitCalls == Init => CallInv
<1> SUFFICES ASSUME Init PROVE CallInv
  OBVIOUS
<1>1. factor \in [Accounts -> Factors \cup {None}] /\ confirmed \subseteq Accounts
  <2>1. PICK v \in [Accounts -> BOOLEAN] :
          /\ factor = [a \in Accounts |-> IF a \in Enrolled THEN NewFactor(0, v[a], 0) ELSE None]
          /\ confirmed = {a \in Enrolled : v[a]}
    BY DEF Init
  <2>2. 0 \in Secrets /\ 0 \in Steps
    BY SizeAssumption DEF Secrets, Steps
  <2>3. \A a \in Accounts : NewFactor(0, v[a], 0) \in Factors
    BY <2>2, FactorTypes
  <2> QED BY <2>1, <2>3, SizeAssumption
<1>2. ledger \in [Accounts -> [streak : 0 .. MaxFailures - 1, barred : Nat]]
  BY FactorTypes DEF Init
<1>3. req \in [Requests -> Calls] /\ \A p \in Requests : req[p] = Idle
  BY IdleCall DEF Init
<1>4. TypeOK
  BY <1>1, <1>2, <1>3, SizeAssumption DEF Init, TypeOK, Steps, Links
<1> QED BY <1>3, <1>4, SizeAssumption DEF Init, CallInv

\* One request moves on with what its new place needs.
LEMMA CallsKept ==
  ASSUME CallInv, NEW p \in Requests, Others(p), req'[p] = Idle \/ Busy(req'[p])
  PROVE  \A q \in Requests : req'[q] = Idle \/ Busy(req'[q])
BY DEF CallInv, Others

LEMMA BeginTypes ==
  ASSUME CallInv, NEW p \in Requests, NEW r, Begin(p, r), req' \in [Requests -> Calls]
  PROVE  TypeOK' /\ now' = now
<1>1. begun' \in 0 .. MaxRequests
  BY SizeAssumption DEF Begin, CallInv, TypeOK
<1> QED BY <1>1 DEF CallInv, TypeOK, Begin, storeVars, historyVars

LEMMA BeginVerifyCalls ==
  ASSUME CallInv, NEW p \in Requests, NEW a \in Accounts, NEW c \in Codes, BeginVerify(p, a, c)
  PROVE  CallInv'
<1>1. Busy(req'[p])
  BY BeginVerifyFacts DEF Busy, Linked
<1>2. TypeOK' /\ now' = now
  BY BeginVerifyFacts, BeginTypes DEF BeginVerify
<1> QED BY <1>1, <1>2, BeginVerifyFacts, CallsKept DEF CallInv

LEMMA BeginCompleteCalls ==
  ASSUME CallInv, NEW p \in Requests, NEW l \in Links, NEW c \in Codes, BeginComplete(p, l, c)
  PROVE  CallInv'
<1>1. Busy(req'[p])
  <2>1. c.secret = l /\ c.step > 0
    BY DEF BeginComplete, ValidStep, CallInv
  <2>2. link[l].account \in Accounts
    BY BeginCompleteFacts DEF Tokens
  <2> QED BY <2>1, <2>2, BeginCompleteFacts DEF Busy, Linked
<1>2. TypeOK' /\ now' = now
  BY BeginCompleteFacts, BeginTypes DEF BeginComplete
<1> QED BY <1>1, <1>2, BeginCompleteFacts, CallsKept DEF CallInv

LEMMA BeginConfirmCalls ==
  ASSUME CallInv, NEW p \in Requests, NEW l \in Links, BeginConfirm(p, l)
  PROVE  CallInv'
<1>1. Busy(req'[p])
  BY BeginConfirmFacts DEF Busy, Linked, Tokens
<1>2. TypeOK' /\ now' = now
  BY BeginConfirmFacts, BeginTypes DEF BeginConfirm
<1> QED BY <1>1, <1>2, BeginConfirmFacts, CallsKept DEF CallInv

LEMMA ExamineCalls ==
  ASSUME CallInv, NEW p \in Requests, Examine(p)
  PROVE  CallInv'
<1>1. req'[p] = Idle \/ Busy(req'[p])
  BY ExamineFacts, Working, ZenonT(60) DEF Busy, Linked, Keeps
<1>2. TypeOK'
  BY ExamineFacts DEF CallInv, TypeOK, Examine, storeVars, historyVars
<1>3. now' = now
  BY DEF Examine
<1> QED BY <1>1, <1>2, <1>3, ExamineFacts, CallsKept DEF CallInv

LEMMA RecordCalls ==
  ASSUME CallInv, NEW p \in Requests, Record(p)
  PROVE  CallInv'
<1>1. req'[p] = Idle \/ Busy(req'[p])
  BY RecordFacts, Working DEF Busy, Linked
<1> DEFINE r == req[p]
           a == req[p].account
<1>2. a \in Accounts /\ r \in Calls /\ r.seen \in Factors /\ r.time \in Nat /\ r.code \in Codes
  <2>1. r.at = "put" /\ r \in Calls
    BY RecordFacts DEF CallInv, TypeOK
  <2> QED BY <2>1, Working DEF Busy, Calls
<1>3. factor' \in [Accounts -> Factors \cup {None}]
  <2> DEFINE g == IF r.hit THEN Hit(r.seen, r.code.step) ELSE Miss(r.seen, r.time)
  <2>1. g \in Factors
    BY <1>2, FactorTypes DEF Codes
  <2>2. factor' = [factor EXCEPT ![a] = g]
    BY DEF Record
  <2> HIDE DEF g
  <2> QED BY <1>2, <2>1, <2>2 DEF CallInv, TypeOK
<1>4. ledger' \in [Accounts -> [streak : 0 .. MaxFailures - 1, barred : Nat]]
  <2> DEFINE S == [streak : 0 .. MaxFailures - 1, barred : Nat]
             m == IF r.hit THEN Clear ELSE Streak(ledger[a], r.time)
  <2>1. ledger \in [Accounts -> S]
    BY DEF CallInv, TypeOK
  <2>2. m \in S
    BY <1>2, <2>1, FactorTypes
  <2>3. ledger' = [ledger EXCEPT ![a] = m]
    BY DEF Record
  <2> HIDE DEF m, S
  <2>4. ledger' \in [Accounts -> S]
    BY <1>2, <2>1, <2>2, <2>3
  <2> QED BY <2>4 DEF S
<1>5. accepted' \subseteq Accounts \X Codes
  BY <1>2 DEF CallInv, TypeOK, Record
<1>6. TypeOK'
  BY <1>3, <1>4, <1>5, RecordFacts DEF CallInv, TypeOK, Record
<1>7. now' = now
  BY DEF Record
<1> QED BY <1>1, <1>6, <1>7, RecordFacts, CallsKept DEF CallInv

LEMMA IssueCalls ==
  ASSUME CallInv, NEW p \in Requests, Issue(p)
  PROVE  CallInv'
<1>1. link' \in [Links -> Tokens \cup {None}] /\ issued' \in 0 .. MaxLinks
  <2>1. CASE issued < MaxLinks
    <3>1. PICK k \in Kinds : PutLink(k, req[p].account)
      BY <2>1 DEF Issue, Kinds
    <3> QED BY <3>1, PutLinkFacts, Working, IssueFacts
  <2>2. CASE ~(issued < MaxLinks)
    BY <2>2 DEF Issue, CallInv, TypeOK
  <2> QED BY <2>1, <2>2
<1>2. TypeOK'
  BY <1>1, IssueFacts DEF CallInv, TypeOK, Issue, historyVars
<1>3. now' = now
  BY DEF Issue
<1> QED BY <1>2, <1>3, IssueFacts, CallsKept DEF CallInv

\* The links an account can ask for without a request of its own.
LEMMA LinkCalls ==
  ASSUME CallInv, NEW a \in Accounts, BeginRegistration(a) \/ RequestRecovery(a)
  PROVE  CallInv'
<1>1. link' \in [Links -> Tokens \cup {None}] /\ issued' \in 0 .. MaxLinks
  <2>1. PICK k \in Kinds : PutLink(k, a)
    BY DEF BeginRegistration, RequestRecovery, Kinds
  <2> QED BY <2>1, PutLinkFacts
<1>2. UNCHANGED <<now, taken, factor, mutex, req, begun, faults, historyVars>>
  BY DEF BeginRegistration, RequestRecovery
<1> QED BY <1>1, <1>2 DEF CallInv, TypeOK, historyVars

LEMMA CreateAccountCalls ==
  ASSUME CallInv, NEW p \in Requests, CreateAccount(p)
  PROVE  CallInv'
<1>1. req'[p] = Idle \/ Busy(req'[p])
  BY CreateAccountFacts, Working DEF Busy, Linked, Keeps
<1>2. TypeOK'
  BY CreateAccountFacts, Working DEF CallInv, TypeOK, CreateAccount, historyVars
<1>3. now' = now
  BY DEF CreateAccount
<1> QED BY <1>1, <1>2, <1>3, CreateAccountFacts, CallsKept DEF CallInv

LEMMA StoreFirstCalls ==
  ASSUME CallInv, NEW p \in Requests, StoreFirst(p)
  PROVE  CallInv'
<1>1. Busy(req'[p])
  BY StoreFirstFacts, Working DEF Busy, Linked, Keeps
<1>2. factor' \in [Accounts -> Factors \cup {None}]
  BY StoreFirstFacts, Working DEF CallInv, TypeOK, StoreFirst
<1>3. TypeOK'
  BY <1>2, StoreFirstFacts DEF CallInv, TypeOK, StoreFirst, historyVars
<1>4. now' = now
  BY DEF StoreFirst
<1> QED BY <1>1, <1>3, <1>4, StoreFirstFacts, CallsKept DEF CallInv

LEMMA StoreMailboxCalls ==
  ASSUME CallInv, NEW p \in Requests, StoreMailbox(p)
  PROVE  CallInv'
<1>1. Busy(req'[p])
  BY StoreMailboxFacts, Working, ZenonT(60) DEF Busy, Linked, Keeps
<1>2. TypeOK'
  BY StoreMailboxFacts DEF CallInv, TypeOK, StoreMailbox, storeVars, historyVars
<1>3. now' = now
  BY DEF StoreMailbox
<1> QED BY <1>1, <1>2, <1>3, StoreMailboxFacts, CallsKept DEF CallInv

LEMMA RereadCalls ==
  ASSUME CallInv, NEW p \in Requests, Reread(p)
  PROVE  CallInv'
<1>1. req'[p] = Idle \/ Busy(req'[p])
  BY RereadFacts, Working, ZenonT(60) DEF Busy, Linked, Keeps
<1>2. TypeOK'
  BY RereadFacts DEF CallInv, TypeOK, Reread, storeVars, historyVars
<1>3. now' = now
  BY DEF Reread
<1> QED BY <1>1, <1>2, <1>3, RereadFacts, CallsKept DEF CallInv

\* What a lock-free write stores.
LEMMA Written ==
  ASSUME CallInv, NEW p \in Requests, WriteFactor(p)
  PROVE  /\ req[p].account \in Accounts /\ req[p].link \in Links
         /\ req[p].seen \in Factors /\ Newest(req[p]) \in Factors
         /\ req[p].code \in Codes
         /\ factor' = [factor EXCEPT ![req[p].account] = Newest(req[p])]
<1>1. req[p].at = "write"
  BY DEF WriteFactor
<1>2. req[p] \in Calls /\ Busy(req[p]) /\ req[p].account \in Accounts
  BY <1>1, Working
<1>3. req[p].link \in Links /\ req[p].seen \in Factors
  BY <1>1, <1>2 DEF Busy, Linked
<1>4. Newest(req[p]) \in Factors
  BY <1>2, <1>3, FactorTypes
<1>5. req[p].code \in Codes
  BY <1>2 DEF Calls
<1> QED BY <1>2, <1>3, <1>4, <1>5 DEF WriteFactor

LEMMA WriteFactorCalls ==
  ASSUME CallInv, NEW p \in Requests, WriteFactor(p)
  PROVE  CallInv'
<1>1. Busy(req'[p])
  BY WriteFactorFacts, Working, ZenonT(60) DEF Busy, Linked, Keeps
<1>2. factor' \in [Accounts -> Factors \cup {None}]
  BY Written DEF CallInv, TypeOK
<1>3. ledger' \in [Accounts -> [streak : 0 .. MaxFailures - 1, barred : Nat]]
  BY FactorTypes, Written, ZenonT(60) DEF CallInv, TypeOK, WriteFactor
<1>4. accepted' \subseteq Accounts \X Codes /\ confirmed' \subseteq Accounts /\ raced' \subseteq Accounts
  <2>1. /\ accepted' = accepted \/ accepted' = accepted \cup {<<req[p].account, req[p].code>>}
        /\ confirmed' = confirmed \/ confirmed' = confirmed \cup {req[p].account}
        /\ raced' = raced \/ raced' = raced \cup {req[p].account}
    BY DEF WriteFactor
  <2>2. accepted \subseteq Accounts \X Codes /\ confirmed \subseteq Accounts /\ raced \subseteq Accounts
    BY DEF CallInv, TypeOK
  <2>3. <<req[p].account, req[p].code>> \in Accounts \X Codes
    BY Written
  <2> QED BY <2>1, <2>2, <2>3, Written
<1>5. uses' \in [Links -> Nat]
  <2>1. uses' = [uses EXCEPT ![req[p].link] = @ + 1]
    BY DEF WriteFactor
  <2> QED BY <2>1, Written DEF CallInv, TypeOK
<1>6. TypeOK'
  BY <1>2, <1>3, <1>4, <1>5, WriteFactorFacts DEF CallInv, TypeOK, WriteFactor
<1>7. now' = now
  BY DEF WriteFactor
<1> QED BY <1>1, <1>6, <1>7, WriteFactorFacts, CallsKept DEF CallInv

LEMMA RefuseLateCalls ==
  ASSUME CallInv, NEW p \in Requests, RefuseLate(p)
  PROVE  CallInv'
<1>1. TypeOK'
  BY RefuseLateFacts DEF CallInv, TypeOK, RefuseLate, storeVars, historyVars
<1>2. now' = now
  BY DEF RefuseLate
<1> QED BY <1>1, <1>2, RefuseLateFacts, CallsKept DEF CallInv

LEMMA UnlinkCalls ==
  ASSUME CallInv, NEW p \in Requests, Unlink(p)
  PROVE  CallInv'
<1>1. req[p].at = "unlink" /\ AfterUnlink(p)
  BY DEF Unlink
<1>2. Busy(req[p])
  BY <1>1, Working
<1>3. req'[p] = Idle \/ Busy(req'[p])
  BY <1>1, <1>2, AfterUnlinkFacts DEF Busy, Linked, Keeps
<1>4. link' \in [Links -> Tokens \cup {None}]
  BY DEF CallInv, TypeOK, Unlink
<1>5. TypeOK'
  BY <1>1, <1>4, AfterUnlinkFacts DEF CallInv, TypeOK, Unlink, historyVars
<1>6. now' = now
  BY DEF Unlink
<1> QED BY <1>1, <1>3, <1>5, <1>6, AfterUnlinkFacts, CallsKept DEF CallInv

LEMMA FailCalls ==
  ASSUME CallInv, NEW p \in Requests, Fail(p)
  PROVE  CallInv'
<1>1. Busy(req[p]) /\ req[p].account \in Accounts
  BY FailFacts, Working
<1>2. req'[p] = Idle \/ Busy(req'[p])
  BY <1>1, FailFacts DEF Busy, Linked, Keeps
<1>3. interrupted' \subseteq Accounts
  BY <1>1 DEF CallInv, TypeOK, Fail
<1>4. /\ faults' \in 0 .. MaxFaults
      /\ mutex' = mutex \/ mutex' = None
      /\ UNCHANGED <<now, storeVars, begun, raced, accepted, ledger, confirmed, uses>>
  BY SizeAssumption DEF Fail, CallInv, TypeOK
<1>5. TypeOK'
  BY <1>3, <1>4, FailFacts DEF CallInv, TypeOK, storeVars
<1> QED BY <1>2, <1>4, <1>5, FailFacts, CallsKept DEF CallInv

\* What is known of an account's codes once its factor is gone.
LEMMA Forgotten ==
  ASSUME CallInv, NEW a \in Accounts, Forget(a), factor' = [factor EXCEPT ![a] = None]
  PROVE  /\ factor' \in [Accounts -> Factors \cup {None}] /\ factor'[a] = None
         /\ ledger' \in [Accounts -> [streak : 0 .. MaxFailures - 1, barred : Nat]]
         /\ accepted' \subseteq accepted /\ confirmed' \subseteq confirmed
         /\ \A x \in Accounts : x # a => factor'[x] = factor[x] /\ ledger'[x] = ledger[x]
         /\ \A x \in Accounts : x # a => (x \in confirmed' <=> x \in confirmed)
         /\ \A y : y[1] # a => (y \in accepted' <=> y \in accepted)
         /\ Blank(a)'
<1>1. /\ ledger' = [ledger EXCEPT ![a] = Clear]
      /\ accepted' = {x \in accepted : x[1] # a} /\ confirmed' = confirmed \ {a}
  BY DEF Forget
<1>2. /\ factor' \in [Accounts -> Factors \cup {None}] /\ factor'[a] = None
      /\ \A x \in Accounts : x # a => factor'[x] = factor[x]
  BY DEF CallInv, TypeOK
<1>3. /\ ledger' \in [Accounts -> [streak : 0 .. MaxFailures - 1, barred : Nat]]
      /\ ledger'[a] = Clear
      /\ \A x \in Accounts : x # a => ledger'[x] = ledger[x]
  BY <1>1, FactorTypes DEF CallInv, TypeOK
<1>4. Blank(a)'
  BY <1>1, <1>3 DEF Blank
<1> QED BY <1>1, <1>2, <1>3, <1>4

LEMMA DeleteFactorCalls ==
  ASSUME CallInv, NEW p \in Requests, DeleteFactor(p)
  PROVE  CallInv'
<1>1. Busy(req'[p])
  BY DeleteFactorFacts DEF Busy, Linked, Keeps
<1>2. /\ req[p].account \in Accounts /\ Forget(req[p].account)
      /\ factor' = [factor EXCEPT ![req[p].account] = None]
  BY DeleteFactorFacts DEF DeleteFactor
<1>3. raced' \subseteq Accounts
  BY <1>2 DEF DeleteFactor, CallInv, TypeOK
<1>4. UNCHANGED <<now, taken, link, issued, mutex, begun, faults, uses, interrupted>>
  BY DEF DeleteFactor
<1>5. TypeOK'
  BY <1>2, <1>3, <1>4, Forgotten, DeleteFactorFacts DEF CallInv, TypeOK
<1> QED BY <1>1, <1>4, <1>5, DeleteFactorFacts, CallsKept DEF CallInv

LEMMA DeleteAccountCalls ==
  ASSUME CallInv, NEW p \in Requests, DeleteAccount(p)
  PROVE  CallInv'
<1>1. link' \in [Links -> Tokens \cup {None}]
  BY DEF CallInv, TypeOK, DeleteAccount
<1>2. /\ req[p].account \in Accounts /\ Forget(req[p].account)
      /\ factor' = [factor EXCEPT ![req[p].account] = None]
  BY DeleteAccountFacts DEF DeleteAccount
<1>3. /\ taken' \subseteq taken
      /\ mutex' = mutex \/ mutex' = None
      /\ UNCHANGED <<now, issued, begun, faults, raced, uses, interrupted>>
  BY DEF DeleteAccount
<1>4. TypeOK'
  BY <1>1, <1>2, <1>3, Forgotten, DeleteAccountFacts DEF CallInv, TypeOK
<1>5. \A q \in Requests : req'[q] = Idle \/ Busy(req'[q])
  BY DeleteAccountFacts DEF CallInv
<1> QED BY <1>3, <1>4, <1>5 DEF CallInv

LEMMA CrashCalls ==
  ASSUME CallInv, Crash
  PROVE  CallInv'
<1>1. interrupted' \subseteq Accounts
  BY DEF Crash, CallInv, TypeOK, Calls
<1>2. TypeOK'
  BY <1>1, CrashFacts, SizeAssumption DEF CallInv, TypeOK, Crash, storeVars
<1>3. now' = now
  BY DEF Crash
<1> QED BY <1>2, <1>3, CrashFacts DEF CallInv

LEMMA TickCalls ==
  ASSUME CallInv, Tick
  PROVE  CallInv'
<1>1. now' \in 2 .. MaxTime
  BY SizeAssumption DEF CallInv, Tick
<1>2. now' \in Steps
  BY <1>1, SizeAssumption DEF Steps
<1> QED BY <1>1, <1>2 DEF CallInv, TypeOK, Tick, storeVars, historyVars

\* A working request goes on, or fails.
Works(p) ==
  \/ Examine(p) \/ Record(p) \/ Issue(p) \/ CreateAccount(p) \/ StoreFirst(p) \/ StoreMailbox(p)
  \/ Reread(p) \/ WriteFactor(p) \/ RefuseLate(p) \/ Unlink(p)
  \/ DeleteFactor(p) \/ DeleteAccount(p) \/ Fail(p)

LEMMA NextKinds ==
  ASSUME CallInv, [Next]_vars
  PROVE  \/ Tick \/ Crash \/ UNCHANGED vars
         \/ \E a \in Accounts : BeginRegistration(a) \/ RequestRecovery(a)
         \/ \E p \in Requests : Works(p)
         \/ \E p \in Requests, a \in Accounts, c \in Codes : BeginVerify(p, a, c)
         \/ \E p \in Requests, l \in Links : BeginConfirm(p, l)
         \/ \E p \in Requests, l \in Links, c \in Codes : BeginComplete(p, l, c)
<1>1. ASSUME NEW p \in Requests, NEW a \in taken,
             NEW c \in CodesOf(IF factor[a] = None THEN None ELSE factor[a].secret),
             BeginVerify(p, a, c)
      PROVE  a \in Accounts /\ c \in Codes
  <2>1. a \in Accounts /\ factor[a] \in Factors \cup {None}
    BY DEF CallInv, TypeOK
  <2>2. (IF factor[a] = None THEN None ELSE factor[a].secret) \in Secrets \cup {None}
    BY <2>1 DEF Factors
  <2> QED BY <2>1, <2>2, CodeTypes
<1>2. ASSUME NEW l \in Links PROVE CodesOf(l) \subseteq Codes
  <2>1. l \in Secrets \cup {None}
    BY DEF Links, Secrets
  <2> QED BY <2>1, CodeTypes
<1>3. CASE \E p \in Requests : Continue(p) \/ Fail(p)
  BY <1>3 DEF Continue, Works
<1>4. CASE \E p \in Requests : \E a \in taken :
             \E c \in CodesOf(IF factor[a] = None THEN None ELSE factor[a].secret) : BeginVerify(p, a, c)
  BY <1>4, <1>1
<1>5. CASE \E p \in Requests, l \in Links : BeginConfirm(p, l)
  BY <1>5
<1>6. CASE \E p \in Requests, l \in Links : \E c \in CodesOf(l) : BeginComplete(p, l, c)
  BY <1>6, <1>2
<1>7. CASE Tick \/ Crash \/ Rest \/ UNCHANGED vars
  BY <1>7 DEF Rest
<1>8. CASE \E a \in Accounts : BeginRegistration(a) \/ RequestRecovery(a)
  BY <1>8
<1> QED BY <1>3, <1>4, <1>5, <1>6, <1>7, <1>8 DEF Next

LEMMA CallsNext ==
  ASSUME CallInv, [Next]_vars
  PROVE  CallInv'
<1>1. CASE UNCHANGED vars
  BY <1>1 DEF CallInv, TypeOK, vars, storeVars, historyVars
<1>2. ASSUME NEW p \in Requests, Works(p)
      PROVE  CallInv'
  BY <1>2, ExamineCalls, RecordCalls, IssueCalls, CreateAccountCalls, StoreFirstCalls,
     StoreMailboxCalls, RereadCalls, WriteFactorCalls, RefuseLateCalls, UnlinkCalls, FailCalls,
     DeleteFactorCalls, DeleteAccountCalls DEF Works
<1> QED BY <1>1, <1>2, NextKinds, TickCalls, CrashCalls, LinkCalls, BeginVerifyCalls,
           BeginConfirmCalls, BeginCompleteCalls

\* Every variable keeps its type, for every number of accounts, requests and links.
THEOREM TypeCorrect == Spec => []TypeOK
<1>1. CallInv /\ [Next]_vars => CallInv'
  BY CallsNext
<1>2. CallInv => TypeOK
  BY DEF CallInv
<1> QED BY <1>1, <1>2, InitCalls, PTL DEF Spec

-----------------------------------------------------------------------------
(* The lock of Verify.                                                     *)

\* A request that neither enters Verify's write nor leaves it.
LEMMA LockApart ==
  ASSUME CallInv, LockHeld, NEW p \in Requests, Others(p),
         req[p].at # "put", req'[p].at # "put", mutex' = mutex
  PROVE  LockHeld'
<1>1. mutex \in Requests \cup {None} /\ None \notin Requests
  BY SizeAssumption DEF CallInv, TypeOK
<1> QED BY <1>1 DEF LockHeld, Others

LEMMA LockNext ==
  ASSUME CallInv, LockHeld, [Next]_vars
  PROVE  LockHeld'
<1>0. mutex \in Requests \cup {None} /\ None \notin Requests
  BY SizeAssumption DEF CallInv, TypeOK
<1>1. CASE Tick \/ UNCHANGED vars
  BY <1>1 DEF LockHeld, Tick, vars, storeVars, historyVars
<1>2. CASE Crash
  BY <1>2, CrashFacts, IdleCall DEF LockHeld, Crash
<1>3. ASSUME NEW a \in Accounts, BeginRegistration(a) \/ RequestRecovery(a)
      PROVE  LockHeld'
  BY <1>3 DEF LockHeld, BeginRegistration, RequestRecovery
<1>4. ASSUME NEW p \in Requests, NEW a \in Accounts, NEW c \in Codes, BeginVerify(p, a, c)
      PROVE  LockHeld'
  <2>1. mutex' = mutex
    BY <1>4 DEF BeginVerify, Begin
  <2> QED BY <1>4, <2>1, BeginVerifyFacts, LockApart, IdleCall
<1>5. ASSUME NEW p \in Requests, NEW l \in Links, BeginConfirm(p, l)
      PROVE  LockHeld'
  <2>1. mutex' = mutex
    BY <1>5 DEF BeginConfirm, Begin
  <2> QED BY <1>5, <2>1, BeginConfirmFacts, LockApart, IdleCall
<1>6. ASSUME NEW p \in Requests, NEW l \in Links, NEW c \in Codes, BeginComplete(p, l, c)
      PROVE  LockHeld'
  <2>1. mutex' = mutex
    BY <1>6 DEF BeginComplete, Begin
  <2>2. Others(p) /\ req[p].at # "put" /\ req'[p].at # "put"
    BY <1>6, BeginCompleteFacts, IdleCall
  <2> QED BY <2>1, <2>2, LockApart
<1>7. ASSUME NEW p \in Requests, Examine(p)
      PROVE  LockHeld'
  <2>1. CASE req'[p] = Idle /\ mutex' = None
    BY <1>7, <2>1, ExamineFacts, LockApart, IdleCall
  <2>2. CASE req'[p].at = "put" /\ mutex' = p
    BY <1>7, <2>2, ExamineFacts, <1>0 DEF LockHeld, Others
  <2> QED BY <1>7, <2>1, <2>2, ExamineFacts
<1>8. ASSUME NEW p \in Requests, Record(p)
      PROVE  LockHeld'
  <2>1. mutex' = None /\ req[p].at = "put" /\ req'[p].at # "put" /\ Others(p)
    BY <1>8, RecordFacts, IdleCall DEF Record
  <2> QED BY <2>1 DEF LockHeld, Others
<1>9. ASSUME NEW p \in Requests, Fail(p)
      PROVE  LockHeld'
  <2>1. Others(p) /\ req'[p].at # "put" /\ mutex' = IF mutex = p THEN None ELSE mutex
    BY <1>9, FailFacts, IdleCall DEF Fail
  <2> QED BY <2>1, <1>0 DEF LockHeld, Others
<1>10. ASSUME NEW p \in Requests, DeleteAccount(p)
       PROVE  LockHeld'
  <2>1. \A q \in Requests : req'[q] = Idle \/ req'[q] = req[q]
    BY <1>10, DeleteAccountFacts
  <2>2. mutex' = IF mutex # None /\ req'[mutex] = Idle THEN None ELSE mutex
    BY <1>10 DEF DeleteAccount
  <2> QED BY <2>1, <2>2, <1>0, IdleCall DEF LockHeld
<1>11. ASSUME NEW p \in Requests,
              \/ Issue(p) \/ CreateAccount(p) \/ StoreFirst(p) \/ StoreMailbox(p)
              \/ Reread(p) \/ WriteFactor(p) \/ RefuseLate(p) \/ Unlink(p) \/ DeleteFactor(p)
       PROVE  LockHeld'
  <2>1. mutex' = mutex
    BY <1>11 DEF Issue, CreateAccount, StoreFirst, StoreMailbox, Reread, WriteFactor, RefuseLate,
                 Unlink, DeleteFactor
  <2>2. Others(p) /\ req[p].at # "put" /\ req'[p].at # "put"
    <3>1. CASE Issue(p) \/ CreateAccount(p) \/ StoreFirst(p) \/ StoreMailbox(p)
      BY <3>1, IssueFacts, CreateAccountFacts, StoreFirstFacts, StoreMailboxFacts, IdleCall
    <3>2. CASE Reread(p) \/ WriteFactor(p) \/ RefuseLate(p)
      BY <3>2, RereadFacts, WriteFactorFacts, RefuseLateFacts, IdleCall
    <3>3. CASE Unlink(p) \/ DeleteFactor(p)
      BY <3>3, AfterUnlinkFacts, DeleteFactorFacts, IdleCall DEF Unlink
    <3> QED BY <1>11, <3>1, <3>2, <3>3
  <2> QED BY <2>1, <2>2, LockApart
<1>12. ASSUME NEW p \in Requests, Works(p)
       PROVE  LockHeld'
  BY <1>12, <1>7, <1>8, <1>9, <1>10, <1>11 DEF Works
<1> QED BY <1>1, <1>2, <1>3, <1>4, <1>5, <1>6, <1>12, NextKinds

-----------------------------------------------------------------------------
(* Accounts and their factors.                                             *)

\* A step of one request that neither creates nor deletes an account, and stores
\* a factor at most in the place of one it or another has read.
LEMMA AccountsApart ==
  ASSUME CallInv, AccountsKept, NEW p \in Requests, Others(p),
         req[p].at \notin {"first", "dropaccount"},
         taken' = taken, interrupted' = interrupted,
         \A a \in Accounts : factor[a] # None => factor'[a] # None,
         \A a \in Accounts :
           factor'[a] # None
           => factor[a] # None \/ (req[p].account = a /\ req[p].at \in {"put", "write"}),
         req'[p].at # "first",
         Registering(p)' => Registering(p) /\ req'[p].account = req[p].account,
         req'[p].at \in {"put", "mailbox", "write"}
           => /\ req'[p].account \in Accounts
              /\ \/ factor[req'[p].account] # None
                 \/ req[p].at \in {"put", "mailbox", "write"} /\ req'[p].account = req[p].account
  PROVE  AccountsKept'
<1>1. ASSUME NEW a \in Accounts, factor'[a] # None
      PROVE  a \in taken'
  BY <1>1 DEF AccountsKept
<1>2. ASSUME NEW q \in Requests, q # p
      PROVE  /\ req'[q] = req[q]
             /\ req[q].at \in {"first", "put", "mailbox", "write"} => req[q].account \in Accounts
  BY <1>2, Working DEF Others
<1>3. ASSUME NEW q \in Requests, Registering(q)' \/ req'[q].at \in {"put", "write"}
      PROVE  req'[q].account \in taken'
  <2>1. CASE q = p /\ Registering(p)'
    BY <2>1 DEF AccountsKept
  <2>2. CASE q = p /\ req'[p].at \in {"put", "write"}
    <3>1. req[p].at = "mailbox" => Registering(p)
      BY Working DEF Busy, Registering
    <3> QED BY <2>2, <3>1 DEF AccountsKept
  <2>3. CASE q # p
    BY <1>2, <1>3, <2>3 DEF AccountsKept, Registering
  <2> QED BY <1>3, <2>1, <2>2, <2>3
<1>4. ASSUME NEW q \in Requests, req'[q].at = "first"
      PROVE  q # p /\ req[q].at = "first" /\ factor'[req'[q].account] = None
  <2>1. q # p /\ req'[q] = req[q] /\ req[q].account \in Accounts /\ req[q].at = "first"
    BY <1>2, <1>4
  <2> QED BY <2>1 DEF AccountsKept
<1>5. ASSUME NEW q \in Requests, NEW r \in Requests,
             req'[q].at = "first", req'[r].at \in {"put", "mailbox", "write"}
      PROVE  req'[q].account # req'[r].account
  <2>1. q # p /\ req'[q] = req[q] /\ req[q].at = "first" /\ factor[req[q].account] = None
    BY <1>4, <1>5, <1>2 DEF AccountsKept
  <2>2. CASE r = p
    BY <2>1, <2>2, <1>5 DEF AccountsKept
  <2>3. CASE r # p
    BY <2>1, <2>3, <1>2, <1>5 DEF AccountsKept
  <2> QED BY <2>2, <2>3
<1>6. ASSUME NEW q \in Requests, NEW r \in Requests,
             Registering(q)', Registering(r)', req'[q].account = req'[r].account
      PROVE  q = r
  <2>1. ASSUME NEW x \in Requests, Registering(x)'
        PROVE  Registering(x) /\ req'[x].account = req[x].account
    BY <2>1 DEF Others, Registering
  <2> QED BY <1>6, <2>1 DEF AccountsKept
<1>7. EnrolledUnlessInterrupted'
  <2> SUFFICES ASSUME NEW a \in taken, factor'[a] = None, a \notin interrupted
               PROVE  \E q \in Requests :
                        req'[q].account = a /\ req'[q].at \in {"first", "dropaccount"}
    BY DEF EnrolledUnlessInterrupted
  <2>1. factor[a] = None
    BY DEF CallInv, TypeOK
  <2>2. PICK q \in Requests : req[q].account = a /\ req[q].at \in {"first", "dropaccount"}
    BY <2>1 DEF AccountsKept, EnrolledUnlessInterrupted
  <2> QED BY <2>2 DEF Others
<1> QED BY <1>1, <1>3, <1>4, <1>5, <1>6, <1>7 DEF AccountsKept

LEMMA AccountsSame ==
  ASSUME AccountsKept, UNCHANGED <<taken, factor, req, interrupted>>
  PROVE  AccountsKept'
BY DEF AccountsKept, Registering, EnrolledUnlessInterrupted

LEMMA CreateAccountAccounts ==
  ASSUME CallInv, AccountsKept, NEW p \in Requests, CreateAccount(p)
  PROVE  AccountsKept'
<1> DEFINE a == req[p].account
<1>1. /\ factor' = factor /\ interrupted' = interrupted /\ Others(p) /\ req[p].at = "create"
      /\ a \in Accounts
  BY CreateAccountFacts, Working DEF CreateAccount, historyVars
<1>2. CASE req'[p] = Idle /\ taken' = taken
  BY <1>1, <1>2, IdleCall, AccountsApart DEF Registering
<1>3. CASE /\ req'[p].at = "first" /\ Keeps(p)
           /\ a \notin taken /\ taken' = taken \cup {a}
  <2>1. factor[a] = None
    BY <1>1, <1>3 DEF AccountsKept
  <2>2. ASSUME NEW q \in Requests, q # p, Registering(q)'
        PROVE  Registering(q) /\ req'[q].account = req[q].account /\ req[q].account # a
    BY <1>1, <1>3, <2>2 DEF Others, Registering, AccountsKept
  <2>3. \A x \in Accounts : factor'[x] # None => x \in taken'
    BY <1>1, <1>3 DEF AccountsKept
  <2>4. ASSUME NEW q \in Requests
        PROVE  /\ Registering(q)' \/ req'[q].at \in {"put", "write"} => req'[q].account \in taken'
               /\ req'[q].at = "first" => factor'[req'[q].account] = None
    <3>1. CASE q = p
      BY <3>1, <2>1, <1>1, <1>3 DEF Keeps
    <3>2. CASE q # p
      BY <3>2, <2>2, <1>1, <1>3 DEF AccountsKept, Others, Registering
    <3> QED BY <3>1, <3>2
  <2>5. ASSUME NEW q \in Requests, NEW r \in Requests,
               req'[q].at = "first", req'[r].at \in {"put", "mailbox", "write"}
        PROVE  req'[q].account # req'[r].account
    <3>1. r # p /\ req'[r] = req[r] /\ req[r].at \in {"put", "mailbox", "write"}
      BY <2>5, <1>1, <1>3 DEF Others
    <3>2. req[r].account # a
      <4>1. req[r].at = "mailbox" => Registering(r)
        BY Working DEF Busy, Registering
      <4> QED BY <3>1, <4>1, <1>3 DEF AccountsKept
    <3> QED BY <2>5, <3>1, <3>2, <1>1, <1>3 DEF Others, Keeps, AccountsKept
  <2>6. \A q, r \in Requests :
          Registering(q)' /\ Registering(r)' /\ req'[q].account = req'[r].account => q = r
    BY <2>2, <1>3 DEF Keeps, AccountsKept
  <2>7. EnrolledUnlessInterrupted'
    <3> SUFFICES ASSUME NEW x \in taken', factor'[x] = None, x \notin interrupted
                 PROVE  \E q \in Requests :
                          req'[q].account = x /\ req'[q].at \in {"first", "dropaccount"}
      BY <1>1 DEF EnrolledUnlessInterrupted
    <3>1. CASE x = a
      BY <3>1, <1>3 DEF Keeps
    <3>2. CASE x # a
      <4>1. PICK q \in Requests : req[q].account = x /\ req[q].at \in {"first", "dropaccount"}
        BY <3>2, <1>1, <1>3 DEF AccountsKept, EnrolledUnlessInterrupted
      <4> QED BY <4>1, <1>1 DEF Others
    <3> QED BY <3>1, <3>2
  <2> QED BY <2>3, <2>4, <2>5, <2>6, <2>7 DEF AccountsKept
<1> QED BY <1>2, <1>3, CreateAccountFacts

LEMMA StoreFirstAccounts ==
  ASSUME CallInv, AccountsKept, NEW p \in Requests, StoreFirst(p)
  PROVE  AccountsKept'
<1> DEFINE a == req[p].account
           f == NewFactor(req[p].link, FALSE, 0)
<1>1. /\ taken' = taken /\ interrupted' = interrupted /\ Others(p) /\ req[p].at = "first"
      /\ a \in Accounts /\ f # None /\ factor' = [factor EXCEPT ![a] = f]
      /\ req'[p].at = "mailbox" /\ Keeps(p) /\ Registering(p)
  BY StoreFirstFacts, Working, RequestsAssumption DEF StoreFirst, historyVars, Registering
<1> HIDE DEF f
<1>2. factor'[a] = f /\ \A x \in Accounts : x # a => factor'[x] = factor[x]
  BY <1>1 DEF CallInv, TypeOK
<1>3. a \in taken
  BY <1>1 DEF AccountsKept
<1>4. ASSUME NEW q \in Requests, Registering(q)'
      PROVE  Registering(q) /\ req'[q].account = req[q].account
  BY <1>1, <1>4 DEF Others, Registering, Keeps
<1>5. \A x \in Accounts : factor'[x] # None => x \in taken'
  BY <1>1, <1>2, <1>3 DEF AccountsKept
<1>6. ASSUME NEW q \in Requests, req'[q].at = "first"
      PROVE  /\ q # p /\ req'[q] = req[q] /\ req[q].account \in Accounts
             /\ req[q].account # a
  <2>1. q # p /\ req'[q] = req[q]
    BY <1>6, <1>1 DEF Others
  <2>2. Registering(q) /\ req[q].account \in Accounts
    BY <1>6, <2>1, Working DEF Busy, Registering
  <2> QED BY <2>1, <2>2, <1>1 DEF AccountsKept
<1>7. ASSUME NEW q \in Requests
      PROVE  /\ Registering(q)' \/ req'[q].at \in {"put", "write"} => req'[q].account \in taken'
             /\ req'[q].at = "first" => factor'[req'[q].account] = None
  <2>1. Registering(q)' \/ req'[q].at \in {"put", "write"} => req'[q].account \in taken'
    BY <1>1, <1>4 DEF Others, AccountsKept
  <2>2. req'[q].at = "first" => factor'[req'[q].account] = None
    BY <1>2, <1>6 DEF AccountsKept
  <2> QED BY <2>1, <2>2
<1>8. ASSUME NEW q \in Requests, NEW r \in Requests,
             req'[q].at = "first", req'[r].at \in {"put", "mailbox", "write"}
      PROVE  req'[q].account # req'[r].account
  BY <1>6, <1>8, <1>1 DEF Others, Keeps, AccountsKept
<1>9. \A q, r \in Requests :
        Registering(q)' /\ Registering(r)' /\ req'[q].account = req'[r].account => q = r
  BY <1>4 DEF AccountsKept
<1>10. EnrolledUnlessInterrupted'
  <2> SUFFICES ASSUME NEW x \in taken, factor'[x] = None, x \notin interrupted
               PROVE  \E q \in Requests :
                        req'[q].account = x /\ req'[q].at \in {"first", "dropaccount"}
    BY <1>1 DEF EnrolledUnlessInterrupted
  <2>1. x # a /\ factor[x] = None
    BY <1>1, <1>2 DEF CallInv, TypeOK
  <2>2. PICK q \in Requests : req[q].account = x /\ req[q].at \in {"first", "dropaccount"}
    BY <2>1 DEF AccountsKept, EnrolledUnlessInterrupted
  <2> QED BY <2>1, <2>2, <1>1 DEF Others
<1> QED BY <1>5, <1>7, <1>8, <1>9, <1>10 DEF AccountsKept

\* A request that fails at its first factor goes on to delete the account, and one
\* that cannot delete it is on record.
LEMMA FailAccounts ==
  ASSUME CallInv, AccountsKept, NEW p \in Requests, Fail(p)
  PROVE  AccountsKept'
<1> DEFINE a == req[p].account
<1>1. UNCHANGED <<taken, factor>> /\ Others(p) /\ req[p].at # "idle"
  BY FailFacts DEF Fail, storeVars
<1>2. interrupted' = IF req[p].at = "dropaccount" THEN interrupted \cup {a} ELSE interrupted
  BY DEF Fail
<1>3. \/ req'[p] = Idle /\ req[p].at # "first"
      \/ /\ Keeps(p) /\ req'[p].at \in {"issue", "dropfactor", "dropaccount"} /\ Registering(p)
  <2>1. req[p].at \in {"first", "mailbox", "dropfactor"} => req[p].op = "register"
    BY <1>1, Working DEF Busy
  <2> QED BY <2>1, FailFacts DEF Registering
<1>4. ASSUME NEW q \in Requests, Registering(q)'
      PROVE  Registering(q) /\ req'[q].account = req[q].account
  BY <1>1, <1>3, <1>4, IdleCall DEF Others, Registering, Keeps
<1>5. ASSUME NEW q \in Requests, req'[q].at \in {"first", "put", "mailbox", "write"}
      PROVE  req'[q] = req[q]
  BY <1>1, <1>3, <1>5, IdleCall DEF Others
<1>6. EnrolledUnlessInterrupted'
  <2> SUFFICES ASSUME NEW x \in taken, factor[x] = None, x \notin interrupted'
               PROVE  \E q \in Requests :
                        req'[q].account = x /\ req'[q].at \in {"first", "dropaccount"}
    BY <1>1 DEF EnrolledUnlessInterrupted
  <2>1. x \notin interrupted
    BY <1>2
  <2>2. PICK q \in Requests : req[q].account = x /\ req[q].at \in {"first", "dropaccount"}
    BY <2>1 DEF AccountsKept, EnrolledUnlessInterrupted
  <2>3. CASE q = p
    <3>1. req[p].at = "first"
      BY <2>2, <2>3, <1>2
    <3>2. Keeps(p) /\ req'[p].at = "dropaccount"
      BY <3>1, FailFacts
    <3> QED BY <2>2, <2>3, <3>2 DEF Keeps
  <2>4. CASE q # p
    BY <2>2, <2>4, <1>1 DEF Others
  <2> QED BY <2>3, <2>4
<1>7. ASSUME NEW q \in Requests
      PROVE  /\ Registering(q)' \/ req'[q].at \in {"put", "write"} => req'[q].account \in taken'
             /\ req'[q].at = "first" => factor'[req'[q].account] = None
  BY <1>1, <1>4, <1>5 DEF AccountsKept
<1>8. \A q, r \in Requests :
        req'[q].at = "first" /\ req'[r].at \in {"put", "mailbox", "write"}
        => req'[q].account # req'[r].account
  BY <1>5 DEF AccountsKept
<1>9. \A q, r \in Requests :
        Registering(q)' /\ Registering(r)' /\ req'[q].account = req'[r].account => q = r
  BY <1>4 DEF AccountsKept
<1> QED BY <1>1, <1>6, <1>7, <1>8, <1>9 DEF AccountsKept

LEMMA DeleteFactorAccounts ==
  ASSUME CallInv, AccountsKept, NEW p \in Requests, DeleteFactor(p)
  PROVE  AccountsKept'
<1> DEFINE a == req[p].account
<1>1. /\ UNCHANGED <<taken, interrupted>> /\ factor' = [factor EXCEPT ![a] = None]
      /\ a \in Accounts /\ Others(p) /\ Keeps(p)
      /\ req[p].at = "dropfactor" /\ req'[p].at = "dropaccount" /\ req[p].op = "register"
  BY DeleteFactorFacts DEF DeleteFactor
<1>2. factor'[a] = None /\ \A x \in Accounts : x # a => factor'[x] = factor[x]
  BY <1>1 DEF CallInv, TypeOK
<1>3. ASSUME NEW q \in Requests, Registering(q)'
      PROVE  Registering(q) /\ req'[q].account = req[q].account
  BY <1>1, <1>3 DEF Others, Registering, Keeps
<1>4. ASSUME NEW q \in Requests, req'[q].at \in {"first", "put", "mailbox", "write"}
      PROVE  req'[q] = req[q] /\ req[q].account \in Accounts
  BY <1>1, <1>4, Working DEF Others
<1>5. ASSUME NEW q \in Requests
      PROVE  /\ Registering(q)' \/ req'[q].at \in {"put", "write"} => req'[q].account \in taken'
             /\ req'[q].at = "first" => factor'[req'[q].account] = None
  <2>1. Registering(q)' \/ req'[q].at \in {"put", "write"} => req'[q].account \in taken'
    BY <1>1, <1>3, <1>4 DEF AccountsKept
  <2>2. req'[q].at = "first" => factor'[req'[q].account] = None
    BY <1>2, <1>4 DEF AccountsKept
  <2> QED BY <2>1, <2>2
<1>6. \A q, r \in Requests :
        req'[q].at = "first" /\ req'[r].at \in {"put", "mailbox", "write"}
        => req'[q].account # req'[r].account
  BY <1>4 DEF AccountsKept
<1>7. \A q, r \in Requests :
        Registering(q)' /\ Registering(r)' /\ req'[q].account = req'[r].account => q = r
  BY <1>3 DEF AccountsKept
<1>8. EnrolledUnlessInterrupted'
  <2> SUFFICES ASSUME NEW x \in taken, factor'[x] = None, x \notin interrupted
               PROVE  \E q \in Requests :
                        req'[q].account = x /\ req'[q].at \in {"first", "dropaccount"}
    BY <1>1 DEF EnrolledUnlessInterrupted
  <2>1. CASE x = a
    BY <2>1, <1>1 DEF Keeps
  <2>2. CASE x # a
    <3>1. factor[x] = None
      BY <2>2, <1>2 DEF CallInv, TypeOK
    <3>2. PICK q \in Requests : req[q].account = x /\ req[q].at \in {"first", "dropaccount"}
      BY <3>1 DEF AccountsKept, EnrolledUnlessInterrupted
    <3> QED BY <3>2, <1>1 DEF Others
  <2> QED BY <2>1, <2>2
<1>9. \A x \in Accounts : factor'[x] # None => x \in taken'
  BY <1>1, <1>2 DEF AccountsKept
<1> QED BY <1>5, <1>6, <1>7, <1>8, <1>9 DEF AccountsKept

LEMMA DeleteAccountAccounts ==
  ASSUME CallInv, AccountsKept, NEW p \in Requests, DeleteAccount(p)
  PROVE  AccountsKept'
<1> DEFINE a == req[p].account
<1>1. /\ taken' = taken \ {a} /\ interrupted' = interrupted /\ factor' = [factor EXCEPT ![a] = None]
      /\ a \in Accounts /\ req'[p] = Idle
      /\ \A q \in Requests : req'[q] = Idle \/ req'[q] = req[q]
      /\ \A q \in Requests : req[q].account = a /\ req[q].op # "register" => req'[q] = Idle
  BY DeleteAccountFacts DEF DeleteAccount
<1>2. factor'[a] = None /\ \A x \in Accounts : x # a => factor'[x] = factor[x]
  BY <1>1 DEF CallInv, TypeOK
<1>3. Registering(p)
  BY DeleteAccountFacts DEF Registering
<1>4. ASSUME NEW q \in Requests, req'[q].at # "idle"
      PROVE  /\ req'[q] = req[q] /\ q # p /\ req[q].account \in Accounts
             /\ req[q].at \in {"put", "write"} => req[q].account # a
             /\ Registering(q) => req[q].account # a
  <2>1. req'[q] = req[q] /\ q # p /\ req[q].account \in Accounts
    BY <1>4, <1>1, IdleCall, Working
  <2>2. Registering(q) => req[q].account # a
    BY <2>1, <1>3 DEF AccountsKept
  <2>3. req[q].account = a => req[q].op = "register"
    BY <2>1, <1>1, <1>4, IdleCall
  <2>4. req[q].at = "put" => req[q].op # "register"
    BY Working DEF Busy
  <2> QED BY <2>1, <2>2, <2>3, <2>4 DEF Registering
<1>5. ASSUME NEW q \in Requests
      PROVE  /\ Registering(q)' => Registering(q) /\ req'[q] = req[q] /\ req[q].account # a
             /\ Registering(q)' \/ req'[q].at \in {"put", "write"} => req'[q].account \in taken'
             /\ req'[q].at = "first" => factor'[req'[q].account] = None
  <2>1. CASE req'[q].at = "idle"
    BY <2>1 DEF Registering
  <2>2. CASE req'[q].at # "idle"
    <3>1. req'[q] = req[q] /\ req[q].account \in Accounts
      BY <2>2, <1>4
    <3>2. Registering(q)' => Registering(q) /\ req[q].account # a
      BY <2>2, <3>1, <1>4 DEF Registering
    <3>3. Registering(q)' \/ req'[q].at \in {"put", "write"} => req'[q].account \in taken'
      BY <2>2, <3>1, <3>2, <1>4, <1>1 DEF AccountsKept
    <3>4. req'[q].at = "first" => factor'[req'[q].account] = None
      BY <3>1, <1>2 DEF AccountsKept
    <3> QED BY <3>1, <3>2, <3>3, <3>4
  <2> QED BY <2>1, <2>2
<1>6. \A x \in Accounts : factor'[x] # None => x \in taken'
  BY <1>1, <1>2 DEF AccountsKept
<1>7. \A q, r \in Requests :
        Registering(q)' /\ Registering(r)' /\ req'[q].account = req'[r].account => q = r
  BY <1>5 DEF AccountsKept
<1>8. \A q, r \in Requests :
        req'[q].at = "first" /\ req'[r].at \in {"put", "mailbox", "write"}
        => req'[q].account # req'[r].account
  BY <1>4 DEF AccountsKept
<1>9. EnrolledUnlessInterrupted'
  <2> SUFFICES ASSUME NEW x \in taken, x # a, factor'[x] = None, x \notin interrupted
               PROVE  \E q \in Requests :
                        req'[q].account = x /\ req'[q].at \in {"first", "dropaccount"}
    BY <1>1 DEF EnrolledUnlessInterrupted
  <2>1. factor[x] = None
    BY <1>2 DEF CallInv, TypeOK
  <2>2. PICK q \in Requests : req[q].account = x /\ req[q].at \in {"first", "dropaccount"}
    BY <2>1 DEF AccountsKept, EnrolledUnlessInterrupted
  <2>3. req'[q] = req[q]
    BY <2>2, Working, DeleteAccountFacts DEF Busy
  <2> QED BY <2>2, <2>3
<1> QED BY <1>5, <1>6, <1>7, <1>8, <1>9 DEF AccountsKept

LEMMA CrashAccounts ==
  ASSUME CallInv, AccountsKept, Crash
  PROVE  AccountsKept'
<1>1. /\ taken' = taken /\ factor' = factor
      /\ interrupted' = interrupted \cup ({req[p].account : p \in Requests} \ {None})
      /\ \A q \in Requests : req'[q].at = "idle"
  BY CrashFacts, IdleCall DEF Crash, storeVars
<1>2. EnrolledUnlessInterrupted'
  <2> SUFFICES ASSUME NEW x \in taken, factor[x] = None, x \notin interrupted'
               PROVE  FALSE
    BY <1>1 DEF EnrolledUnlessInterrupted
  <2>1. PICK q \in Requests : req[q].account = x
    BY <1>1 DEF AccountsKept, EnrolledUnlessInterrupted
  <2>2. x # None
    BY SizeAssumption DEF CallInv, TypeOK
  <2> QED BY <1>1, <2>1, <2>2
<1> QED BY <1>1, <1>2 DEF AccountsKept, Registering

LEMMA AccountsNext ==
  ASSUME CallInv, AccountsKept, [Next]_vars
  PROVE  AccountsKept'
<1>1. CASE Tick \/ UNCHANGED vars
  BY <1>1, AccountsSame DEF Tick, vars, storeVars, historyVars
<1>2. CASE Crash
  BY <1>2, CrashAccounts
<1>3. ASSUME NEW a \in Accounts, BeginRegistration(a) \/ RequestRecovery(a)
      PROVE  AccountsKept'
  BY <1>3, AccountsSame DEF BeginRegistration, RequestRecovery, historyVars
<1>4. ASSUME NEW p \in Requests, NEW a \in Accounts, NEW c \in Codes, BeginVerify(p, a, c)
      PROVE  AccountsKept'
  <2>1. UNCHANGED <<taken, factor, interrupted>>
    BY <1>4 DEF BeginVerify, Begin, storeVars, historyVars
  <2> QED BY <1>4, <2>1, BeginVerifyFacts, AccountsApart, IdleCall DEF Registering
<1>5. ASSUME NEW p \in Requests, NEW l \in Links, BeginConfirm(p, l)
      PROVE  AccountsKept'
  <2>1. UNCHANGED <<taken, factor, interrupted>>
    BY <1>5 DEF BeginConfirm, Begin, storeVars, historyVars
  <2> QED BY <1>5, <2>1, BeginConfirmFacts, AccountsApart, IdleCall DEF Registering
<1>6. ASSUME NEW p \in Requests, NEW l \in Links, NEW c \in Codes, BeginComplete(p, l, c)
      PROVE  AccountsKept'
  <2>1. UNCHANGED <<taken, factor, interrupted>>
    BY <1>6 DEF BeginComplete, Begin, storeVars, historyVars
  <2>2. Others(p) /\ req[p] = Idle /\ req'[p].at \in {"create", "reread"}
    BY <1>6, BeginCompleteFacts
  <2> QED BY <2>1, <2>2, AccountsApart, IdleCall DEF Registering
<1>7. ASSUME NEW p \in Requests, Examine(p)
      PROVE  AccountsKept'
  <2>1. UNCHANGED <<taken, factor, interrupted>>
    BY <1>7 DEF Examine, storeVars, historyVars
  <2>2. req[p].account \in Accounts /\ req[p].op = "verify"
    BY <1>7, ExamineFacts, Working DEF Busy
  <2>3. CASE req'[p] = Idle
    BY <1>7, <2>1, <2>3, ExamineFacts, AccountsApart, IdleCall DEF Registering
  <2>4. CASE /\ req'[p].at = "put" /\ Keeps(p)
             /\ req'[p].seen = factor[req[p].account] /\ req'[p].seen \in Factors
    <3>1. factor[req'[p].account] # None /\ req'[p].account \in Accounts /\ req'[p].op = "verify"
      BY <2>2, <2>4, RequestsAssumption DEF Keeps
    <3> QED BY <1>7, <2>1, <2>4, <3>1, ExamineFacts, AccountsApart DEF Registering
  <2> QED BY <1>7, <2>3, <2>4, ExamineFacts
<1>8. ASSUME NEW p \in Requests, Record(p)
      PROVE  AccountsKept'
  <2> DEFINE a == req[p].account
             g == IF req[p].hit THEN Hit(req[p].seen, req[p].code.step)
                  ELSE Miss(req[p].seen, req[p].time)
  <2>1. /\ UNCHANGED <<taken, interrupted>> /\ Others(p) /\ req[p].at = "put"
        /\ factor' = [factor EXCEPT ![a] = g]
    BY <1>8, RecordFacts DEF Record
  <2>2. a \in Accounts /\ g \in Factors
    <3>1. req[p] \in Calls /\ req[p].seen \in Factors
      BY <2>1, Working DEF Busy
    <3>2. req[p].code.step \in Steps /\ req[p].time \in Nat
      BY <3>1 DEF Calls, Codes
    <3> QED BY <3>1, <3>2, <2>1, Working, FactorTypes
  <2> HIDE DEF g
  <2>3. /\ \A x \in Accounts : factor[x] # None => factor'[x] # None
        /\ \A x \in Accounts : factor'[x] # None => factor[x] # None \/ x = a
    BY <2>1, <2>2, RequestsAssumption DEF CallInv, TypeOK
  <2>4. ~Registering(p)' /\ req'[p].at \notin {"first", "put", "mailbox", "write"}
    BY <1>8, RecordFacts, IdleCall DEF Registering
  <2> QED BY <2>1, <2>3, <2>4, AccountsApart
<1>9. ASSUME NEW p \in Requests, Issue(p) \/ RefuseLate(p)
      PROVE  AccountsKept'
  <2>1. UNCHANGED <<taken, factor, interrupted>>
    BY <1>9 DEF Issue, RefuseLate, storeVars, historyVars
  <2>2. Others(p) /\ req[p].at \notin {"first", "dropaccount"} /\ req'[p] = Idle
    BY <1>9, IssueFacts, RefuseLateFacts
  <2> QED BY <2>1, <2>2, AccountsApart, IdleCall DEF Registering
<1>10. ASSUME NEW p \in Requests, StoreMailbox(p)
       PROVE  AccountsKept'
  <2>1. UNCHANGED <<taken, factor, interrupted>>
    BY <1>10 DEF StoreMailbox, storeVars, historyVars
  <2>2. /\ Others(p) /\ req[p].at = "mailbox" /\ req'[p].at = "write" /\ Keeps(p)
        /\ req[p].account \in Accounts
    BY <1>10, StoreMailboxFacts, Working
  <2> QED BY <2>1, <2>2, AccountsApart DEF Registering, Keeps
<1>11. ASSUME NEW p \in Requests, Reread(p)
       PROVE  AccountsKept'
  <2>1. UNCHANGED <<taken, factor, interrupted>>
    BY <1>11 DEF Reread, storeVars, historyVars
  <2>2. Others(p) /\ req[p].at = "reread" /\ req[p].account \in Accounts /\ req[p].op # "register"
    BY <1>11, RereadFacts, Working DEF Busy
  <2>3. CASE req'[p] = Idle
    BY <2>1, <2>2, <2>3, AccountsApart, IdleCall DEF Registering
  <2>4. CASE req'[p].at = "write" /\ Keeps(p) /\ factor[req[p].account] \in Factors
    <3>1. req'[p].account \in Accounts /\ factor[req'[p].account] # None /\ req'[p].op # "register"
      BY <2>2, <2>4, RequestsAssumption DEF Keeps
    <3> QED BY <2>1, <2>2, <2>4, <3>1, AccountsApart DEF Registering
  <2> QED BY <1>11, <2>3, <2>4, RereadFacts
<1>12. ASSUME NEW p \in Requests, WriteFactor(p)
       PROVE  AccountsKept'
  <2> DEFINE a == req[p].account
             g == Newest(req[p])
  <2>1. UNCHANGED <<taken, interrupted>>
    BY <1>12 DEF WriteFactor
  <2>2. Others(p) /\ req[p].at = "write" /\ req'[p].at = "unlink" /\ Keeps(p)
    BY <1>12, WriteFactorFacts
  <2>3. a \in Accounts /\ g \in Factors /\ factor' = [factor EXCEPT ![a] = g]
    BY <1>12, Written
  <2> HIDE DEF g
  <2>4. /\ \A x \in Accounts : factor[x] # None => factor'[x] # None
        /\ \A x \in Accounts : factor'[x] # None => factor[x] # None \/ x = a
    BY <2>3, RequestsAssumption DEF CallInv, TypeOK
  <2> QED BY <2>1, <2>2, <2>4, AccountsApart DEF Registering, Keeps
<1>13. ASSUME NEW p \in Requests, Unlink(p)
       PROVE  AccountsKept'
  <2>1. UNCHANGED <<taken, factor, interrupted>>
    BY <1>13 DEF Unlink, historyVars
  <2>2. /\ Others(p) /\ req[p].at = "unlink"
        /\ \/ req'[p] = Idle
           \/ req[p].op = "register" /\ req'[p].at = "issue" /\ Keeps(p)
    BY <1>13, AfterUnlinkFacts DEF Unlink
  <2> QED BY <2>1, <2>2, AccountsApart, IdleCall DEF Registering, Keeps
<1>14. ASSUME NEW p \in Requests, Works(p)
       PROVE  AccountsKept'
  BY <1>14, <1>7, <1>8, <1>9, <1>10, <1>11, <1>12, <1>13, CreateAccountAccounts,
     StoreFirstAccounts, DeleteFactorAccounts, DeleteAccountAccounts, FailAccounts DEF Works
<1> QED BY <1>1, <1>2, <1>3, <1>4, <1>5, <1>6, <1>14, NextKinds

-----------------------------------------------------------------------------
(* What the factors tell.                                                  *)

\* A step of one request that leaves factors and histories alone.
LEMMA FactorsApart ==
  ASSUME CallInv, FactorsTold, NEW p \in Requests, Others(p),
         UNCHANGED <<factor, raced, accepted, ledger, confirmed>>,
         req'[p].at = "put" => req'[p].seen = factor[req'[p].account]
  PROVE  FactorsTold'
BY DEF FactorsTold, Told, Blank, Others

LEMMA FactorsSame ==
  ASSUME FactorsTold, UNCHANGED <<factor, raced, accepted, ledger, confirmed, req>>
  PROVE  FactorsTold'
BY DEF FactorsTold, Told, Blank

\* A step that changes what is on record for account a only.
LEMMA FactorsElsewhere ==
  ASSUME CallInv, FactorsTold, NEW a \in Accounts,
         \A x \in Accounts : x # a => factor'[x] = factor[x] /\ ledger'[x] = ledger[x],
         \A x \in Accounts : x # a => (x \in confirmed' <=> x \in confirmed),
         \A x \in Accounts : x # a => (x \in raced' <=> x \in raced),
         \A y : y[1] # a => (y \in accepted' <=> y \in accepted),
         IF factor'[a] = None THEN Blank(a)' ELSE a \in raced' \/ Told(a)',
         \A q \in Requests :
           req'[q].at = "put"
           => /\ req[q] = req'[q]
              /\ req[q].account = a => a \in raced'
  PROVE  FactorsTold'
<1>1. ASSUME NEW x \in Accounts, x # a
      PROVE  IF factor'[x] = None THEN Blank(x)' ELSE x \in raced' \/ Told(x)'
  <2>1. factor'[x] = factor[x] /\ ledger'[x] = ledger[x]
    BY <1>1
  <2>2. CASE factor[x] = None
    BY <1>1, <2>1, <2>2 DEF FactorsTold, Blank
  <2>3. CASE factor[x] # None
    BY <1>1, <2>1, <2>3 DEF FactorsTold, Told
  <2> QED BY <2>2, <2>3, <2>1
<1>2. ASSUME NEW q \in Requests, req'[q].at = "put"
      PROVE  req'[q].account \in raced' \/ req'[q].seen = factor'[req'[q].account]
  <2>1. req'[q] = req[q] /\ req[q].account \in Accounts
    BY <1>2, Working
  <2>2. CASE req[q].account = a
    BY <1>2, <2>1, <2>2
  <2>3. CASE req[q].account # a
    BY <1>2, <2>1, <2>3 DEF FactorsTold
  <2> QED BY <2>2, <2>3
<1> QED BY <1>1, <1>2 DEF FactorsTold

\* The fields of the factors that Verify and the lock-free writes store.
LEMMA HitFields ==
  ASSUME NEW f \in Factors, NEW k \in Steps
  PROVE  /\ Hit(f, k).secret = f.secret /\ Hit(f, k).verified = f.verified
         /\ Hit(f, k).failed = 0 /\ Hit(f, k).locked = 0 /\ Hit(f, k).last = k
BY DEF Hit, Factors

LEMMA MissFields ==
  ASSUME NEW f \in Factors, NEW t \in Nat,
         NEW m \in [streak : 0 .. MaxFailures - 1, barred : Nat],
         m.streak = f.failed, m.barred = f.locked
  PROVE  /\ Miss(f, t).secret = f.secret /\ Miss(f, t).verified = f.verified
         /\ Miss(f, t).last = f.last
         /\ Miss(f, t).failed = Streak(m, t).streak /\ Miss(f, t).locked = Streak(m, t).barred
<1>1. CASE f.failed + 1 >= MaxFailures
  BY <1>1 DEF Miss, Streak, Factors
<1>2. CASE ~(f.failed + 1 >= MaxFailures)
  BY <1>2 DEF Miss, Streak, Factors
<1> QED BY <1>1, <1>2

LEMMA NewFactorFields ==
  ASSUME NEW s, NEW v, NEW k
  PROVE  /\ NewFactor(s, v, k).secret = s /\ NewFactor(s, v, k).verified = v
         /\ NewFactor(s, v, k).failed = 0 /\ NewFactor(s, v, k).locked = 0
         /\ NewFactor(s, v, k).last = k
BY DEF NewFactor

LEMMA RecordFactors ==
  ASSUME CallInv, LockHeld, FactorsTold, NEW p \in Requests, Record(p)
  PROVE  FactorsTold'
<1>0. req[p].account \in Accounts
  BY RecordFacts, Working
<1> PICK a \in Accounts : a = req[p].account
  BY <1>0
<1> DEFINE r == req[p]
           g == IF r.hit THEN Hit(r.seen, r.code.step) ELSE Miss(r.seen, r.time)
           m == IF r.hit THEN Clear ELSE Streak(ledger[a], r.time)
<1>1. /\ r.at = "put" /\ Others(p) /\ req'[p].at # "put"
      /\ factor' = [factor EXCEPT ![a] = g]
      /\ ledger' = [ledger EXCEPT ![a] = m]
      /\ accepted' = IF r.hit THEN accepted \cup {<<a, r.code>>} ELSE accepted
      /\ raced' = raced /\ confirmed' = confirmed
  BY RecordFacts, IdleCall DEF Record
<1>2. r \in Calls /\ Busy(r) /\ a \in Accounts
  BY <1>1, Working
<1>3. /\ r.seen \in Factors /\ r.time \in Nat /\ r.code.step \in Steps /\ r.hit \in BOOLEAN
      /\ r.hit => r.code.secret = r.seen.secret /\ r.code.step > r.seen.last
  BY <1>1, <1>2 DEF Busy, Calls, Codes
<1>4. ledger[a] \in [streak : 0 .. MaxFailures - 1, barred : Nat]
  BY <1>2 DEF CallInv, TypeOK
<1>5. g \in Factors /\ g # None
  BY <1>3, FactorTypes, RequestsAssumption
<1> HIDE DEF g, m
<1>6. /\ factor'[a] = g /\ ledger'[a] = m
      /\ \A x \in Accounts : x # a => factor'[x] = factor[x] /\ ledger'[x] = ledger[x]
  BY <1>1, <1>2 DEF CallInv, TypeOK
<1>7. \A y : y[1] # a => (y \in accepted' <=> y \in accepted)
  BY <1>1
<1>8. a \in raced' \/ Told(a)'
  <2> SUFFICES ASSUME a \notin raced PROVE Told(a)'
    BY <1>1
  <2>1. r.seen = factor[a] /\ Told(a)
    <3>1. r.seen = factor[a] /\ factor[a] # None
      BY <1>1, <1>3, RequestsAssumption DEF FactorsTold
    <3> QED BY <3>1, <1>2 DEF FactorsTold
  <2>2. /\ ledger[a].streak = r.seen.failed /\ ledger[a].barred = r.seen.locked
        /\ a \in confirmed => r.seen.verified
        /\ \A x \in accepted : x[1] = a /\ x[2].secret = r.seen.secret => x[2].step <= r.seen.last
    BY <2>1 DEF Told
  <2>3. CASE r.hit
    <3>1. g = Hit(r.seen, r.code.step) /\ m = Clear
      BY <2>3 DEF g, m
    <3>2. /\ g.secret = r.seen.secret /\ g.verified = r.seen.verified
          /\ g.failed = 0 /\ g.locked = 0 /\ g.last = r.code.step
          /\ m.streak = 0 /\ m.barred = 0
      BY <3>1, <1>3, HitFields DEF Clear
    <3>3. accepted \subseteq Accounts \X Codes /\ r.seen.last \in Steps
      BY <1>3 DEF CallInv, TypeOK, Factors
    <3>4. ASSUME NEW x \in accepted', x[1] = a, x[2].secret = g.secret
          PROVE  x[2].step <= g.last
      <4>1. CASE x \in accepted
        <5>1. x[2].step <= r.seen.last /\ x[2].step \in Steps
          BY <4>1, <3>4, <3>2, <2>2, <3>3 DEF Codes
        <5> QED BY <5>1, <3>2, <3>3, <1>3, <2>3, SizeAssumption DEF Steps
      <4>2. CASE x = <<a, r.code>>
        BY <4>2, <3>2, <1>3, SizeAssumption DEF Steps
      <4> QED BY <4>1, <4>2, <1>1, <2>3
    <3> QED BY <3>2, <3>4, <2>2, <1>1, <1>6 DEF Told
  <2>4. CASE ~r.hit
    <3>1. g = Miss(r.seen, r.time) /\ m = Streak(ledger[a], r.time)
      BY <2>4 DEF g, m
    <3>2. /\ g.secret = r.seen.secret /\ g.verified = r.seen.verified /\ g.last = r.seen.last
          /\ g.failed = m.streak /\ g.locked = m.barred
      BY <3>1, <1>3, <1>4, <2>2, MissFields
    <3> QED BY <3>2, <2>2, <2>4, <1>1, <1>6 DEF Told
  <2> QED BY <2>3, <2>4
<1>9. ASSUME NEW q \in Requests, req'[q].at = "put"
      PROVE  req[q] = req'[q] /\ req[q].account # a
  BY <1>9, <1>1 DEF Others, LockHeld
<1> QED BY <1>1, <1>2, <1>5, <1>6, <1>7, <1>8, <1>9, FactorsElsewhere

LEMMA StoreFirstFactors ==
  ASSUME CallInv, AccountsKept, FactorsTold, NEW p \in Requests, StoreFirst(p)
  PROVE  FactorsTold'
<1>0. req[p].account \in Accounts
  BY StoreFirstFacts, Working
<1> PICK a \in Accounts : a = req[p].account
  BY <1>0
<1> DEFINE f == NewFactor(req[p].link, FALSE, 0)
<1>1. /\ UNCHANGED <<raced, accepted, ledger, confirmed>> /\ Others(p) /\ req[p].at = "first"
      /\ a \in Accounts /\ f # None /\ factor' = [factor EXCEPT ![a] = f]
      /\ req'[p].at = "mailbox"
  BY StoreFirstFacts, Working, RequestsAssumption DEF StoreFirst, historyVars
<1>2. f.verified = FALSE /\ f.failed = 0 /\ f.locked = 0
  BY DEF NewFactor
<1> HIDE DEF f
<1>3. factor'[a] = f /\ \A x \in Accounts : x # a => factor'[x] = factor[x]
  BY <1>1 DEF CallInv, TypeOK
<1>4. factor[a] = None
  BY <1>1 DEF AccountsKept
<1>5. Blank(a)
  BY <1>1, <1>4 DEF FactorsTold
<1>6. Told(a)'
  BY <1>1, <1>2, <1>3, <1>5 DEF Told, Blank, Clear
<1>7. ASSUME NEW q \in Requests, req'[q].at = "put"
      PROVE  req[q] = req'[q] /\ req[q].account # a
  BY <1>7, <1>1, <1>4 DEF Others, AccountsKept
<1> QED BY <1>1, <1>3, <1>6, <1>7, FactorsElsewhere

\* The secret of a replacement whose link is unused was never accepted.
LEMMA WriteFactorFactors ==
  ASSUME CallInv, FactorsTold, LinksApart, NEW p \in Requests, WriteFactor(p)
  PROVE  FactorsTold'
<1>0. req[p].account \in Accounts
  BY Written
<1> PICK a \in Accounts : a = req[p].account
  BY <1>0
<1> DEFINE r == req[p]
           g == Newest(req[p])
<1>1. /\ r.at = "write" /\ Others(p) /\ req'[p].at = "unlink"
      /\ a \in Accounts /\ r.link \in Links /\ r.seen \in Factors /\ g \in Factors
      /\ r.code \in Codes /\ factor' = [factor EXCEPT ![a] = g] /\ r \in Calls /\ Busy(r)
  BY WriteFactorFacts, Written, Working
<1>2. /\ raced' = IF Overlaps(a, r.seen, r.link) THEN raced \cup {a} ELSE raced
      /\ \/ /\ r.op = "confirm" /\ confirmed' = confirmed \cup {a}
            /\ accepted' = accepted /\ ledger' = ledger
         \/ /\ r.op # "confirm" /\ confirmed' = confirmed
            /\ accepted' = accepted \cup {<<a, r.code>>}
            /\ ledger' = [ledger EXCEPT ![a] = Clear]
  BY DEF WriteFactor
<1>3. g # None /\ r.seen # None
  BY <1>1, RequestsAssumption
<1>4. /\ factor'[a] = g
      /\ \A x \in Accounts : x # a => factor'[x] = factor[x] /\ ledger'[x] = ledger[x]
      /\ r.op # "confirm" => ledger'[a] = Clear
      /\ r.op = "confirm" => ledger'[a] = ledger[a]
  <2> HIDE DEF g
  <2> QED BY <1>1, <1>2 DEF CallInv, TypeOK
<1>5. \A y : y[1] # a => (y \in accepted' <=> y \in accepted)
  BY <1>2
<1>6. /\ \A x \in Accounts : x # a => (x \in confirmed' <=> x \in confirmed)
      /\ \A x \in Accounts : x # a => (x \in raced' <=> x \in raced)
  BY <1>2
<1>7. ASSUME NEW q \in Requests, req'[q].at = "put"
      PROVE  /\ req[q] = req'[q]
             /\ req[q].account = a => a \in raced'
  BY <1>7, <1>1, <1>2 DEF Others, Overlaps
<1>8. a \in raced' \/ Told(a)'
  <2> SUFFICES ASSUME a \notin raced, ~Overlaps(a, r.seen, r.link) PROVE Told(a)'
    BY <1>2
  <2>1. r.seen = factor[a] /\ uses[r.link] = 0
    <3>1. uses[r.link] \in Nat /\ ~(uses[r.link] > 0)
      BY <1>1 DEF CallInv, TypeOK, Overlaps
    <3> QED BY <3>1 DEF Overlaps
  <2>2. Told(a)
    BY <1>1, <1>3, <2>1 DEF FactorsTold
  <2>3. /\ ledger[a].streak = r.seen.failed /\ ledger[a].barred = r.seen.locked
        /\ a \in confirmed => r.seen.verified
        /\ \A x \in accepted : x[1] = a /\ x[2].secret = r.seen.secret => x[2].step <= r.seen.last
    BY <2>1, <2>2 DEF Told
  <2>4. CASE r.op = "confirm"
    <3>1. /\ g.secret = r.seen.secret /\ g.verified = TRUE /\ g.failed = r.seen.failed
          /\ g.locked = r.seen.locked /\ g.last = r.seen.last
      BY <1>1, <2>4 DEF Newest, Factors
    <3>2. accepted' = accepted /\ ledger'[a] = ledger[a]
      BY <1>2, <1>4, <2>4
    <3> HIDE DEF g
    <3> QED BY <3>1, <3>2, <2>3, <1>4 DEF Told
  <2>5. CASE r.op # "confirm"
    <3>1. g = NewFactor(r.link, r.seen.verified, r.code.step)
      BY <2>5 DEF Newest
    <3>2. /\ g.secret = r.link /\ g.verified = r.seen.verified /\ g.failed = 0
          /\ g.locked = 0 /\ g.last = r.code.step
      BY <3>1, NewFactorFields
    <3>3. r.code.secret = r.link /\ r.code.step > 0 /\ r.code.step \in Steps
      BY <1>1, <2>5 DEF Busy, Linked, Codes
    <3>4. ASSUME NEW x \in accepted, x[1] = a, x[2].secret = r.link
          PROVE  x[2].step <= r.code.step
      <4>1. CASE r.op = "register"
        <5>1. r.seen = NewFactor(r.link, FALSE, 0)
          BY <1>1, <4>1 DEF Busy
        <5>2. r.seen.secret = r.link /\ r.seen.last = 0
          BY <5>1 DEF NewFactor
        <5>3. x[2].step <= 0 /\ x[2].step \in Steps
          BY <5>2, <3>4, <2>3 DEF CallInv, TypeOK, Codes
        <5> QED BY <5>3, <3>3, SizeAssumption DEF Steps
      <4>2. CASE r.op = "replace"
        <5>1. Replaces(r.link)
          BY <4>2 DEF Replaces
        <5>2. Enrols(r.link)
          BY <3>4 DEF Enrols
        <5> QED BY <5>1, <5>2, <2>1, <1>1 DEF LinksApart
      <4> QED BY <4>1, <4>2, <1>1, <2>5 DEF Busy
    <3>5. accepted' = accepted \cup {<<a, r.code>>} /\ ledger'[a] = Clear /\ confirmed' = confirmed
      BY <1>2, <1>4, <2>5
    <3>6. ASSUME NEW x \in accepted', x[1] = a, x[2].secret = g.secret
          PROVE  x[2].step <= g.last
      <4>1. CASE x \in accepted
        BY <4>1, <3>6, <3>2, <3>4
      <4>2. CASE x = <<a, r.code>>
        BY <4>2, <3>2, <3>3, SizeAssumption DEF Steps
      <4> QED BY <4>1, <4>2, <3>5
    <3> HIDE DEF g
    <3> QED BY <3>2, <3>5, <3>6, <2>3, <1>4 DEF Told, Clear
  <2> QED BY <2>4, <2>5
<1> HIDE DEF g
<1> QED BY <1>1, <1>3, <1>4, <1>5, <1>6, <1>7, <1>8, FactorsElsewhere

LEMMA DeleteFactorFactors ==
  ASSUME CallInv, FactorsTold, NEW p \in Requests, DeleteFactor(p)
  PROVE  FactorsTold'
<1>0. req[p].account \in Accounts
  BY DeleteFactorFacts
<1> PICK a \in Accounts : a = req[p].account
  BY <1>0
<1>1. /\ factor' = [factor EXCEPT ![a] = None] /\ Forget(a)
      /\ raced' = IF \E q \in Requests : req[q].at = "put" /\ req[q].account = a
                  THEN raced \cup {a} ELSE raced
  BY DEF DeleteFactor
<1>2. ASSUME NEW q \in Requests, req'[q].at = "put"
      PROVE  req[q] = req'[q] /\ (req[q].account = a => a \in raced')
  <2>1. req'[q] = req[q]
    BY <1>2, DeleteFactorFacts DEF Others
  <2> QED BY <2>1, <1>1, <1>2
<1>3. \A x \in Accounts : x # a => (x \in raced' <=> x \in raced)
  BY <1>1
<1>4. /\ factor'[a] = None /\ Blank(a)'
      /\ \A x \in Accounts : x # a => factor'[x] = factor[x] /\ ledger'[x] = ledger[x]
      /\ \A x \in Accounts : x # a => (x \in confirmed' <=> x \in confirmed)
      /\ \A y : y[1] # a => (y \in accepted' <=> y \in accepted)
  BY <1>1, Forgotten
<1> QED BY <1>2, <1>3, <1>4, FactorsElsewhere

LEMMA DeleteAccountFactors ==
  ASSUME CallInv, FactorsTold, NEW p \in Requests, DeleteAccount(p)
  PROVE  FactorsTold'
<1>0. req[p].account \in Accounts
  BY DeleteAccountFacts
<1> PICK a \in Accounts : a = req[p].account
  BY <1>0
<1>1. factor' = [factor EXCEPT ![a] = None] /\ Forget(a) /\ raced' = raced
  BY DEF DeleteAccount
<1>2. ASSUME NEW q \in Requests, req'[q].at = "put"
      PROVE  req[q] = req'[q] /\ req[q].account # a
  <2>1. req'[q] # Idle
    BY <1>2, IdleCall
  <2>2. req'[q] = req[q]
    BY <2>1, DeleteAccountFacts
  <2>3. req[q].op = "verify"
    BY <1>2, <2>2, Working DEF Busy
  <2> QED BY <2>1, <2>2, <2>3, DeleteAccountFacts
<1>3. /\ factor'[a] = None /\ Blank(a)'
      /\ \A x \in Accounts : x # a => factor'[x] = factor[x] /\ ledger'[x] = ledger[x]
      /\ \A x \in Accounts : x # a => (x \in confirmed' <=> x \in confirmed)
      /\ \A y : y[1] # a => (y \in accepted' <=> y \in accepted)
  BY <1>1, Forgotten
<1> QED BY <1>1, <1>2, <1>3, FactorsElsewhere

LEMMA FactorsNext ==
  ASSUME CallInv, LockHeld, AccountsKept, FactorsTold, LinksApart, [Next]_vars
  PROVE  FactorsTold'
<1> DEFINE Kept == UNCHANGED <<factor, raced, accepted, ledger, confirmed>>
<1>1. CASE Tick \/ UNCHANGED vars
  BY <1>1, FactorsSame DEF Tick, vars, storeVars, historyVars
<1>2. CASE Crash
  <2>1. Kept /\ \A q \in Requests : req'[q].at # "put"
    BY <1>2, CrashFacts, IdleCall DEF Crash, storeVars
  <2> QED BY <2>1 DEF FactorsTold, Told, Blank
<1>3. ASSUME NEW a \in Accounts, BeginRegistration(a) \/ RequestRecovery(a)
      PROVE  FactorsTold'
  BY <1>3, FactorsSame DEF BeginRegistration, RequestRecovery, historyVars
<1>4. ASSUME NEW p \in Requests, NEW a \in Accounts, NEW c \in Codes, BeginVerify(p, a, c)
      PROVE  FactorsTold'
  <2>1. Kept
    BY <1>4 DEF BeginVerify, Begin, storeVars, historyVars
  <2> QED BY <1>4, <2>1, BeginVerifyFacts, FactorsApart
<1>5. ASSUME NEW p \in Requests, NEW l \in Links, BeginConfirm(p, l)
      PROVE  FactorsTold'
  <2>1. Kept
    BY <1>5 DEF BeginConfirm, Begin, storeVars, historyVars
  <2> QED BY <1>5, <2>1, BeginConfirmFacts, FactorsApart
<1>6. ASSUME NEW p \in Requests, NEW l \in Links, NEW c \in Codes, BeginComplete(p, l, c)
      PROVE  FactorsTold'
  <2>1. Kept
    BY <1>6 DEF BeginComplete, Begin, storeVars, historyVars
  <2>2. Others(p) /\ req'[p].at \in {"create", "reread"}
    BY <1>6, BeginCompleteFacts
  <2> QED BY <2>1, <2>2, FactorsApart
<1>7. ASSUME NEW p \in Requests, Examine(p)
      PROVE  FactorsTold'
  <2>1. Kept
    BY <1>7 DEF Examine, storeVars, historyVars
  <2> QED BY <1>7, <2>1, ExamineFacts, FactorsApart, IdleCall DEF Keeps
<1>8. ASSUME NEW p \in Requests,
             \/ Issue(p) \/ CreateAccount(p) \/ StoreMailbox(p)
             \/ Reread(p) \/ RefuseLate(p) \/ Unlink(p) \/ Fail(p)
      PROVE  FactorsTold'
  <2>1. Kept
    BY <1>8 DEF Issue, CreateAccount, StoreMailbox, Reread, RefuseLate, Unlink, Fail, storeVars, historyVars
  <2>2. Others(p) /\ req'[p].at # "put"
    <3>1. CASE Issue(p) \/ CreateAccount(p) \/ StoreMailbox(p)
      BY <3>1, IssueFacts, CreateAccountFacts, StoreMailboxFacts, IdleCall
    <3>2. CASE Reread(p) \/ RefuseLate(p)
      BY <3>2, RereadFacts, RefuseLateFacts, IdleCall
    <3>3. CASE Unlink(p) \/ Fail(p)
      BY <3>3, AfterUnlinkFacts, FailFacts, IdleCall DEF Unlink
    <3> QED BY <1>8, <3>1, <3>2, <3>3
  <2> QED BY <2>1, <2>2, FactorsApart
<1>9. ASSUME NEW p \in Requests, Works(p)
      PROVE  FactorsTold'
  BY <1>9, <1>7, <1>8, RecordFactors, StoreFirstFactors, WriteFactorFactors,
     DeleteFactorFactors, DeleteAccountFactors DEF Works
<1> QED BY <1>1, <1>2, <1>3, <1>4, <1>5, <1>6, <1>9, NextKinds

-----------------------------------------------------------------------------
(* Links and their secrets.                                                *)

\* A step of one request p that stores no factor and accepts no code.
LEMMA EnrolsFewer ==
  ASSUME NEW p \in Requests, Others(p), factor' = factor, accepted' = accepted,
         \/ req'[p].seen = None \/ req'[p].seen = req[p].seen
         \/ req[p].account \in Accounts /\ req'[p].seen = factor[req[p].account],
         req'[p].op = "register"
           => req'[p].link = None \/ (req[p].op = "register" /\ req'[p].link = req[p].link),
         NEW s \in Links, Enrols(s)'
  PROVE  Enrols(s)
<1>1. CASE \E a \in Accounts : factor'[a] # None /\ factor'[a].secret = s
  BY <1>1 DEF Enrols
<1>2. CASE \E x \in accepted' : x[2].secret = s
  BY <1>2 DEF Enrols
<1>3. ASSUME NEW q \in Requests, req'[q].seen # None /\ req'[q].seen.secret = s
      PROVE  Enrols(s)
  <2>1. CASE q # p
    BY <1>3, <2>1 DEF Enrols, Others
  <2>2. CASE q = p
    BY <1>3, <2>2 DEF Enrols
  <2> QED BY <2>1, <2>2
<1>4. ASSUME NEW q \in Requests, req'[q].op = "register" /\ req'[q].link = s
      PROVE  Enrols(s)
  <2>1. s # None
    BY SizeAssumption DEF Links
  <2> QED BY <1>4, <2>1 DEF Enrols, Others
<1> QED BY <1>1, <1>2, <1>3, <1>4 DEF Enrols

LEMMA ReplacesFewer ==
  ASSUME NEW p \in Requests, Others(p), \A l \in Links : link'[l] = link[l] \/ link'[l] = None,
         req'[p].op = "replace"
           => req'[p].link = None \/ (req[p].op = "replace" /\ req'[p].link = req[p].link),
         NEW s \in Links, Replaces(s)'
  PROVE  Replaces(s)
<1>1. s # None
  BY SizeAssumption DEF Links
<1>2. CASE link'[s] # None /\ link'[s].kind \in {"rotation", "recovery"}
  BY <1>2 DEF Replaces
<1>3. ASSUME NEW q \in Requests, req'[q].op = "replace" /\ req'[q].link = s
      PROVE  Replaces(s)
  BY <1>1, <1>3 DEF Replaces, Others
<1> QED BY <1>2, <1>3 DEF Replaces

\* A step that issues no link and puts no new secret or replacement in play.
LEMMA LinksStay ==
  ASSUME CallInv, LinksApart, issued' = issued, uses' = uses,
         \A l \in Links : link'[l] = link[l] \/ link'[l] = None,
         \A s \in Links : Enrols(s)' => Enrols(s),
         \A s \in Links : Replaces(s)' => Replaces(s),
         \A q \in Requests :
           \/ req'[q].link = None
           \/ /\ req'[q].link = req[q].link /\ req'[q].account = req[q].account
              /\ req'[q].op = "register" <=> req[q].op = "register"
              /\ req'[q].op = "confirm" <=> req[q].op = "confirm"
  PROVE  LinksApart'
<1>1. \A l \in Links : l > issued' => link'[l] = None /\ uses'[l] = 0 /\ ~Enrols(l)'
  BY DEF LinksApart
<1>2. \A l \in Links : uses'[l] = 0 => ~(Enrols(l)' /\ Replaces(l)')
  BY DEF LinksApart
<1>3. ASSUME NEW q \in Requests, req'[q].link # None
      PROVE  /\ req'[q].link <= issued'
             /\ link'[req'[q].link] # None => Fits(req'[q], link'[req'[q].link])
  <2>1. /\ req'[q].link = req[q].link /\ req'[q].account = req[q].account
        /\ req'[q].op = "register" <=> req[q].op = "register"
        /\ req'[q].op = "confirm" <=> req[q].op = "confirm"
    BY <1>3
  <2>2. req[q].link \in Links
    BY <1>3, <2>1 DEF CallInv, TypeOK, Calls
  <2>3. /\ req[q].link <= issued
        /\ link[req[q].link] # None => Fits(req[q], link[req[q].link])
    BY <1>3, <2>1 DEF LinksApart
  <2> QED BY <2>1, <2>2, <2>3 DEF Fits
<1> QED BY <1>1, <1>2, <1>3 DEF LinksApart

\* A step of one request that stores no factor, accepts no code and issues no link.
LEMMA LinksQuiet ==
  ASSUME CallInv, LinksApart, NEW p \in Requests, Others(p),
         UNCHANGED <<factor, accepted, issued, uses>>,
         \A l \in Links : link'[l] = link[l] \/ link'[l] = None,
         \/ req'[p].seen = None \/ req'[p].seen = req[p].seen
         \/ req[p].account \in Accounts /\ req'[p].seen = factor[req[p].account],
         \/ req'[p].link = None
         \/ /\ req'[p].link = req[p].link /\ req'[p].op = req[p].op
            /\ req'[p].account = req[p].account
  PROVE  LinksApart'
<1>1. \A s \in Links : Enrols(s)' => Enrols(s)
  BY EnrolsFewer
<1>2. \A s \in Links : Replaces(s)' => Replaces(s)
  BY ReplacesFewer
<1>3. \A q \in Requests :
        \/ req'[q].link = None
        \/ /\ req'[q].link = req[q].link /\ req'[q].op = req[q].op
           /\ req'[q].account = req[q].account
  BY DEF Others
<1> QED BY <1>1, <1>2, <1>3, LinksStay

LEMMA LinksSame ==
  ASSUME LinksApart, UNCHANGED <<factor, accepted, issued, uses, link, req>>
  PROVE  LinksApart'
BY DEF LinksApart, Enrols, Replaces

\* A new link: its secret is nobody's yet.
LEMMA PutLinkApart ==
  ASSUME CallInv, LinksApart, NEW k \in Kinds, NEW a \in Accounts, PutLink(k, a),
         UNCHANGED <<factor, accepted, uses>>,
         \A q \in Requests : req'[q] = req[q] \/ req'[q] = Idle
  PROVE  LinksApart'
<1>1. /\ issued + 1 \in Links /\ issued' = issued + 1 /\ issued \in Nat
      /\ link'[issued + 1] \in Tokens /\ link'[issued + 1].kind = k
      /\ \A l \in Links : l # issued + 1 => link'[l] = link[l]
  BY PutLinkFacts DEF CallInv, TypeOK
<1>2. ASSUME NEW s \in Links, Enrols(s)' PROVE Enrols(s)
  <2>1. s # None /\ Idle.link = None /\ Idle.seen = None
    BY IdleCall, SizeAssumption DEF Links
  <2> QED BY <2>1, <1>2 DEF Enrols
<1>3. ASSUME NEW s \in Links, s # issued + 1, Replaces(s)' PROVE Replaces(s)
  <2>1. s # None /\ Idle.link = None
    BY IdleCall, SizeAssumption DEF Links
  <2> QED BY <2>1, <1>1, <1>3 DEF Replaces
<1>4. issued + 1 > issued /\ ~Enrols(issued + 1)
  BY <1>1 DEF LinksApart
<1>5. ASSUME NEW l \in Links, l > issued'
      PROVE  link'[l] = None /\ uses'[l] = 0 /\ ~Enrols(l)'
  <2>1. l > issued /\ l # issued + 1
    BY <1>1, <1>5 DEF Links
  <2> QED BY <2>1, <1>1, <1>2 DEF LinksApart
<1>6. ASSUME NEW l \in Links, uses'[l] = 0
      PROVE  ~(Enrols(l)' /\ Replaces(l)')
  BY <1>2, <1>3, <1>4, <1>6 DEF LinksApart
<1>7. ASSUME NEW q \in Requests, req'[q].link # None
      PROVE  /\ req'[q].link <= issued'
             /\ link'[req'[q].link] # None => Fits(req'[q], link'[req'[q].link])
  <2>1. req'[q] = req[q]
    BY <1>7, IdleCall
  <2>2. req[q].link \in Links /\ req[q].link <= issued
    BY <1>7, <2>1 DEF CallInv, TypeOK, Calls, LinksApart
  <2>3. req[q].link # issued + 1 /\ req[q].link <= issued + 1
    BY <2>2, <1>1 DEF Links
  <2> QED BY <2>1, <2>2, <2>3, <1>1, <1>7 DEF LinksApart
<1> QED BY <1>5, <1>6, <1>7 DEF LinksApart

LEMMA BeginConfirmLinks ==
  ASSUME CallInv, LinksApart, NEW p \in Requests, NEW l \in Links, BeginConfirm(p, l)
  PROVE  LinksApart'
<1>1. UNCHANGED <<factor, accepted, issued, uses, link>>
  BY DEF BeginConfirm, Begin, storeVars, historyVars
<1>2. /\ Others(p) /\ req'[p].op = "confirm" /\ req'[p].link = l /\ req'[p].seen = None
      /\ req'[p].account = link[l].account /\ link[l] # None /\ link[l].kind = "confirm"
  BY BeginConfirmFacts, RequestsAssumption
<1>3. \A s \in Links : Enrols(s)' => Enrols(s)
  BY <1>1, <1>2, EnrolsFewer
<1>4. \A s \in Links : Replaces(s)' => Replaces(s)
  BY <1>1, <1>2, ReplacesFewer
<1>5. l <= issued
  BY <1>2 DEF LinksApart, CallInv, TypeOK, Links
<1>6. ASSUME NEW q \in Requests, req'[q].link # None
      PROVE  /\ req'[q].link <= issued
             /\ link[req'[q].link] # None => Fits(req'[q], link[req'[q].link])
  <2>1. CASE q = p
    BY <2>1, <1>2, <1>5 DEF Fits
  <2>2. CASE q # p
    BY <2>2, <1>2, <1>6 DEF Others, LinksApart
  <2> QED BY <2>1, <2>2
<1> QED BY <1>1, <1>3, <1>4, <1>6 DEF LinksApart

LEMMA BeginCompleteLinks ==
  ASSUME CallInv, LinksApart, NEW p \in Requests, NEW l \in Links, NEW c \in Codes,
         BeginComplete(p, l, c)
  PROVE  LinksApart'
<1>1. UNCHANGED <<factor, accepted, issued, uses, link>>
  BY DEF BeginComplete, Begin, storeVars, historyVars
<1>2. /\ Others(p) /\ req'[p].link = l /\ req'[p].seen = None
      /\ req'[p].account = link[l].account /\ link[l] \in Tokens /\ link[l] # None /\ link[l].kind # "confirm"
      /\ req'[p].op = IF link[l].kind = "registration" THEN "register" ELSE "replace"
  BY BeginCompleteFacts, RequestsAssumption
<1>3. l <= issued /\ l # None
  BY <1>2, SizeAssumption DEF LinksApart, CallInv, TypeOK, Links
<1>4. ASSUME NEW q \in Requests, req'[q].link # None
      PROVE  /\ req'[q].link <= issued
             /\ link[req'[q].link] # None => Fits(req'[q], link[req'[q].link])
  <2>1. CASE q = p
    BY <2>1, <1>2, <1>3 DEF Fits
  <2>2. CASE q # p
    BY <2>2, <1>2, <1>4 DEF Others, LinksApart
  <2> QED BY <2>1, <2>2
<1>5. CASE link[l].kind = "registration"
  <2>1. req'[p].op = "register"
    BY <1>2, <1>5
  <2>2. \A s \in Links : Replaces(s)' => Replaces(s)
    BY <1>1, <1>2, <2>1, ReplacesFewer
  <2>3. \A s \in Links : s # l /\ Enrols(s)' => Enrols(s)
    BY <1>1, <1>2 DEF Enrols, Others
  <2>4. ~Replaces(l)
    <3>1. ASSUME NEW q \in Requests, req[q].op = "replace" /\ req[q].link = l
          PROVE  FALSE
      BY <3>1, <1>2, <1>3, <1>5 DEF LinksApart, Fits
    <3> QED BY <3>1, <1>5 DEF Replaces
  <2>5. ~(l > issued)
    BY <1>3 DEF CallInv, TypeOK, Links
  <2>6. \A s \in Links : s > issued => link[s] = None /\ uses[s] = 0 /\ ~Enrols(s)'
    BY <2>3, <2>5 DEF LinksApart
  <2>7. \A s \in Links : uses[s] = 0 => ~(Enrols(s)' /\ Replaces(s)')
    BY <2>2, <2>3, <2>4 DEF LinksApart
  <2> QED BY <1>1, <1>4, <2>6, <2>7 DEF LinksApart
<1>6. CASE link[l].kind # "registration"
  <2>1. req'[p].op = "replace" /\ Replaces(l)
    BY <1>2, <1>6 DEF Replaces, Tokens, Kinds
  <2>2. \A s \in Links : Enrols(s)' => Enrols(s)
    BY <1>1, <1>2, <2>1, EnrolsFewer
  <2>3. \A s \in Links : Replaces(s)' => Replaces(s)
    BY <1>1, <1>2, <2>1 DEF Replaces, Others
  <2> QED BY <1>1, <1>4, <2>2, <2>3 DEF LinksApart
<1> QED BY <1>5, <1>6

\* Verify writes back the secret it saw.
LEMMA RecordLinks ==
  ASSUME CallInv, LinksApart, NEW p \in Requests, Record(p)
  PROVE  LinksApart'
<1> DEFINE r == req[p]
           a == req[p].account
           g == IF r.hit THEN Hit(r.seen, r.code.step) ELSE Miss(r.seen, r.time)
<1>1. /\ r.at = "put" /\ Others(p)
      /\ factor' = [factor EXCEPT ![a] = g]
      /\ accepted' = IF r.hit THEN accepted \cup {<<a, r.code>>} ELSE accepted
      /\ UNCHANGED <<link, issued, uses>>
      /\ \/ req'[p] = Idle
         \/ /\ req'[p].op \in {"rotate", "address"} /\ req'[p].account = a
            /\ req'[p].link = r.link /\ req'[p].seen = r.seen
  BY RecordFacts DEF Record
<1>2. /\ r \in Calls /\ r.op = "verify" /\ a \in Accounts /\ r.seen \in Factors
      /\ r.hit => r.code.secret = r.seen.secret
  BY <1>1, Working DEF Busy
<1>3. g.secret = r.seen.secret
  <2>1. r.hit \in BOOLEAN
    BY <1>2 DEF Calls
  <2>2. CASE r.hit
    BY <2>2, <1>2 DEF Hit, Factors
  <2>3. CASE ~r.hit
    BY <2>3, <1>2 DEF Miss, Factors
  <2> QED BY <2>1, <2>2, <2>3
<1> HIDE DEF g
<1>4. factor'[a] = g /\ \A x \in Accounts : x # a => factor'[x] = factor[x]
  BY <1>1, <1>2 DEF CallInv, TypeOK
<1>5. ASSUME NEW s \in Links, Enrols(s)' PROVE Enrols(s)
  <2>1. s # None /\ Idle.link = None /\ Idle.seen = None /\ r.seen # None
    BY <1>2, IdleCall, SizeAssumption, RequestsAssumption DEF Links
  <2>2. r.seen.secret = s => Enrols(s)
    BY <2>1 DEF Enrols
  <2>3. CASE \E x \in Accounts : factor'[x] # None /\ factor'[x].secret = s
    BY <2>2, <2>3, <1>3, <1>4 DEF Enrols
  <2>4. CASE \E x \in accepted' : x[2].secret = s
    BY <2>2, <2>4, <1>1, <1>2 DEF Enrols
  <2>5. ASSUME NEW q \in Requests,
               \/ req'[q].seen # None /\ req'[q].seen.secret = s
               \/ req'[q].op = "register" /\ req'[q].link = s
        PROVE  Enrols(s)
    <3>1. CASE q = p
      BY <3>1, <2>1, <2>2, <2>5, <1>1
    <3>2. CASE q # p
      BY <3>2, <2>5, <1>1 DEF Others, Enrols
    <3> QED BY <3>1, <3>2
  <2> QED BY <1>5, <2>3, <2>4, <2>5 DEF Enrols
<1>6. \A s \in Links : Replaces(s)' => Replaces(s)
  BY <1>1, IdleCall, ReplacesFewer
<1>7. ASSUME NEW q \in Requests
      PROVE  \/ req'[q].link = None
             \/ /\ req'[q].link = req[q].link /\ req'[q].account = req[q].account
                /\ req'[q].op = "register" <=> req[q].op = "register"
                /\ req'[q].op = "confirm" <=> req[q].op = "confirm"
  BY <1>1, <1>2, IdleCall DEF Others
<1> QED BY <1>1, <1>5, <1>6, <1>7, LinksStay

LEMMA StoreFirstLinks ==
  ASSUME CallInv, LinksApart, NEW p \in Requests, StoreFirst(p)
  PROVE  LinksApart'
<1> DEFINE a == req[p].account
           f == NewFactor(req[p].link, FALSE, 0)
<1>1. /\ UNCHANGED <<accepted, issued, uses, link>> /\ Others(p)
      /\ a \in Accounts /\ factor' = [factor EXCEPT ![a] = f]
      /\ req'[p].seen = f /\ Keeps(p) /\ req[p].op = "register"
  BY StoreFirstFacts, Working DEF StoreFirst, historyVars
<1>2. f.secret = req[p].link
  BY DEF NewFactor
<1> HIDE DEF f
<1>3. factor'[a] = f /\ \A x \in Accounts : x # a => factor'[x] = factor[x]
  BY <1>1 DEF CallInv, TypeOK
<1>4. ASSUME NEW s \in Links, Enrols(s)' PROVE Enrols(s)
  <2>1. f.secret = s => Enrols(s)
    BY <1>1, <1>2 DEF Enrols
  <2>2. CASE \E x \in Accounts : factor'[x] # None /\ factor'[x].secret = s
    BY <2>1, <2>2, <1>3 DEF Enrols
  <2>3. CASE \E x \in accepted' : x[2].secret = s
    BY <2>3, <1>1 DEF Enrols
  <2>4. ASSUME NEW q \in Requests,
               \/ req'[q].seen # None /\ req'[q].seen.secret = s
               \/ req'[q].op = "register" /\ req'[q].link = s
        PROVE  Enrols(s)
    <3>1. CASE q = p
      BY <3>1, <2>1, <2>4, <1>1, <1>2 DEF Keeps
    <3>2. CASE q # p
      BY <3>2, <2>4, <1>1 DEF Others, Enrols
    <3> QED BY <3>1, <3>2
  <2> QED BY <1>4, <2>2, <2>3, <2>4 DEF Enrols
<1>5. \A s \in Links : Replaces(s)' => Replaces(s)
  BY <1>1, ReplacesFewer DEF Keeps
<1>6. \A q \in Requests :
        req'[q].link = req[q].link /\ req'[q].op = req[q].op /\ req'[q].account = req[q].account
  BY <1>1 DEF Others, Keeps
<1> QED BY <1>1, <1>4, <1>5, <1>6, LinksStay

\* The secret of a replacement becomes an account's when its link is used.
LEMMA WriteFactorLinks ==
  ASSUME CallInv, LinksApart, NEW p \in Requests, WriteFactor(p)
  PROVE  LinksApart'
<1>0. req[p].link \in Links
  BY Written
<1> PICK l \in Links : l = req[p].link
  BY <1>0
<1> DEFINE r == req[p]
           a == req[p].account
           g == Newest(req[p])
<1>1. /\ Others(p) /\ Keeps(p) /\ req'[p].seen = r.seen
      /\ a \in Accounts /\ r.seen \in Factors
      /\ factor' = [factor EXCEPT ![a] = g]
      /\ accepted' = accepted \/ (r.op # "confirm" /\ accepted' = accepted \cup {<<a, r.code>>})
      /\ UNCHANGED <<link, issued>>
      /\ uses' = [uses EXCEPT ![l] = @ + 1]
  BY WriteFactorFacts, Written DEF WriteFactor
<1>2. g.secret = l \/ g.secret = r.seen.secret
  BY <1>1 DEF Newest, NewFactor, Factors
<1>3. r.op # "confirm" => r.code.secret = l
  BY WriteFactorFacts, Working DEF Busy, Linked
<1> HIDE DEF g
<1>4. factor'[a] = g /\ \A x \in Accounts : x # a => factor'[x] = factor[x]
  BY <1>1 DEF CallInv, TypeOK
<1>5. ASSUME NEW s \in Links, s # l, Enrols(s)' PROVE Enrols(s)
  <2>1. r.seen.secret = s => Enrols(s)
    BY <1>1, RequestsAssumption DEF Enrols
  <2>2. CASE \E x \in Accounts : factor'[x] # None /\ factor'[x].secret = s
    BY <2>1, <2>2, <1>5, <1>2, <1>4 DEF Enrols
  <2>3. CASE \E x \in accepted' : x[2].secret = s
    BY <2>3, <1>1, <1>3, <1>5 DEF Enrols
  <2>4. ASSUME NEW q \in Requests,
               \/ req'[q].seen # None /\ req'[q].seen.secret = s
               \/ req'[q].op = "register" /\ req'[q].link = s
        PROVE  Enrols(s)
    BY <2>4, <1>1 DEF Others, Keeps, Enrols
  <2> QED BY <1>5, <2>2, <2>3, <2>4 DEF Enrols
<1>6. \A s \in Links : Replaces(s)' => Replaces(s)
  BY <1>1, ReplacesFewer DEF Keeps
<1>7. \A q \in Requests :
        req'[q].link = req[q].link /\ req'[q].op = req[q].op /\ req'[q].account = req[q].account
  BY <1>1 DEF Others, Keeps
<1>8. uses'[l] > 0 /\ \A s \in Links : s # l => uses'[s] = uses[s]
  BY <1>1 DEF CallInv, TypeOK
<1>9. l <= issued /\ ~(l > issued) /\ uses'[l] # 0
  <2>1. l # None /\ l \in Nat /\ issued \in Nat
    <3>1. MaxLinks \in Nat /\ None \notin Nat
      BY SizeAssumption
    <3>2. l \in Nat
      BY <3>1 DEF Links
    <3>3. issued \in 0 .. MaxLinks
      BY DEF CallInv, TypeOK
    <3> QED BY <3>1, <3>2, <3>3
  <2>2. l <= issued
    BY <2>1 DEF LinksApart
  <2> QED BY <2>1, <2>2, <1>8
<1>10. \A s \in Links : s > issued' => link'[s] = None /\ uses'[s] = 0 /\ ~Enrols(s)'
  BY <1>1, <1>5, <1>8, <1>9 DEF LinksApart
<1>11. \A s \in Links : uses'[s] = 0 => ~(Enrols(s)' /\ Replaces(s)')
  BY <1>5, <1>6, <1>8, <1>9 DEF LinksApart
<1>12. \A q \in Requests :
         req'[q].link # None
         => /\ req'[q].link <= issued'
            /\ link'[req'[q].link] # None => Fits(req'[q], link'[req'[q].link])
  BY <1>1, <1>7 DEF LinksApart, Fits
<1> QED BY <1>10, <1>11, <1>12 DEF LinksApart

\* Deleting a factor or an account puts no secret in play.
LEMMA DeleteLinks ==
  ASSUME CallInv, LinksApart, NEW p \in Requests, DeleteFactor(p) \/ DeleteAccount(p)
  PROVE  LinksApart'
<1>1. /\ req[p].account \in Accounts /\ Forget(req[p].account)
      /\ factor' = [factor EXCEPT ![req[p].account] = None]
      /\ UNCHANGED <<issued, uses>>
  BY DeleteFactorFacts, DeleteAccountFacts DEF DeleteFactor, DeleteAccount
<1>2. \A l \in Links : link'[l] = link[l] \/ link'[l] = None
  BY DEF DeleteFactor, DeleteAccount
<1>3. /\ accepted' \subseteq accepted
      /\ \A x \in Accounts : factor'[x] = factor[x] \/ factor'[x] = None
  BY <1>1, Forgotten
<1>4. \A q \in Requests :
        \/ req'[q] = Idle
        \/ /\ req'[q].op = req[q].op /\ req'[q].link = req[q].link
           /\ req'[q].account = req[q].account /\ req'[q].seen = req[q].seen
  BY DeleteFactorFacts, DeleteAccountFacts DEF Others, Keeps
<1>5. ASSUME NEW s \in Links
      PROVE  (Enrols(s)' => Enrols(s)) /\ (Replaces(s)' => Replaces(s))
  <2>1. s # None /\ Idle.link = None /\ Idle.seen = None
    BY IdleCall, SizeAssumption DEF Links
  <2>2. Enrols(s)' => Enrols(s)
    BY <2>1, <1>3, <1>4 DEF Enrols
  <2>3. Replaces(s)' => Replaces(s)
    BY <2>1, <1>2, <1>4 DEF Replaces
  <2> QED BY <2>2, <2>3
<1> QED BY <1>1, <1>2, <1>4, <1>5, IdleCall, LinksStay

LEMMA CrashLinks ==
  ASSUME CallInv, LinksApart, Crash
  PROVE  LinksApart'
<1>1. UNCHANGED <<factor, accepted, link, issued, uses>> /\ \A q \in Requests : req'[q] = Idle
  BY CrashFacts DEF Crash, storeVars
<1>2. ASSUME NEW s \in Links
      PROVE  (Enrols(s)' => Enrols(s)) /\ (Replaces(s)' => Replaces(s))
  <2>1. s # None /\ Idle.link = None /\ Idle.seen = None
    BY IdleCall, SizeAssumption DEF Links
  <2> QED BY <2>1, <1>1 DEF Enrols, Replaces
<1> QED BY <1>1, <1>2, IdleCall, LinksStay

LEMMA LinksNext ==
  ASSUME CallInv, LinksApart, [Next]_vars
  PROVE  LinksApart'
<1> DEFINE Kept == UNCHANGED <<factor, accepted, issued, uses>>
<1>1. CASE Tick \/ UNCHANGED vars
  BY <1>1, LinksSame DEF Tick, vars, storeVars, historyVars
<1>2. ASSUME NEW a \in Accounts, BeginRegistration(a) \/ RequestRecovery(a)
      PROVE  LinksApart'
  <2>1. PICK k \in Kinds : PutLink(k, a)
    BY <1>2 DEF BeginRegistration, RequestRecovery, Kinds
  <2>2. UNCHANGED <<factor, accepted, uses, req>>
    BY <1>2 DEF BeginRegistration, RequestRecovery, historyVars
  <2> QED BY <2>1, <2>2, PutLinkApart
<1>3. ASSUME NEW p \in Requests, NEW a \in Accounts, NEW c \in Codes, BeginVerify(p, a, c)
      PROVE  LinksApart'
  <2>1. Kept /\ link' = link
    BY <1>3 DEF BeginVerify, Begin, storeVars, historyVars
  <2> QED BY <1>3, <2>1, BeginVerifyFacts, LinksQuiet
<1>4. ASSUME NEW p \in Requests, Examine(p)
      PROVE  LinksApart'
  <2>1. Kept /\ link' = link /\ req[p].account \in Accounts
    BY <1>4, ExamineFacts, Working DEF Examine, storeVars, historyVars
  <2> QED BY <1>4, <2>1, ExamineFacts, LinksQuiet, IdleCall DEF Keeps
<1>5. ASSUME NEW p \in Requests, Issue(p)
      PROVE  LinksApart'
  <2>1. /\ UNCHANGED <<factor, accepted, uses>> /\ req[p].account \in Accounts
        /\ Others(p) /\ req'[p] = Idle
    BY <1>5, IssueFacts, Working DEF Issue, historyVars
  <2>2. CASE issued < MaxLinks
    <3>1. PICK k \in Kinds : PutLink(k, req[p].account)
      BY <1>5, <2>2 DEF Issue, Kinds
    <3> QED BY <2>1, <3>1, PutLinkApart DEF Others
  <2>3. CASE ~(issued < MaxLinks)
    BY <1>5, <2>1, <2>3, LinksQuiet, IdleCall DEF Issue
  <2> QED BY <2>2, <2>3
<1>6. ASSUME NEW p \in Requests,
             \/ CreateAccount(p) \/ StoreMailbox(p) \/ Reread(p) \/ RefuseLate(p)
             \/ Unlink(p) \/ Fail(p)
      PROVE  LinksApart'
  <2>1. Kept
    BY <1>6 DEF CreateAccount, StoreMailbox, Reread, RefuseLate, Unlink, Fail, storeVars, historyVars
  <2>2. \A l \in Links : link'[l] = link[l] \/ link'[l] = None
    <3>1. CASE Unlink(p)
      BY <3>1 DEF Unlink, CallInv, TypeOK
    <3>2. CASE ~Unlink(p)
      BY <1>6, <3>2 DEF CreateAccount, StoreMailbox, Reread, RefuseLate, Fail, storeVars
    <3> QED BY <3>1, <3>2
  <2>3. /\ Others(p)
        /\ \/ req'[p] = Idle
           \/ /\ Keeps(p)
              /\ \/ req'[p].seen = req[p].seen
                 \/ req[p].account \in Accounts /\ req'[p].seen = factor[req[p].account]
    <3>1. CASE CreateAccount(p) \/ StoreMailbox(p) \/ RefuseLate(p)
      BY <3>1, CreateAccountFacts, StoreMailboxFacts, RefuseLateFacts
    <3>2. CASE Reread(p)
      BY <3>2, RereadFacts, Working
    <3>3. CASE Unlink(p) \/ Fail(p)
      BY <3>3, AfterUnlinkFacts, FailFacts DEF Unlink
    <3> QED BY <1>6, <3>1, <3>2, <3>3
  <2> QED BY <2>1, <2>2, <2>3, LinksQuiet, IdleCall DEF Keeps
<1>7. ASSUME NEW p \in Requests, Works(p)
      PROVE  LinksApart'
  BY <1>7, <1>4, <1>5, <1>6, RecordLinks, StoreFirstLinks, WriteFactorLinks, DeleteLinks
     DEF Works
<1> QED BY <1>1, <1>2, <1>3, <1>7, NextKinds, CrashLinks, BeginConfirmLinks, BeginCompleteLinks

-----------------------------------------------------------------------------
(* Uses of a link.                                                         *)

\* The requests at work on a link are some of all.
CountsBounded == \A l \in Links :
  /\ IsFiniteSet(Holding(l)) /\ IsFiniteSet(Unlinking(l))
  /\ Cardinality(Holding(l)) \in Nat /\ Cardinality(Unlinking(l)) \in Nat
  /\ Cardinality(Holding(l)) + Cardinality(Unlinking(l)) <= Cardinality(Requests)

LEMMA Counts == CountsBounded
<1> SUFFICES ASSUME NEW l \in Links
             PROVE  /\ IsFiniteSet(Holding(l)) /\ IsFiniteSet(Unlinking(l))
                    /\ Cardinality(Holding(l)) \in Nat /\ Cardinality(Unlinking(l)) \in Nat
                    /\ Cardinality(Holding(l)) + Cardinality(Unlinking(l)) <= Cardinality(Requests)
  BY DEF CountsBounded
<1> DEFINE H == Holding(l)
           U == Unlinking(l)
<1>1. H \subseteq Requests /\ U \subseteq Requests /\ H \cap U = {} /\ H \cup U \subseteq Requests
  BY DEF Holding, Unlinking
<1> HIDE DEF H, U
<1>2. IsFiniteSet(H) /\ IsFiniteSet(U)
  BY <1>1, RequestsAssumption, FS_Subset
<1>3. Cardinality(H) \in Nat /\ Cardinality(U) \in Nat /\ Cardinality({}) = 0
  BY <1>2, FS_CardinalityType, FS_EmptySet
<1>4. Cardinality(H \cup U) = Cardinality(H) + Cardinality(U) - Cardinality(H \cap U)
  BY <1>2, FS_Union
<1>5. Cardinality(H \cup U) <= Cardinality(Requests)
  BY <1>1, RequestsAssumption, FS_Subset
<1>6. Cardinality(H \cap U) = 0
  BY <1>1, <1>3
<1>7. Cardinality(H) + Cardinality(U) <= Cardinality(Requests)
  BY <1>3, <1>4, <1>5, <1>6
<1> QED BY <1>2, <1>3, <1>7 DEF H, U

LEMMA Products ==
  /\ Cardinality(Requests) \in Nat
  /\ \A n, f \in Nat : n * f \in Nat /\ n * (1 + f) = n * f + n
<1>1. Cardinality(Requests) \in Nat
  BY RequestsAssumption, FS_CardinalityType
<1> QED BY <1>1, SMT

\* The requests that hold a link while they have still to write, and a part of
\* them later.
LEMMA FewerHold ==
  ASSUME NEW l \in Links, Holding(l)' \subseteq Holding(l)
  PROVE  Cardinality(Holding(l)') <= Cardinality(Holding(l))
BY Counts, FS_Subset DEF CountsBounded

\* A step that takes no link up, writes no factor and meets no fault.
LEMMA UsesQuiet ==
  ASSUME CallInv, UsesBounded, uses' = uses, faults' = faults, NEW l \in Links,
         Holding(l)' \subseteq Holding(l),
         \/ link'[l] = None \/ uses[l] = 0
         \/ link'[l] = link[l] /\ Unlinking(l)' = Unlinking(l)
  PROVE  /\ link'[l] # None
            => uses'[l] <= Cardinality(Requests) * faults' + Cardinality(Unlinking(l)')
         /\ uses'[l] + Cardinality(Holding(l)') <= Cardinality(Requests) * (1 + faults')
<1> DEFINE k == Cardinality(Requests) * faults
           n == Cardinality(Requests) * (1 + faults)
<1>1. CountsBounded'
  BY Counts, PTL
<1>2. /\ Cardinality(Holding(l)) \in Nat /\ Cardinality(Holding(l)') \in Nat
      /\ Cardinality(Unlinking(l)') \in Nat /\ uses[l] \in Nat /\ k \in Nat /\ n \in Nat
  BY <1>1, Counts, Products DEF CountsBounded, CallInv, TypeOK
<1>3. Cardinality(Holding(l)') <= Cardinality(Holding(l))
  BY FewerHold
<1>4. /\ link[l] # None => uses[l] <= k + Cardinality(Unlinking(l))
      /\ uses[l] + Cardinality(Holding(l)) <= n
  BY DEF UsesBounded
<1> HIDE DEF k, n
<1>5. uses[l] + Cardinality(Holding(l)') <= n
  BY <1>2, <1>3, <1>4
<1>6. link'[l] # None => uses[l] <= k + Cardinality(Unlinking(l)')
  <2>1. CASE uses[l] = 0
    BY <2>1, <1>2
  <2>2. CASE link'[l] = link[l] /\ Unlinking(l)' = Unlinking(l)
    BY <2>2, <1>4
  <2> QED BY <2>1, <2>2
<1> QED BY <1>5, <1>6 DEF k, n

\* Whoever takes up a link finds it stored.
LEMMA UsesTakenUp ==
  ASSUME CallInv, UsesBounded, uses' = uses, faults' = faults, link' = link, NEW l \in Links,
         link[l] # None, Unlinking(l)' = Unlinking(l)
  PROVE  /\ link'[l] # None
            => uses'[l] <= Cardinality(Requests) * faults' + Cardinality(Unlinking(l)')
         /\ uses'[l] + Cardinality(Holding(l)') <= Cardinality(Requests) * (1 + faults')
<1> DEFINE k == Cardinality(Requests) * faults
<1>1. CountsBounded'
  BY Counts, PTL
<1>2. /\ Cardinality(Holding(l)') \in Nat /\ Cardinality(Unlinking(l)') \in Nat
      /\ Cardinality(Holding(l)') + Cardinality(Unlinking(l)') <= Cardinality(Requests)
      /\ uses[l] \in Nat
  BY <1>1 DEF CountsBounded, CallInv, TypeOK
<1>3. k \in Nat /\ Cardinality(Requests) * (1 + faults) = k + Cardinality(Requests)
      /\ Cardinality(Requests) \in Nat
  BY Products DEF CallInv, TypeOK
<1>4. uses[l] <= k + Cardinality(Unlinking(l)')
  BY DEF UsesBounded
<1> HIDE DEF k
<1>5. uses[l] + Cardinality(Holding(l)') <= k + Cardinality(Requests)
  BY <1>2, <1>3, <1>4
<1> QED BY <1>3, <1>4, <1>5 DEF k

\* A fault renews a stored link for all that hold it.
LEMMA UsesFaulted ==
  ASSUME CallInv, UsesBounded, uses' = uses, faults' = faults + 1, NEW l \in Links,
         Holding(l)' \subseteq Holding(l), link'[l] = None \/ link'[l] = link[l]
  PROVE  /\ link'[l] # None
            => uses'[l] <= Cardinality(Requests) * faults' + Cardinality(Unlinking(l)')
         /\ uses'[l] + Cardinality(Holding(l)') <= Cardinality(Requests) * (1 + faults')
<1> DEFINE N == Cardinality(Requests)
           k == N * faults
           k1 == N * faults'
<1>1. CountsBounded'
  BY Counts, PTL
<1>2. /\ Cardinality(Holding(l)) \in Nat /\ Cardinality(Holding(l)') \in Nat
      /\ Cardinality(Unlinking(l)) \in Nat /\ Cardinality(Unlinking(l)') \in Nat
      /\ Cardinality(Unlinking(l)) <= N
      /\ uses[l] \in Nat /\ faults \in Nat /\ N \in Nat
  BY <1>1, Counts, Products DEF CountsBounded, CallInv, TypeOK
<1>3. k \in Nat /\ k1 = k + N /\ N * (1 + faults) = k + N /\ N * (1 + faults') = k1 + N
  BY <1>2, Products
<1>4. Cardinality(Holding(l)') <= Cardinality(Holding(l))
  BY FewerHold
<1>5. /\ link[l] # None => uses[l] <= k + Cardinality(Unlinking(l))
      /\ uses[l] + Cardinality(Holding(l)) <= N * (1 + faults)
  BY DEF UsesBounded
<1> HIDE DEF N, k, k1
<1>6. link'[l] # None => uses[l] <= k1 + Cardinality(Unlinking(l)')
  BY <1>2, <1>3, <1>5
<1>7. uses[l] + Cardinality(Holding(l)') <= k1 + N
  BY <1>2, <1>3, <1>4, <1>5
<1> QED BY <1>3, <1>6, <1>7 DEF N, k1

\* A write turns a holder of the link into one about to delete it.
LEMMA UsesWritten ==
  ASSUME CallInv, UsesBounded, NEW p \in Requests, WriteFactor(p), NEW l \in Links,
         l = req[p].link
  PROVE  /\ link'[l] # None
            => uses'[l] <= Cardinality(Requests) * faults' + Cardinality(Unlinking(l)')
         /\ uses'[l] + Cardinality(Holding(l)') <= Cardinality(Requests) * (1 + faults')
<1> DEFINE H == Holding(l)
           U == Unlinking(l)
           k == Cardinality(Requests) * faults
           n == Cardinality(Requests) * (1 + faults)
<1>1. /\ Others(p) /\ Keeps(p) /\ req[p].at = "write" /\ req'[p].at = "unlink"
      /\ link' = link /\ faults' = faults /\ uses' = [uses EXCEPT ![l] = @ + 1]
  BY WriteFactorFacts DEF WriteFactor
<1>2. p \in H /\ p \notin U /\ Holding(l)' = H \ {p} /\ Unlinking(l)' = U \cup {p}
  BY <1>1 DEF Holding, Unlinking, Linked, Others, Keeps
<1>3. /\ IsFiniteSet(H) /\ IsFiniteSet(U) /\ Cardinality(H) \in Nat /\ Cardinality(U) \in Nat
      /\ uses[l] \in Nat /\ k \in Nat /\ n \in Nat
  BY Counts, Products DEF CountsBounded, CallInv, TypeOK
<1>4. uses'[l] = uses[l] + 1
  BY <1>1 DEF CallInv, TypeOK
<1>5. /\ link[l] # None => uses[l] <= k + Cardinality(U)
      /\ uses[l] + Cardinality(H) <= n
  BY DEF UsesBounded
<1> HIDE DEF H, U, k, n
<1>6. Cardinality(H \ {p}) = Cardinality(H) - 1
  BY <1>2, <1>3, FS_RemoveElement
<1>7. Cardinality(U \cup {p}) = Cardinality(U) + 1
  BY <1>2, <1>3, FS_AddElement
<1>8. link'[l] # None => uses'[l] <= k + Cardinality(U \cup {p})
  BY <1>1, <1>3, <1>4, <1>5, <1>7
<1>9. uses'[l] + Cardinality(H \ {p}) <= n
  BY <1>3, <1>4, <1>5, <1>6
<1> QED BY <1>1, <1>2, <1>8, <1>9 DEF k, n

LEMMA UsesNext ==
  ASSUME CallInv, LinksApart, UsesBounded, [Next]_vars
  PROVE  UsesBounded'
<1> DEFINE Good(l) ==
             /\ link'[l] # None
                => uses'[l] <= Cardinality(Requests) * faults' + Cardinality(Unlinking(l)')
             /\ uses'[l] + Cardinality(Holding(l)') <= Cardinality(Requests) * (1 + faults')
<1> SUFFICES ASSUME NEW l \in Links PROVE Good(l)
  BY DEF UsesBounded
<1>0. l # None /\ Idle.link = None
  BY SizeAssumption, IdleCall DEF Links
<1> HIDE DEF Good
<1>1. CASE Tick \/ UNCHANGED vars
  <2>1. UNCHANGED <<uses, faults, link, req>>
    BY <1>1 DEF Tick, vars, storeVars, historyVars
  <2>2. Holding(l)' = Holding(l) /\ Unlinking(l)' = Unlinking(l)
    BY <2>1 DEF Holding, Unlinking
  <2> QED BY <2>1, <2>2, UsesQuiet DEF Good
<1>2. CASE Crash
  <2>1. UNCHANGED <<uses, link>> /\ faults' = faults + 1 /\ \A q \in Requests : req'[q] = Idle
    BY <1>2, CrashFacts DEF Crash, storeVars
  <2>2. Holding(l)' \subseteq Holding(l)
    BY <2>1, <1>0 DEF Holding
  <2> QED BY <2>1, <2>2, UsesFaulted DEF Good
\* A link issued in the step is unused.
<1>3. ASSUME NEW k \in Kinds, NEW a \in Accounts, PutLink(k, a), UNCHANGED <<uses, faults>>,
             \A q \in Requests : req'[q] = req[q] \/ (req[q].at = "issue" /\ req'[q] = Idle)
      PROVE  Good(l)
  <2>1. Holding(l)' \subseteq Holding(l) /\ Unlinking(l)' = Unlinking(l)
    BY <1>3, <1>0 DEF Holding, Unlinking
  <2>2. CASE l = issued + 1
    <3>1. uses[l] = 0
      BY <2>2 DEF LinksApart, CallInv, TypeOK
    <3> QED BY <1>3, <2>1, <3>1, UsesQuiet DEF Good
  <2>3. CASE l # issued + 1
    <3>1. link'[l] = link[l]
      BY <1>3, <2>3, PutLinkFacts
    <3> QED BY <1>3, <2>1, <3>1, UsesQuiet DEF Good
  <2> QED BY <2>2, <2>3
<1>4. ASSUME NEW a \in Accounts, BeginRegistration(a) \/ RequestRecovery(a)
      PROVE  Good(l)
  <2>1. PICK k \in Kinds : PutLink(k, a)
    BY <1>4 DEF BeginRegistration, RequestRecovery, Kinds
  <2>2. UNCHANGED <<uses, faults, req>>
    BY <1>4 DEF BeginRegistration, RequestRecovery, historyVars
  <2> QED BY <2>1, <2>2, <1>3
<1>5. ASSUME NEW p \in Requests, NEW a \in Accounts, NEW c \in Codes, BeginVerify(p, a, c)
      PROVE  Good(l)
  <2>1. UNCHANGED <<uses, faults, link>>
    BY <1>5 DEF BeginVerify, Begin, storeVars, historyVars
  <2>2. Others(p) /\ req[p] = Idle /\ req'[p].link = None
    BY <1>5, BeginVerifyFacts
  <2>3. Holding(l)' \subseteq Holding(l) /\ Unlinking(l)' = Unlinking(l)
    BY <2>2, <1>0 DEF Holding, Unlinking, Others
  <2> QED BY <2>1, <2>3, UsesQuiet DEF Good
<1>6. ASSUME NEW p \in Requests, NEW m \in Links, UNCHANGED <<uses, faults, link>>, Others(p),
             req[p] = Idle, req'[p].link = m, req'[p].at # "unlink", link[m] # None
      PROVE  Good(l)
  <2>1. Unlinking(l)' = Unlinking(l)
    BY <1>6, <1>0 DEF Unlinking, Others
  <2>2. CASE l = m
    BY <1>6, <2>1, <2>2, UsesTakenUp DEF Good
  <2>3. CASE l # m
    <3>1. Holding(l)' \subseteq Holding(l)
      BY <1>6, <2>3 DEF Holding, Others
    <3> QED BY <1>6, <2>1, <3>1, UsesQuiet DEF Good
  <2> QED BY <2>2, <2>3
<1>7. ASSUME NEW p \in Requests, NEW m \in Links, BeginConfirm(p, m)
      PROVE  Good(l)
  <2>1. UNCHANGED <<uses, faults, link>>
    BY <1>7 DEF BeginConfirm, Begin, storeVars, historyVars
  <2> QED BY <1>7, <2>1, <1>6, BeginConfirmFacts, RequestsAssumption
<1>8. ASSUME NEW p \in Requests, NEW m \in Links, NEW c \in Codes, BeginComplete(p, m, c)
      PROVE  Good(l)
  <2>1. UNCHANGED <<uses, faults, link>>
    BY <1>8 DEF BeginComplete, Begin, storeVars, historyVars
  <2>2. /\ Others(p) /\ req[p] = Idle /\ req'[p].link = m
        /\ req'[p].at \in {"create", "reread"} /\ link[m] # None
    BY <1>8, BeginCompleteFacts, RequestsAssumption
  <2> QED BY <2>1, <2>2, <1>6
<1>9. ASSUME NEW p \in Requests, Issue(p)
      PROVE  Good(l)
  <2>1. UNCHANGED <<uses, faults>> /\ Others(p) /\ req[p].at = "issue" /\ req'[p] = Idle
    BY <1>9, IssueFacts DEF Issue, historyVars
  <2>2. CASE issued < MaxLinks
    <3>1. PICK k \in Kinds : PutLink(k, req[p].account)
      BY <1>9, <2>2 DEF Issue, Kinds
    <3>2. req[p].account \in Accounts
      BY <2>1, Working
    <3> QED BY <2>1, <3>1, <3>2, <1>3 DEF Others
  <2>3. CASE ~(issued < MaxLinks)
    <3>1. link' = link
      BY <1>9, <2>3 DEF Issue
    <3>2. Holding(l)' \subseteq Holding(l) /\ Unlinking(l)' = Unlinking(l)
      BY <2>1, <1>0 DEF Holding, Unlinking, Others
    <3> QED BY <2>1, <3>1, <3>2, UsesQuiet DEF Good
  <2> QED BY <2>2, <2>3
<1>10. ASSUME NEW p \in Requests,
              \/ Examine(p) \/ Record(p) \/ CreateAccount(p) \/ StoreFirst(p) \/ StoreMailbox(p)
              \/ Reread(p) \/ RefuseLate(p)
       PROVE  Good(l)
  <2>1. UNCHANGED <<uses, faults, link>>
    BY <1>10 DEF Examine, Record, CreateAccount, StoreFirst, StoreMailbox, Reread, RefuseLate,
                 storeVars, historyVars
  <2>2. /\ Others(p) /\ req[p].at # "unlink"
        /\ \/ req'[p] = Idle
           \/ req[p].at \in {"verify", "put"} /\ req'[p].at \in {"put", "issue"}
           \/ /\ req'[p].link = req[p].link /\ req'[p].at # "unlink"
              /\ req[p].at \in {"create", "first", "mailbox", "reread"}
    <3>1. CASE Examine(p) \/ Record(p)
      BY <3>1, ExamineFacts, RecordFacts
    <3>2. CASE CreateAccount(p) \/ StoreFirst(p) \/ StoreMailbox(p)
      BY <3>2, CreateAccountFacts, StoreFirstFacts, StoreMailboxFacts DEF Keeps
    <3>3. CASE Reread(p) \/ RefuseLate(p)
      BY <3>3, RereadFacts, RefuseLateFacts DEF Keeps
    <3> QED BY <1>10, <3>1, <3>2, <3>3
  <2>3. Holding(l)' \subseteq Holding(l)
    BY <2>2, <1>0 DEF Holding, Linked, Others
  <2>4. Unlinking(l)' = Unlinking(l)
    BY <2>2, <1>0 DEF Unlinking, Others
  <2> QED BY <2>1, <2>3, <2>4, UsesQuiet DEF Good
<1>11. ASSUME NEW p \in Requests, WriteFactor(p)
       PROVE  Good(l)
  <2>1. CASE l = req[p].link
    BY <1>11, <2>1, UsesWritten DEF Good
  <2>2. CASE l # req[p].link
    <3>1. Others(p) /\ Keeps(p) /\ UNCHANGED <<link, faults>> /\ uses' = [uses EXCEPT ![req[p].link] = @ + 1]
      BY <1>11, WriteFactorFacts DEF WriteFactor
    <3>2. Holding(l)' = Holding(l) /\ Unlinking(l)' = Unlinking(l)
      BY <2>2, <3>1 DEF Holding, Unlinking, Others, Keeps
    <3>3. uses'[l] = uses[l]
      BY <2>2, <3>1 DEF CallInv, TypeOK
    <3> QED BY <3>1, <3>2, <3>3 DEF Good, UsesBounded
  <2> QED BY <2>1, <2>2
<1>12. ASSUME NEW p \in Requests, Unlink(p)
       PROVE  Good(l)
  <2>1. /\ UNCHANGED <<uses, faults>> /\ req[p].at = "unlink" /\ Others(p)
        /\ req'[p] = Idle \/ (Keeps(p) /\ req'[p].at = "issue")
        /\ link' = [link EXCEPT ![req[p].link] = None]
    BY <1>12, AfterUnlinkFacts DEF Unlink, historyVars
  <2>2. Holding(l)' \subseteq Holding(l)
    BY <2>1, <1>0 DEF Holding, Linked, Others
  <2>3. CASE l = req[p].link
    <3>1. link'[l] = None
      BY <2>1, <2>3 DEF CallInv, TypeOK
    <3> QED BY <2>1, <2>2, <3>1, UsesQuiet DEF Good
  <2>4. CASE l # req[p].link
    <3>1. link'[l] = link[l] /\ Unlinking(l)' = Unlinking(l)
      BY <2>1, <2>4, <1>0 DEF CallInv, TypeOK, Unlinking, Others, Keeps
    <3> QED BY <2>1, <2>2, <3>1, UsesQuiet DEF Good
  <2> QED BY <2>3, <2>4
<1>13. ASSUME NEW p \in Requests, Fail(p)
       PROVE  Good(l)
  <2>1. /\ UNCHANGED <<uses, link>> /\ faults' = faults + 1 /\ Others(p)
        /\ req'[p] = Idle \/ req'[p].at \in {"issue", "dropfactor", "dropaccount"}
    BY <1>13, FailFacts DEF Fail, storeVars
  <2>2. Holding(l)' \subseteq Holding(l)
    BY <2>1, <1>0 DEF Holding, Linked, Others
  <2> QED BY <2>1, <2>2, UsesFaulted DEF Good
<1>14. ASSUME NEW p \in Requests, DeleteFactor(p)
       PROVE  Good(l)
  <2>1. UNCHANGED <<uses, faults, link>>
    BY <1>14 DEF DeleteFactor
  <2>2. Others(p) /\ req[p].at = "dropfactor" /\ req'[p].at = "dropaccount"
    BY <1>14, DeleteFactorFacts
  <2>3. Holding(l)' \subseteq Holding(l) /\ Unlinking(l)' = Unlinking(l)
    BY <2>2 DEF Holding, Unlinking, Linked, Others
  <2> QED BY <2>1, <2>3, UsesQuiet DEF Good
\* A request about to delete its link ends only when its link goes as well.
<1>15. ASSUME NEW p \in Requests, DeleteAccount(p)
       PROVE  Good(l)
  <2> DEFINE a == req[p].account
  <2>1. /\ UNCHANGED <<uses, faults>>
        /\ link'[l] = IF link[l] # None /\ link[l].account = a /\ link[l].kind # "registration"
                      THEN None ELSE link[l]
    BY <1>15 DEF DeleteAccount
  <2>2. /\ \A q \in Requests : req'[q] = Idle \/ req'[q] = req[q]
        /\ req[p].at = "dropaccount"
        /\ \A q \in Requests \ {p} : req[q].account # a \/ req[q].op = "register" => req'[q] = req[q]
    BY <1>15, DeleteAccountFacts
  <2>3. Holding(l)' \subseteq Holding(l) /\ Unlinking(l)' \subseteq Unlinking(l)
    BY <2>2, <1>0 DEF Holding, Unlinking
  <2>4. CASE link'[l] = None
    BY <2>1, <2>3, <2>4, UsesQuiet DEF Good
  <2>5. CASE link'[l] # None
    <3>1. link'[l] = link[l] /\ (link[l].account = a => link[l].kind = "registration")
      BY <2>1, <2>5
    <3>2. ASSUME NEW q \in Unlinking(l) PROVE q \in Unlinking(l)'
      <4>1. q \in Requests /\ req[q].link = l /\ req[q].at = "unlink" /\ q # p
        BY <3>2, <2>2 DEF Unlinking
      <4>2. Fits(req[q], link[l])
        BY <4>1, <3>1, <2>5, <1>0 DEF LinksApart
      <4>3. req'[q] = req[q]
        BY <4>1, <4>2, <3>1, <2>2 DEF Fits
      <4> QED BY <4>1, <4>3 DEF Unlinking
    <3>3. Unlinking(l)' = Unlinking(l)
      BY <2>3, <3>2
    <3> QED BY <2>1, <2>3, <3>1, <3>3, UsesQuiet DEF Good
  <2> QED BY <2>4, <2>5
<1>16. ASSUME NEW p \in Requests, Works(p)
       PROVE  Good(l)
  BY <1>16, <1>9, <1>10, <1>11, <1>12, <1>13, <1>14, <1>15 DEF Works
<1> QED BY <1>1, <1>2, <1>4, <1>5, <1>7, <1>8, <1>16, NextKinds

-----------------------------------------------------------------------------
(* The invariants hold, and what follows from them.                        *)

LEMMA InitJudge == Init => JudgeInv /\ UsesBounded
<1> SUFFICES ASSUME Init PROVE JudgeInv /\ UsesBounded
  OBVIOUS
<1>1. CallInv
  BY InitCalls
<1>2. /\ \A p \in Requests : req[p] = Idle
      /\ mutex = None /\ taken = Enrolled /\ accepted = {} /\ issued = 0 /\ faults = 0
      /\ link = [l \in Links |-> None] /\ uses = [l \in Links |-> 0]
      /\ ledger = [a \in Accounts |-> Clear]
  BY DEF Init
<1>3. PICK v \in [Accounts -> BOOLEAN] :
        /\ factor = [a \in Accounts |-> IF a \in Enrolled THEN NewFactor(0, v[a], 0) ELSE None]
        /\ confirmed = {a \in Enrolled : v[a]}
  BY DEF Init
<1>4. ASSUME NEW a \in Accounts
      PROVE  /\ a \in Enrolled => factor[a] = NewFactor(0, v[a], 0) /\ factor[a] # None
             /\ a \notin Enrolled => factor[a] = None
  <2>1. factor[a] \in Factors \cup {None}
    BY <1>1 DEF CallInv, TypeOK
  <2>2. NewFactor(0, v[a], 0) \in Factors
    <3>1. 0 \in Secrets /\ 0 \in Steps
      BY SizeAssumption DEF Secrets, Steps
    <3> QED BY <3>1, FactorTypes
  <2> QED BY <2>2, <1>3, RequestsAssumption
<1>5. LockHeld
  BY <1>2, IdleCall DEF LockHeld
<1>6. AccountsKept
  BY <1>2, <1>4, IdleCall, SizeAssumption DEF AccountsKept, Registering, EnrolledUnlessInterrupted
<1>7. FactorsTold
  <2>1. ASSUME NEW a \in Enrolled
        PROVE  Told(a)
    <3>1. a \in Accounts
      BY SizeAssumption
    <3>2. factor[a] = NewFactor(0, v[a], 0)
      BY <1>4, <3>1
    <3>3. factor[a].verified = v[a] /\ factor[a].failed = 0 /\ factor[a].locked = 0
      BY <3>2 DEF NewFactor
    <3> QED BY <3>1, <3>3, <1>2, <1>3 DEF Told, Clear
  <2>2. ASSUME NEW a \in Accounts, a \notin Enrolled
        PROVE  Blank(a)
    BY <2>2, <1>2, <1>3 DEF Blank
  <2> QED BY <2>1, <2>2, <1>2, <1>4, IdleCall DEF FactorsTold
<1>8. LinksApart
  <2>1. ASSUME NEW l \in Links
        PROVE  ~Enrols(l)
    <3>1. l # 0 /\ l # None
      BY SizeAssumption DEF Links
    <3>2. \A a \in Accounts : factor[a] # None => factor[a].secret # l
      <4> TAKE a \in Accounts
      <4>1. NewFactor(0, v[a], 0).secret = 0
        BY DEF NewFactor
      <4> QED BY <4>1, <1>4, <3>1
    <3> QED BY <3>1, <3>2, <1>2, IdleCall DEF Enrols
  <2> QED BY <2>1, <1>2, IdleCall DEF LinksApart
<1>9. UsesBounded
  <2> SUFFICES ASSUME NEW l \in Links
               PROVE  /\ link[l] = None
                      /\ uses[l] + Cardinality(Holding(l)) <= Cardinality(Requests) * (1 + faults)
    BY DEF UsesBounded
  <2>1. Holding(l) = {} /\ link[l] = None /\ uses[l] = 0
    <3>1. l # None
      BY SizeAssumption DEF Links
    <3> QED BY <3>1, <1>2, IdleCall DEF Holding
  <2>2. Cardinality(Holding(l)) = 0
    BY <2>1, FS_EmptySet
  <2>3. Cardinality(Requests) * (1 + 0) \in Nat
    BY Products
  <2> QED BY <2>1, <2>2, <2>3, <1>2
<1> QED BY <1>1, <1>5, <1>6, <1>7, <1>8, <1>9 DEF JudgeInv

LEMMA NextJudge == JudgeInv /\ UsesBounded /\ [Next]_vars => (JudgeInv /\ UsesBounded)'
BY CallsNext, LockNext, AccountsNext, FactorsNext, LinksNext, UsesNext DEF JudgeInv

LEMMA Judging == Spec => [](JudgeInv /\ UsesBounded)
BY InitJudge, NextJudge, PTL DEF Spec

\* A confirmed address stays confirmed, an account without a factor is about to
\* get one or to be deleted unless a crash or a failed deletion is on record for it,
\* and a link writes no more factors than its holders and the faults allow.
THEOREM Enrolment == Spec => []EnrolmentHolds
<1>1. JudgeInv /\ UsesBounded => EnrolmentHolds
  <2> SUFFICES ASSUME JudgeInv, UsesBounded PROVE EnrolmentHolds
    OBVIOUS
  <2>1. ConfirmationKept
    <3> SUFFICES ASSUME NEW a \in confirmed, a \notin raced PROVE factor[a].verified
      BY DEF ConfirmationKept
    <3>1. a \in Accounts
      BY DEF JudgeInv, CallInv, TypeOK
    <3> QED BY <3>1 DEF JudgeInv, FactorsTold, Blank, Told
  <2>2. EnrolledUnlessInterrupted
    BY DEF JudgeInv, AccountsKept
  <2>3. LinkUses
    <3> SUFFICES ASSUME NEW l \in Links
                 PROVE  uses[l] <= Cardinality(Requests) * (1 + faults)
      BY DEF LinkUses
    <3> DEFINE n == Cardinality(Requests) * (1 + faults)
    <3>1. uses[l] + Cardinality(Holding(l)) <= n
      BY DEF UsesBounded
    <3>2. n \in Nat /\ Cardinality(Holding(l)) \in Nat /\ uses[l] \in Nat
      BY Counts, Products DEF CountsBounded, JudgeInv, CallInv, TypeOK
    <3> HIDE DEF n
    <3>3. uses[l] <= n
      BY <3>1, <3>2
    <3> QED BY <3>3 DEF n
  <2> QED BY <2>1, <2>2, <2>3 DEF EnrolmentHolds
<1> QED BY <1>1, Judging, PTL

\* A code Verify is about to accept was not accepted before, and no lockout is
\* in force, unless a lock-free write of the factor overlapped another write.
LEMMA AboutToAccept ==
  ASSUME JudgeInv, NEW p \in Requests, req[p].at = "put", req[p].hit,
         req[p].account \notin raced
  PROVE  /\ <<req[p].account, req[p].code>> \notin accepted
         /\ ledger[req[p].account].barred <= req[p].time
<1> DEFINE r == req[p]
           a == req[p].account
<1>1. r \in Calls /\ Busy(r) /\ a \in Accounts
  BY Working DEF JudgeInv
<1>2. r.seen = factor[a] /\ factor[a] # None
  BY <1>1, RequestsAssumption DEF JudgeInv, FactorsTold, Busy
<1>3. Told(a)
  BY <1>1, <1>2 DEF JudgeInv, FactorsTold
<1>4. /\ r.seen \in Factors /\ r.seen.locked <= r.time
      /\ r.code.secret = r.seen.secret /\ r.code.step > r.seen.last
  BY <1>1 DEF Busy
<1>5. r.code.step \in Steps /\ r.seen.last \in Steps
  BY <1>1, <1>4 DEF Calls, Codes, Factors
<1>6. ~(r.code.step <= r.seen.last)
  BY <1>4, <1>5, SizeAssumption DEF Steps
<1>7. <<a, r.code>> \notin accepted
  <2> SUFFICES ASSUME <<a, r.code>> \in accepted PROVE FALSE
    OBVIOUS
  <2>1. \A x \in accepted : x[1] = a /\ x[2].secret = factor[a].secret => x[2].step <= factor[a].last
    BY <1>3 DEF Told
  <2>2. r.code.step <= factor[a].last
    BY <2>1, <1>2, <1>4
  <2> QED BY <2>2, <1>2, <1>6
<1>8. ledger[a].barred <= r.time
  BY <1>2, <1>3, <1>4 DEF Told
<1> QED BY <1>7, <1>8

\* Verify accepts no code twice and none during a lockout, with the same exception.
THEOREM Judged == Spec => CodesJudged
<1>1. JudgeInv => \A p \in Requests :
        Accepts(p) /\ req[p].account \notin raced
        => /\ <<req[p].account, req[p].code>> \notin accepted
           /\ ledger[req[p].account].barred <= req[p].time
  BY AboutToAccept DEF Accepts
<1>2. Spec => []JudgeInv
  BY Judging, PTL
<1>3. JudgeInv /\ [Next]_vars
      => [\A p \in Requests :
            Accepts(p) /\ req[p].account \notin raced
            => <<req[p].account, req[p].code>> \notin accepted]_vars
  BY <1>1
<1>4. JudgeInv /\ [Next]_vars
      => [\A p \in Requests :
            Accepts(p) /\ req[p].account \notin raced
            => ledger[req[p].account].barred <= req[p].time]_vars
  BY <1>1
<1> QED BY <1>2, <1>3, <1>4, PTL DEF Spec, CodesJudged, CodesUsedOnce, LockoutHolds
=============================================================================
