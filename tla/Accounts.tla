------------------------------ MODULE Accounts ------------------------------
(***************************************************************************)
(* Accounts and their addresses (internal/account, internal/mailbox and    *)
(* the account operations of internal/identity).                           *)
(*                                                                         *)
(* An account is stored whole under its id and found by its name; its      *)
(* mailbox is found by its address.  A name and the address made of it     *)
(* always move together, so one index stands for account/name and          *)
(* account/email; names that were given up lead on to their account as     *)
(* profile aliases.  Update is one transaction, but the previous name,     *)
(* whose index entry it deletes, is read before it.                        *)
(*                                                                         *)
(* Codes and authenticators are the matter of Authenticator, sessions that *)
(* of Sessions.  Whether a display name entitles its owner to choose an    *)
(* address (AddressChoiceAllowed) is left open.                            *)
(***************************************************************************)
EXTENDS Handlers

CONSTANTS
  Accounts,  \* account ids
  Residents, \* the accounts that exist at the start
  Names      \* local parts

Statuses == {"active", "suspended"}
Objects  == [name : Names, status : Statuses, profile : 0 .. MaxRequests]
Maybe(S) == S \cup {None}
Operations == {"register", "profile", "status", "address"}
AccountPlaces == {"enrolled", "create", "box", "takeBack", "load", "mailbox", "prior", "commit", "move",
                  "undo", "restore", "alias"}
AccountCalls ==
  [op : Operations, at : AccountPlaces, account : Accounts, name : Maybe(Names),
   status : Maybe(Statuses), id : 1 .. MaxRequests, copy : Maybe(Objects),
   prior : Maybe(Names), from : Maybe(Names)]

ASSUME AccountsAssumption ==
  /\ Residents \subseteq Accounts /\ None \notin Accounts \cup Names
  /\ None \notin Objects /\ None \notin AccountCalls

VARIABLES
  object,    \* account/object
  index,     \* account/name and account/email
  alias,     \* account/profile-alias
  box,       \* the address in each account's mailbox
  boxAt,     \* mailbox/address
  holder,    \* history: the account that last got each name, unless it was put back
  disturbed, \* history: accounts disturbed by the write of another operation that overlapped
  halved     \* history: accounts with an operation that failed half way

stored == <<object, index, alias, box, boxAt>>
accountVars == <<stored, holder, disturbed, halved>>

AccountsInit ==
  /\ \E name \in [Residents -> Names] :
       /\ \A a, b \in Residents : name[a] = name[b] => a = b
       /\ object = [a \in Accounts |->
            IF a \in Residents THEN [name |-> name[a], status |-> "active", profile |-> 0] ELSE None]
       /\ box = [a \in Accounts |-> IF a \in Residents THEN name[a] ELSE None]
       /\ index = [n \in Names |->
            IF \E a \in Residents : name[a] = n THEN CHOOSE a \in Residents : name[a] = n ELSE None]
  /\ boxAt = index /\ holder = index
  /\ alias = [n \in Names |-> None]
  /\ disturbed = {} /\ halved = {}

Request(op, place, a) ==
  [op |-> op, at |-> place, account |-> a, name |-> None, status |-> None, id |-> begun + 1,
   copy |-> None, prior |-> None, from |-> None]

Open(held, a) == held \in {None, a}

-----------------------------------------------------------------------------
(* Registration.                                                           *)

\* A generated or chosen address is offered if it is neither a name nor an alias.
AddressFree(n) == index[n] = None /\ alias[n] = None

\* BeginTOTPRegistration; the enrollment keeps the name until the code is confirmed.
BeginRegistration(p, a, n) ==
  /\ object[a] = None /\ box[a] = None /\ a \notin halved
  /\ \A q \in InFlight : req[q].account # a
  /\ AddressFree(n)
  /\ Begin(p, [Request("register", "enrolled", a) EXCEPT !.name = n])
  /\ UNCHANGED accountVars

\* Register's own lookup; a taken name ends it.
Register(p) ==
  /\ At(p, "enrolled")
  /\ IF index[req[p].name] = None THEN Goto(p, "create") ELSE Return(p)
  /\ UNCHANGED accountVars

CreateAccount(p) ==
  LET r == req[p] IN
  /\ At(p, "create")
  /\ IF index[r.name] = None /\ alias[r.name] = None
     THEN /\ object' = [object EXCEPT ![r.account] =
               [name |-> r.name, status |-> "active", profile |-> 0]]
          /\ index' = [index EXCEPT ![r.name] = r.account]
          /\ holder' = [holder EXCEPT ![r.name] = r.account]
          /\ Goto(p, "box")
     ELSE Return(p) /\ UNCHANGED <<object, index, holder>>
  /\ UNCHANGED <<alias, box, boxAt, disturbed, halved>>

\* UpsertMailbox; an address that is still another mailbox's undoes the registration.
UpsertMailbox(p) ==
  LET r == req[p] IN
  /\ At(p, "box")
  /\ IF Open(boxAt[r.name], r.account)
     THEN /\ box' = [box EXCEPT ![r.account] = r.name]
          /\ boxAt' = [boxAt EXCEPT ![r.name] = r.account]
          /\ Return(p)
     ELSE Goto(p, "takeBack") /\ UNCHANGED <<box, boxAt>>
  /\ UNCHANGED <<object, index, alias, holder, disturbed, halved>>

\* The deferred Delete deletes the keys of the account it stored, whoever has them now, and
\* no others, whatever the account is called now.
TakeBack(p) ==
  LET r == req[p] IN
  /\ At(p, "takeBack")
  /\ object' = [object EXCEPT ![r.account] = None]
  /\ index' = [index EXCEPT ![r.name] = None]
  /\ disturbed' = IF index[r.name] = r.account THEN disturbed
                  ELSE disturbed \cup ({index[r.name], r.account} \ {None})
  /\ halved' = halved \cup {r.account}
  /\ Return(p)
  /\ UNCHANGED <<alias, box, boxAt, holder>>

-----------------------------------------------------------------------------
(* Edits: the account is read, changed and stored again.                   *)

UpdateProfile(p, a) ==
  /\ object[a] # None
  /\ Begin(p, Request("profile", "load", a))
  /\ UNCHANGED accountVars

UpdateAccountStatus(p, a, s) ==
  /\ object[a] # None
  /\ Begin(p, [Request("status", "load", a) EXCEPT !.status = s])
  /\ UNCHANGED accountVars

ChangeWaveAddress(p, a, n) ==
  /\ object[a] # None
  /\ Begin(p, [Request("address", "load", a) EXCEPT !.name = n])
  /\ UNCHANGED accountVars

\* A status or an address that is already the account's is answered at once, and so is an
\* address its owner may not choose.
Load(p) ==
  LET r == req[p] item == object[r.account] IN
  /\ At(p, "load")
  /\ \/ /\ item # None
        /\ r.op = "status" => item.status # r.status
        /\ r.op = "address" => item.name # r.name
        /\ Continue(p, [r EXCEPT !.at = IF r.op = "address" THEN "mailbox" ELSE "prior",
                                 !.copy = item])
     \/ /\ \/ item = None
           \/ r.op = "status" /\ item # None /\ item.status = r.status
           \/ r.op = "address"
        /\ Return(p)
  /\ UNCHANGED accountVars

\* The new address must not be found by name; the mailbox gives the address to move from.
LoadMailbox(p) ==
  LET r == req[p] IN
  /\ At(p, "mailbox")
  /\ IF index[r.name] = None /\ box[r.account] # None
     THEN Continue(p, [r EXCEPT !.at = "prior", !.from = box[r.account]])
     ELSE Return(p)
  /\ UNCHANGED accountVars

Undoing(r) == r.at \in {"undo", "restore"}

Edited(r) ==
  [name |-> IF r.op = "address" THEN r.name ELSE r.copy.name,
   status |-> IF r.op = "status" THEN r.status ELSE r.copy.status,
   profile |-> IF r.op = "profile" THEN r.id ELSE r.copy.profile]

\* Update's first call: the previous name, as it is now.
ReadPrevious(p) ==
  LET r == req[p] IN
  /\ At(p, "prior") \/ At(p, "undo")
  /\ IF object[r.account] = None
     THEN Return(p)
     ELSE Continue(p, [r EXCEPT !.at = IF Undoing(r) THEN "restore" ELSE "commit",
                                !.prior = object[r.account].name])
  /\ UNCHANGED accountVars

Written(r) == IF Undoing(r) THEN r.copy ELSE Edited(r)

\* What the transaction reads of the new name's keys.
NameFree(r) ==
  Written(r).name # r.prior =>
    Open(index[Written(r).name], r.account) /\ Open(alias[Written(r).name], r.account)

\* Mutant: the index entry of the previous name stays.
ReindexedKept(r) ==
  IF Written(r).name = r.prior THEN index
  ELSE [index EXCEPT ![Written(r).name] = r.account]

Reindexed(r) ==
  IF Written(r).name = r.prior THEN index
  ELSE [index EXCEPT ![r.prior] = None, ![Written(r).name] = r.account]

\* Whose each name then was last: one that an undo gives back is whose alias it is.
Given(r) ==
  IF Written(r).name = r.prior THEN holder
  ELSE [n \in Names |-> IF n = Written(r).name THEN r.account
                        ELSE IF Undoing(r) /\ n = r.name /\ holder[n] = r.account THEN alias[n]
                        ELSE holder[n]]

\* Another write of the account came after what r read of it; an undo puts the account's name
\* back and leaves the mailbox as it is now.
StaleCopy(r) ==
  LET now == object[r.account] IN
  \/ now # IF Undoing(r) THEN Edited(r) ELSE r.copy
  \/ now.name # r.prior
  \/ Undoing(r) /\ box[r.account] # r.copy.name

\* The account that lost its index entry as the previous name of another.
Robbed(r) == IF Written(r).name = r.prior THEN {} ELSE {index[r.prior]} \ {None, r.account}

\* Update's transaction.
Update(p) ==
  LET r == req[p] a == r.account IN
  /\ At(p, "commit") \/ At(p, "restore")
  /\ IF NameFree(r)
     THEN /\ object' = [object EXCEPT ![a] = Written(r)]
          /\ index' = Reindexed(r)
          /\ holder' = Given(r)
          /\ disturbed' = disturbed \cup Robbed(r) \cup (IF StaleCopy(r) THEN {a} ELSE {})
          /\ IF r.at = "commit" /\ r.op = "address" THEN Goto(p, "move") ELSE Return(p)
          /\ UNCHANGED halved
     ELSE /\ halved' = IF Undoing(r) THEN halved \cup {a} ELSE halved
          /\ Return(p)
          /\ UNCHANGED <<object, index, holder, disturbed>>
  /\ UNCHANGED <<alias, box, boxAt>>

-----------------------------------------------------------------------------
(* The rest of an address change.                                          *)

\* UpdateAddress; if the address is another mailbox's, the account is to be put back.
UpdateAddress(p) ==
  LET r == req[p] a == r.account IN
  /\ At(p, "move")
  /\ IF Open(boxAt[r.name], a)
     THEN /\ box' = [box EXCEPT ![a] = r.name]
          /\ boxAt' = [boxAt EXCEPT ![r.from] = None, ![r.name] = a]
          /\ disturbed' = disturbed \cup ({boxAt[r.from]} \ {None, a})
                          \cup (IF box[a] = r.from /\ object[a] = Edited(r) THEN {} ELSE {a})
          /\ Goto(p, "alias")
     ELSE Goto(p, "undo") /\ UNCHANGED <<box, boxAt, disturbed>>
  /\ UNCHANGED <<object, index, alias, holder, halved>>

\* The alias is made of the name that was given up.
AddProfileAlias(p) ==
  LET r == req[p] IN
  /\ At(p, "alias")
  /\ alias' = [alias EXCEPT ![r.copy.name] = r.account]
  /\ disturbed' = disturbed \cup ({alias[r.copy.name]} \ {None, r.account})
  /\ Return(p)
  /\ UNCHANGED <<object, index, box, boxAt, holder, halved>>

-----------------------------------------------------------------------------
\* A call fails.  Register and ChangeWaveAddress then try to put things back, and ignore
\* what fails while they do, as they ignore a lost alias.
FailAccountCall(p) ==
  LET r == req[p] IN
  /\ p \in InFlight
  /\ Fault(p, IF r.at = "box" THEN [r EXCEPT !.at = "takeBack"]
              ELSE IF r.at = "move" THEN [r EXCEPT !.at = "undo"]
              ELSE None)
  /\ halved' = IF r.at \in {"takeBack", "undo", "restore", "alias"} THEN halved \cup {r.account} ELSE halved
  /\ UNCHANGED <<stored, holder, disturbed>>

CrashAccounts ==
  /\ Crash
  /\ halved' = halved \cup {req[p].account : p \in InFlight}
  /\ UNCHANGED <<stored, holder, disturbed>>

AccountsNext ==
  \/ \E p \in Requests, a \in Accounts :
       \/ UpdateProfile(p, a)
       \/ \E s \in Statuses : UpdateAccountStatus(p, a, s)
       \/ \E n \in Names : BeginRegistration(p, a, n) \/ ChangeWaveAddress(p, a, n)
  \/ \E p \in Requests :
       \/ Register(p) \/ CreateAccount(p) \/ UpsertMailbox(p) \/ TakeBack(p)
       \/ Load(p) \/ LoadMailbox(p) \/ ReadPrevious(p) \/ Update(p)
       \/ UpdateAddress(p) \/ AddProfileAlias(p)
       \/ FailAccountCall(p)
  \/ CrashAccounts

-----------------------------------------------------------------------------
(* PublicAccount: an address, else a name, else an alias.                  *)
Resolve(n) == IF index[n] # None THEN index[n] ELSE alias[n]

\* Every variable has its type, and each handler is at a call of its operation.
AccountsTypeOK ==
  /\ HandlersIn("accounts", AccountCalls)
  /\ object \in [Accounts -> Maybe(Objects)]
  /\ index \in [Names -> Maybe(Accounts)] /\ alias \in [Names -> Maybe(Accounts)]
  /\ box \in [Accounts -> Maybe(Names)] /\ boxAt \in [Names -> Maybe(Accounts)]
  /\ holder \in [Names -> Maybe(Accounts)]
  /\ disturbed \subseteq Accounts /\ halved \subseteq Accounts

Quiet(a) == a \notin disturbed /\ \A p \in Of("accounts") : req[p].account # a

\* An account is found by its name, and by no other, unless an Update wrote something
\* stale (account.Update deletes the entry of a name it read before its transaction).
IndexExact ==
  \A a \in Accounts \ disturbed : \A n \in Names :
    (index[n] = a) <=> (object[a] # None /\ object[a].name = n)

\* Mail for an account's address is filed in its mailbox, between the account's operations,
\* unless one of them failed or was stale: the account, its mailbox and the mailbox's index
\* entry move in two transactions (identity.ChangeWaveAddress, identity.Register).
MailReaches ==
  \A a \in Accounts \ halved :
    Quiet(a) /\ object[a] # None => box[a] = object[a].name /\ boxAt[box[a]] = a

\* A name that was somebody's leads to its last holder, unless an operation of that account
\* was cut short, stale, or is still on its way to storing the alias, or it leads to an
\* account of which that is so.
LinksLead ==
  \A n \in Names : LET a == holder[n] IN
    a # None /\ a \notin halved /\ Quiet(a) => Resolve(n) \in {a} \cup halved \cup disturbed

\* Only an administrator's decision changes an account's status; an edit that does was
\* made from a copy older than the decision (identity.UpdateProfile writes the whole account).
StatusStands ==
  [][\A a \in Accounts :
       object[a] # None /\ object'[a] # None /\ object'[a].status # object[a].status =>
         \/ \E p \in Requests : At(p, "commit") /\ req[p].op = "status" /\ req'[p] = None
         \/ a \in disturbed']_<<handlers, accountVars>>

\* What the rest of the platform relies on: a name leads to the account that has it or last
\* had it, its mail arrives, and an administrator's word about it stands.
AccountsPromise == [](IndexExact /\ MailReaches /\ LinksLead) /\ StatusStands
=============================================================================
