----------------------------- MODULE Mailboxes -----------------------------
(***************************************************************************)
(* Mailboxes and what is filed in them (internal/mailbox, the message      *)
(* store of internal/mail, the mailbox operations of internal/identity).   *)
(*                                                                         *)
(* A message is stored as a blob, a record and an index entry of its       *)
(* thread, one after the other, and then filed in a mailbox; an entry's    *)
(* folder and flags are edited by storing the entry again.  A mailbox of   *)
(* the platform itself (management, patches) is opened by whoever needs it *)
(* first.  Who gets a message is the matter of MailDelivery.               *)
(***************************************************************************)
EXTENDS Handlers, Sequences

CONSTANT Addresses  \* the platform mailbox's addresses, in order

Ids      == 1 .. MaxRequests   \* messages, entries and mailboxes: the request that made them
Domain   == {Addresses[i] : i \in DOMAIN Addresses}
Folders  == {"Inbox", "Archive", "Trash"}
Entry    == [folder : Folders, unread : BOOLEAN]
MailActions  == {"archive", "trash", "read", "unread"}
MailboxCalls ==
  [at : {"blob", "message", "thread", "entry"}, id : Ids]
    \cup [at : {"load", "edit"}, entry : Ids, action : MailActions, copy : Entry \cup {None}]
    \cup [at : {"ensure", "open"}, id : Ids]
    \cup [at : {"add"}, id : Ids, next : DOMAIN Addresses]

\* None is no mailbox, entry or call, and no folder that could be listed.
ASSUME MailboxesAssumption ==
  /\ Addresses \in Seq(Domain) /\ Addresses # <<>>
  /\ None \notin Ids \cup Entry \cup MailboxCalls
  /\ \A listed \in SUBSET Ids : None \notin [listed -> Entry]

VARIABLES
  blob, message, thread,  \* messages whose blob, record, thread index entry is stored
  entry,                  \* mailbox entries, each named as its message
  platformBox,            \* mailbox/account of the platform's mailbox
  addressed,              \* mailbox/address
  folder, flag,           \* history: each entry's last folder and flag asked for
  overwritten,            \* history: entries edited from a stale copy
  opened,                 \* history: platform mailboxes ever opened
  ensured                 \* history: EnsureManagementMailbox has returned a mailbox

filed == <<blob, message, thread, entry, folder, flag, overwritten>>
platform == <<platformBox, addressed, opened, ensured>>
mailboxVars == <<filed, platform>>

MailboxesInit ==
  /\ blob = {} /\ message = {} /\ thread = {}
  /\ entry = [e \in Ids |-> None]
  /\ platformBox = None /\ addressed = [d \in Domain |-> None]
  /\ folder = [e \in Ids |-> "Inbox"] /\ flag = [e \in Ids |-> TRUE]
  /\ overwritten = {} /\ opened = {} /\ ensured = FALSE

-----------------------------------------------------------------------------
(* A folder as its owner sees it: its entries with their messages and      *)
(* bodies, or None where one that is missing makes the folder fail.        *)

FolderEntries(f) == {e \in Ids : entry[e] # None /\ entry[e].folder = f}

MailboxItems(f) ==
  IF FolderEntries(f) \subseteq message \cap blob THEN [e \in FolderEntries(f) |-> entry[e]] ELSE None

-----------------------------------------------------------------------------
(* UpsertMessage and addMailboxEntry.                                      *)

BeginFiling(p) ==
  /\ Begin(p, [at |-> "blob", id |-> begun + 1])
  /\ UNCHANGED mailboxVars

StoreBlob(p) ==
  /\ At(p, "blob") /\ Goto(p, "message")
  /\ blob' = blob \cup {req[p].id}
  /\ UNCHANGED <<message, thread, entry, folder, flag, overwritten, platform>>

\* Mutant: the thread is told of the message before the message is stored.
StoreMessageLate(p) ==
  /\ At(p, "message") /\ Goto(p, "thread")
  /\ thread' = thread \cup {req[p].id}
  /\ UNCHANGED <<blob, message, entry, folder, flag, overwritten, platform>>

StoreMessage(p) ==
  /\ At(p, "message") /\ Goto(p, "thread")
  /\ message' = message \cup {req[p].id}
  /\ UNCHANGED <<blob, thread, entry, folder, flag, overwritten, platform>>

StoreThread(p) ==
  /\ At(p, "thread") /\ Goto(p, "entry")
  /\ thread' = thread \cup {req[p].id}
  /\ UNCHANGED <<blob, message, entry, folder, flag, overwritten, platform>>

\* AddEntry makes sure that the message exists.
AddEntry(p) ==
  LET m == req[p].id IN
  /\ At(p, "entry") /\ Return(p)
  /\ entry' = IF m \in message THEN [entry EXCEPT ![m] = [folder |-> "Inbox", unread |-> TRUE]] ELSE entry
  /\ UNCHANGED <<blob, message, thread, folder, flag, overwritten, platform>>

-----------------------------------------------------------------------------
(* UpdateMailboxEntry and UpdateManagementMailboxEntry.                    *)

UpdateMailboxEntry(p, e, action) ==
  /\ entry[e] # None
  /\ Begin(p, [at |-> "load", entry |-> e, action |-> action, copy |-> None])
  /\ UNCHANGED mailboxVars

\* mailboxItem: the entry with its message and body.
LoadItem(p) ==
  LET r == req[p] IN
  /\ At(p, "load")
  /\ IF entry[r.entry] # None /\ r.entry \in message \cap blob
     THEN Continue(p, [r EXCEPT !.at = "edit", !.copy = entry[r.entry]])
     ELSE Return(p)
  /\ UNCHANGED mailboxVars

Applied(item, action) ==
  CASE action = "archive" -> [item EXCEPT !.folder = "Archive"]
    [] action = "trash"   -> [item EXCEPT !.folder = "Trash"]
    [] OTHER              -> [item EXCEPT !.unread = (action = "unread")]

UpdateEntry(p) ==
  LET r == req[p] e == r.entry IN
  /\ At(p, "edit") /\ Return(p)
  /\ entry' = [entry EXCEPT ![e] = Applied(r.copy, r.action)]
  /\ folder' = IF r.action = "archive" THEN [folder EXCEPT ![e] = "Archive"]
               ELSE IF r.action = "trash" THEN [folder EXCEPT ![e] = "Trash"] ELSE folder
  /\ flag' = IF r.action \in {"read", "unread"} THEN [flag EXCEPT ![e] = (r.action = "unread")] ELSE flag
  /\ overwritten' = IF entry[e] = r.copy THEN overwritten ELSE overwritten \cup {e}
  /\ UNCHANGED <<blob, message, thread, platform>>

-----------------------------------------------------------------------------
(* EnsureManagementMailbox and EnsurePatchMailbox.                         *)

EnsureMailbox(p) ==
  /\ Begin(p, [at |-> "ensure", id |-> begun + 1])
  /\ UNCHANGED mailboxVars

Adding(id) == [at |-> "add", id |-> id, next |-> 1]

LookUpPlatformBox(p) ==
  /\ At(p, "ensure")
  /\ IF platformBox = None THEN Goto(p, "open") ELSE Continue(p, Adding(platformBox))
  /\ UNCHANGED mailboxVars

\* UpsertMailbox, in one transaction; a mailbox opened since has the address.
OpenPlatformBox(p) ==
  LET id == req[p].id IN
  /\ At(p, "open")
  /\ IF addressed[Addresses[1]] \in {None, id}
     THEN /\ platformBox' = id
          /\ addressed' = [addressed EXCEPT ![Addresses[1]] = id]
          /\ opened' = opened \cup {id}
          /\ Continue(p, Adding(id))
     ELSE Return(p) /\ UNCHANGED <<platformBox, addressed, opened>>
  /\ UNCHANGED <<filed, ensured>>

AddAddress(p) ==
  LET r == req[p] d == Addresses[r.next] IN
  /\ At(p, "add")
  /\ IF addressed[d] \in {None, r.id}
     THEN /\ addressed' = [addressed EXCEPT ![d] = r.id]
          /\ IF r.next = Len(Addresses) THEN Return(p) ELSE Continue(p, [r EXCEPT !.next = @ + 1])
          /\ ensured' = (ensured \/ r.next = Len(Addresses))
     ELSE Return(p) /\ UNCHANGED <<addressed, ensured>>
  /\ UNCHANGED <<filed, platformBox, opened>>

FailMailboxCall(p) == p \in InFlight /\ Fault(p, None) /\ UNCHANGED mailboxVars
CrashMailboxes     == Crash /\ UNCHANGED mailboxVars

MailboxesNext ==
  \/ \E p \in Requests :
       \/ BeginFiling(p) \/ StoreBlob(p) \/ StoreMessage(p) \/ StoreThread(p) \/ AddEntry(p)
       \/ \E e \in Ids, action \in MailActions : UpdateMailboxEntry(p, e, action)
       \/ LoadItem(p) \/ UpdateEntry(p)
       \/ EnsureMailbox(p) \/ LookUpPlatformBox(p) \/ OpenPlatformBox(p) \/ AddAddress(p)
       \/ FailMailboxCall(p)
  \/ CrashMailboxes

-----------------------------------------------------------------------------
\* Every variable has its type, and each handler is at a call of its operation.
MailboxesTypeOK ==
  /\ HandlersIn("mailboxes", MailboxCalls)
  /\ blob \subseteq Ids /\ message \subseteq Ids /\ thread \subseteq Ids
  /\ entry \in [Ids -> Entry \cup {None}]
  /\ platformBox \in Ids \cup {None} /\ addressed \in [Domain -> Ids \cup {None}]
  /\ folder \in [Ids -> Folders] /\ flag \in [Ids -> BOOLEAN]
  /\ overwritten \subseteq Ids /\ opened \subseteq Ids /\ ensured \in BOOLEAN

\* Whatever is cut short, listing a folder or a thread finds every message it names, with
\* its blob: one that is missing makes identity.mailboxItems and mail.MessagesByThread fail.
ListingsReadable ==
  /\ \A f \in Folders : MailboxItems(f) # None
  /\ thread \subseteq message /\ message \subseteq blob

\* An entry is where it was last moved to and marked as it was last marked, unless an edit
\* was made from a copy older than another (identity.applyMailboxAction stores it whole).
EditsKept ==
  \A e \in Ids \ overwritten :
    entry[e] # None => entry[e] = [folder |-> folder[e], unread |-> flag[e]]

\* However many requests find no mailbox of the platform, one opens it and mail filed in it
\* stays in sight (identity.EnsureManagementMailbox looks first and opens later).
OnePlatformMailbox == Cardinality(opened) <= 1 /\ (opened # {} => platformBox \in opened)

\* A mailbox that was returned has all of its addresses, also one found half made.
AddressesComplete == ensured => \A d \in Domain : addressed[d] = platformBox

\* A mailbox can be opened and read, and is as its owner left it; the platform's is one.
MailboxesPromise == ListingsReadable /\ EditsKept /\ OnePlatformMailbox /\ AddressesComplete
=============================================================================
