----------------------- MODULE AccountServices_proofs -----------------------
(***************************************************************************)
(* Proofs about the services around an account: mailboxes, administration, *)
(* starts and accounts, each with a specification of its own; then about   *)
(* the specification that the run of MCAccountServices checks, in which    *)
(* any of these and of the services of PublicServices_proofs is at work.   *)
(***************************************************************************)
EXTENDS PublicServices_proofs, MCAccountServices

-----------------------------------------------------------------------------
(* Mailboxes.                                                              *)

MailboxesSpec ==
  HandlersInit /\ service = "mailboxes" /\ MailboxesInit /\ [][MailboxesNext]_<<handlers, mailboxVars>>

Filing(p)  == p \in InFlight /\ req[p].at \in {"blob", "message", "thread", "entry"}
Editing(p) == p \in InFlight /\ req[p].at \in {"load", "edit"}

\* What is named is stored, and what is stored stays, so each call of a filing or an edit finds
\* what the calls before it have left.
FilingInOrder ==
  /\ thread \subseteq message /\ message \subseteq blob
  /\ \A e \in Ids : entry[e] # None => e \in message
  /\ \A p \in Requests :
       /\ At(p, "message") => req[p].id \in blob
       /\ At(p, "thread") => req[p].id \in message
       /\ Editing(p) => entry[req[p].entry] # None
       /\ At(p, "edit") => req[p].copy # None

\* Every message is filed by one request, and nothing is edited before that.
FilersApart ==
  /\ \A p \in Requests : Filing(p) => req[p].id <= begun /\ entry[req[p].id] = None
  /\ \A p, q \in Requests : Filing(p) /\ Filing(q) /\ req[p].id = req[q].id => p = q
  /\ \A e \in Ids : entry[e] # None => e <= begun
  /\ \A e \in Ids : entry[e] = None => folder[e] = "Inbox" /\ flag[e] = TRUE

\* The first mailbox to take the first address is the platform's, and no other takes any.
OneTakesAddresses ==
  /\ \A d \in Domain : addressed[d] \in {None, platformBox}
  /\ addressed[Addresses[1]] = platformBox
  /\ opened = {platformBox} \ {None}
  /\ ensured => platformBox # None /\ AddressesComplete
  /\ \A p \in Requests : At(p, "add") =>
       /\ req[p].id = platformBox /\ platformBox # None
       /\ \A i \in 1 .. req[p].next - 1 : addressed[Addresses[i]] = platformBox

MailboxInv ==
  service = "mailboxes" /\ MailboxesTypeOK /\ FilingInOrder /\ FilersApart /\ EditsKept /\ OneTakesAddresses

LEMMA MailboxCallForms ==
  ASSUME NEW c \in MailboxCalls
  PROVE  /\ c # None
         /\ c.at \in {"blob", "message", "thread", "entry", "load", "edit", "ensure", "open", "add"}
         /\ c.at \in {"blob", "message", "thread", "entry", "ensure", "open", "add"} => c.id \in Ids
         /\ c.at \in {"load", "edit"} => c.entry \in Ids /\ c.action \in MailActions /\ c.copy \in Entry \cup {None}
         /\ c.at = "add" => c.next \in 1 .. Len(Addresses)
<1>1. None \notin MailboxCalls /\ DOMAIN Addresses = 1 .. Len(Addresses)
  BY MailboxesAssumption
<1> QED
  BY <1>1 DEF MailboxCalls

LEMMA FilingCallMoved ==
  ASSUME NEW c \in MailboxCalls, c.at \in {"blob", "message", "thread", "entry"},
         NEW place \in {"blob", "message", "thread", "entry"}
  PROVE  LET d == [c EXCEPT !.at = place] IN d \in MailboxCalls /\ d.at = place /\ d.id = c.id
BY DEF MailboxCalls

LEMMA EditCallMoved ==
  ASSUME NEW c \in MailboxCalls, c.at = "load", NEW item \in Entry
  PROVE  LET d == [c EXCEPT !.at = "edit", !.copy = item] IN
         d \in MailboxCalls /\ d.at = "edit" /\ d.entry = c.entry /\ d.action = c.action /\ d.copy = item
<1>1. c \in [at : {"load", "edit"}, entry : Ids, action : MailActions, copy : Entry \cup {None}]
  BY DEF MailboxCalls
<1> QED
  BY <1>1 DEF MailboxCalls

LEMMA EnsureCallMoved ==
  ASSUME NEW c \in MailboxCalls, c.at = "ensure"
  PROVE  LET d == [c EXCEPT !.at = "open"] IN d \in MailboxCalls /\ d.at = "open" /\ d.id = c.id
BY DEF MailboxCalls

LEMMA AddingIsCall ==
  ASSUME NEW id \in Ids
  PROVE  Adding(id) \in MailboxCalls /\ Adding(id).at = "add" /\ Adding(id).id = id /\ Adding(id).next = 1
<1>1. 1 \in DOMAIN Addresses
  BY MailboxesAssumption
<1> QED
  BY <1>1 DEF MailboxCalls, Adding

LEMMA AddCallMoved ==
  ASSUME NEW c \in MailboxCalls, c.at = "add", c.next # Len(Addresses)
  PROVE  LET d == [c EXCEPT !.next = @ + 1] IN
         d \in MailboxCalls /\ d.at = "add" /\ d.id = c.id /\ d.next = c.next + 1
<1>1. c \in [at : {"add"}, id : Ids, next : DOMAIN Addresses]
  BY DEF MailboxCalls
<1>2. DOMAIN Addresses = 1 .. Len(Addresses) /\ Len(Addresses) \in Nat
  BY MailboxesAssumption
<1> QED
  BY <1>1, <1>2 DEF MailboxCalls

LEMMA MailboxHandlers ==
  ASSUME MailboxInv
  PROVE  /\ req \in [Requests -> MailboxCalls \cup {None}] /\ begun \in 0 .. MaxRequests /\ faults \in 0 .. MaxFaults
         /\ service \in Services
         /\ \A p \in InFlight : p \in Requests /\ req[p] \in MailboxCalls
         /\ \A p \in Requests : p \in InFlight <=> req[p] # None
BY DEF MailboxInv, MailboxesTypeOK, HandlersIn, InFlight

\* A request goes on to call c, or ends.
LEMMA MailboxGoes ==
  ASSUME MailboxInv, NEW p \in Requests, NEW c \in MailboxCalls \cup {None}, Continue(p, c) \/ Fault(p, c)
  PROVE  /\ HandlersIn("mailboxes", MailboxCalls)' /\ service' = "mailboxes" /\ begun' = begun
         /\ req'[p] = c /\ (p \in InFlight' <=> c # None) /\ Others(p)
<1>1. /\ req' \in [Requests -> MailboxCalls \cup {None}] /\ Moves(p, c)
      /\ faults' \in 0 .. MaxFaults /\ UNCHANGED <<service, begun>>
  BY MailboxHandlers, Continued, Faulted
<1> QED
  BY <1>1, Moved, MailboxHandlers DEF HandlersIn, MailboxInv

LEMMA MailboxEnds ==
  ASSUME MailboxInv, NEW p \in Requests, Return(p) \/ Fault(p, None)
  PROVE  /\ HandlersIn("mailboxes", MailboxCalls)' /\ service' = "mailboxes" /\ begun' = begun
         /\ p \notin InFlight' /\ Others(p)
<1> DEFINE n == None
<1>1. n \in MailboxCalls \cup {None} /\ (Continue(p, n) \/ Fault(p, n))
  BY DEF Return
<1> QED
  BY <1>1, MailboxGoes

\* Where nothing stored is lost and p's next call finds what it needs.
LEMMA FilingStaysInOrder ==
  ASSUME MailboxInv, NEW p \in Requests, Others(p),
         message \subseteq message', blob \subseteq blob',
         thread' \subseteq message', message' \subseteq blob',
         \A e \in Ids : entry[e] # None => entry'[e] # None,
         \A e \in Ids : entry'[e] # None => e \in message',
         p \in InFlight' =>
           /\ req'[p].at = "message" => req'[p].id \in blob'
           /\ req'[p].at = "thread" => req'[p].id \in message'
           /\ req'[p].at \in {"load", "edit"} => entry'[req'[p].entry] # None
           /\ req'[p].at = "edit" => req'[p].copy # None
  PROVE  FilingInOrder'
<1> SUFFICES ASSUME NEW q \in Requests
             PROVE  /\ At(q, "message")' => req'[q].id \in blob'
                    /\ At(q, "thread")' => req'[q].id \in message'
                    /\ Editing(q)' => entry'[req'[q].entry] # None
                    /\ At(q, "edit")' => req'[q].copy # None
  BY DEF FilingInOrder
<1>1. CASE q = p
  BY <1>1 DEF At, Editing
<1>2. CASE q # p
  <2>1. req'[q] = req[q] /\ (q \in InFlight' <=> q \in InFlight)
    BY <1>2 DEF Others
  <2>2. q \in InFlight => req[q] \in MailboxCalls
    BY MailboxHandlers
  <2>3. Editing(q) => req[q].entry \in Ids
    BY <2>2, MailboxCallForms DEF Editing
  <2> QED
    BY <2>1, <2>3 DEF MailboxInv, FilingInOrder, At, Editing
<1> QED
  BY <1>1, <1>2

\* Where no message is filed.
LEMMA FilersStayApart ==
  ASSUME MailboxInv, NEW p \in Requests, Others(p), UNCHANGED <<entry, folder, flag>>, begun' = begun,
         Filing(p)' => Filing(p) /\ req'[p].id = req[p].id
  PROVE  FilersApart'
<1>1. \A q \in Requests : Filing(q)' => Filing(q) /\ req'[q].id = req[q].id
  BY DEF Others, Filing
<1> QED
  BY <1>1 DEF MailboxInv, FilersApart

LEMMA OneStillTakes ==
  ASSUME MailboxInv, NEW p \in Requests, Others(p), UNCHANGED platform,
         p \in InFlight' /\ req'[p].at = "add" =>
           /\ req'[p].id = platformBox /\ platformBox # None
           /\ \A i \in 1 .. req'[p].next - 1 : addressed[Addresses[i]] = platformBox
  PROVE  OneTakesAddresses'
<1>1. \A q \in Requests : At(q, "add")' =>
        /\ req'[q].id = platformBox /\ platformBox # None
        /\ \A i \in 1 .. req'[q].next - 1 : addressed[Addresses[i]] = platformBox
  <2> SUFFICES ASSUME NEW q \in Requests, At(q, "add")'
               PROVE  /\ req'[q].id = platformBox /\ platformBox # None
                      /\ \A i \in 1 .. req'[q].next - 1 : addressed[Addresses[i]] = platformBox
    OBVIOUS
  <2>1. CASE q = p
    BY <2>1 DEF At
  <2>2. CASE q # p
    BY <2>2 DEF Others, At, MailboxInv, OneTakesAddresses
  <2> QED
    BY <2>1, <2>2
<1> QED
  BY <1>1 DEF MailboxInv, OneTakesAddresses, platform, AddressesComplete

\* A step that stores nothing.
LEMMA MailboxesQuiet ==
  ASSUME MailboxInv, NEW p \in Requests, Others(p), UNCHANGED mailboxVars, begun' = begun,
         HandlersIn("mailboxes", MailboxCalls)', service' = "mailboxes",
         p \notin InFlight'
           \/ req'[p].at \in {"ensure", "open"}
           \/ (req'[p].at = "edit" /\ entry[req'[p].entry] # None /\ req'[p].copy # None)
           \/ /\ req'[p].at = "add" /\ req'[p].id = platformBox /\ platformBox # None
              /\ \A i \in 1 .. req'[p].next - 1 : addressed[Addresses[i]] = platformBox
  PROVE  MailboxInv'
<1> USE DEF mailboxVars, filed, platform
<1>1. MailboxesTypeOK'
  BY DEF MailboxInv, MailboxesTypeOK
<1>2. FilingInOrder'
  <2>1. /\ thread \subseteq message /\ message \subseteq blob
        /\ \A e \in Ids : entry[e] # None => e \in message
    BY DEF MailboxInv, FilingInOrder
  <2> QED
    BY <2>1, FilingStaysInOrder
<1>3. FilersApart'
  BY FilersStayApart DEF Filing
<1>4. EditsKept'
  BY DEF MailboxInv, EditsKept
<1>5. OneTakesAddresses'
  BY OneStillTakes
<1> QED
  BY <1>1, <1>2, <1>3, <1>4, <1>5 DEF MailboxInv

LEMMA MailboxBegins ==
  ASSUME MailboxInv, NEW p \in Requests, NEW c \in MailboxCalls, Begin(p, c)
  PROVE  /\ HandlersIn("mailboxes", MailboxCalls)' /\ service' = "mailboxes"
         /\ begun + 1 \in 1 .. MaxRequests /\ begun' = begun + 1
         /\ p \notin InFlight /\ req'[p] = c /\ p \in InFlight' /\ Others(p)
<1>1. /\ req[p] = None /\ req' \in [Requests -> MailboxCalls \cup {None}] /\ Moves(p, c)
      /\ begun + 1 \in 1 .. MaxRequests /\ begun' = begun + 1 /\ begun' \in 0 .. MaxRequests
      /\ UNCHANGED <<service, faults>>
  BY MailboxHandlers, Begun
<1>2. c # None
  BY MailboxCallForms
<1> QED
  BY <1>1, <1>2, Moved, MailboxHandlers DEF HandlersIn, MailboxInv

\* The start of a request that files no message.
LEMMA MailboxesBeginQuiet ==
  ASSUME MailboxInv, NEW p \in Requests, NEW c \in MailboxCalls, Begin(p, c), UNCHANGED mailboxVars,
         c.at = "ensure" \/ (c.at = "load" /\ entry[c.entry] # None)
  PROVE  MailboxInv'
<1> USE DEF mailboxVars, filed, platform
<1>1. /\ HandlersIn("mailboxes", MailboxCalls)' /\ service' = "mailboxes"
      /\ begun' = begun + 1 /\ p \in InFlight' /\ req'[p] = c /\ Others(p)
  BY MailboxBegins
<1>2. MailboxesTypeOK'
  BY <1>1 DEF MailboxInv, MailboxesTypeOK
<1>3. FilingInOrder'
  <2>1. /\ thread \subseteq message /\ message \subseteq blob
        /\ \A e \in Ids : entry[e] # None => e \in message
    BY DEF MailboxInv, FilingInOrder
  <2> QED
    BY <1>1, <2>1, FilingStaysInOrder
<1>4. FilersApart'
  <2>1. \A q \in Requests : Filing(q)' => Filing(q) /\ req'[q].id = req[q].id /\ req[q].id \in Ids
    BY <1>1, MailboxHandlers, MailboxCallForms DEF Filing, Others
  <2>2. begun \in Nat
    BY MailboxHandlers
  <2> QED
    BY <1>1, <2>1, <2>2 DEF MailboxInv, FilersApart, Ids
<1>5. EditsKept'
  BY DEF MailboxInv, EditsKept
<1>6. OneTakesAddresses'
  BY <1>1, OneStillTakes
<1> QED
  BY <1>1, <1>2, <1>3, <1>4, <1>5, <1>6 DEF MailboxInv

LEMMA MailboxesStart == HandlersInit /\ service = "mailboxes" /\ MailboxesInit => MailboxInv
<1> SUFFICES ASSUME HandlersInit, service = "mailboxes", MailboxesInit
             PROVE  MailboxInv
  OBVIOUS
<1>1. InFlight = {}
  BY DEF HandlersInit, InFlight
<1>2. MailboxesTypeOK
  <2>1. HandlersIn("mailboxes", MailboxCalls)
    BY HandlersAssumption DEF HandlersInit, HandlersIn
  <2>2. /\ blob = {} /\ message = {} /\ thread = {} /\ overwritten = {} /\ opened = {} /\ ensured \in BOOLEAN
        /\ platformBox \in Ids \cup {None} /\ addressed \in [Domain -> Ids \cup {None}]
    BY DEF MailboxesInit
  <2>3. entry \in [Ids -> Entry \cup {None}] /\ folder \in [Ids -> Folders]
    BY DEF MailboxesInit, Folders
  <2>4. flag \in [Ids -> BOOLEAN]
    BY DEF MailboxesInit
  <2> QED
    BY <2>1, <2>2, <2>3, <2>4 DEF MailboxesTypeOK
<1>3. FilingInOrder /\ FilersApart /\ EditsKept
  BY <1>1 DEF MailboxesInit, FilingInOrder, FilersApart, EditsKept, At, Editing, Filing
<1>4. Addresses[1] \in Domain
  BY MailboxesAssumption DEF Domain
<1>5. OneTakesAddresses
  BY <1>1, <1>4 DEF MailboxesInit, OneTakesAddresses, At
<1> QED
  BY <1>2, <1>3, <1>5 DEF MailboxInv

LEMMA MessageFilingBegun ==
  ASSUME MailboxInv, NEW p \in Requests, BeginFiling(p)
  PROVE  MailboxInv'
<1> DEFINE c == [at |-> "blob", id |-> begun + 1]
<1>1. Begin(p, c) /\ UNCHANGED mailboxVars
  BY DEF BeginFiling
<1>2. c \in MailboxCalls
  <2>1. begun + 1 \in Ids
    BY <1>1, HandlersAssumption, MailboxHandlers DEF Begin, Ids
  <2> QED
    BY <2>1 DEF MailboxCalls
<1>3. c.at = "blob" /\ c.id = begun + 1
  OBVIOUS
<1> HIDE DEF c
<1>4. /\ HandlersIn("mailboxes", MailboxCalls)' /\ service' = "mailboxes"
      /\ begun + 1 \in 1 .. MaxRequests /\ begun' = begun + 1
      /\ p \notin InFlight /\ req'[p] = c /\ p \in InFlight' /\ Others(p)
  BY <1>1, <1>2, MailboxBegins
<1> USE DEF mailboxVars, filed, platform
<1>5. MailboxesTypeOK'
  BY <1>1, <1>4 DEF MailboxInv, MailboxesTypeOK
<1>6. FilingInOrder'
  <2>1. /\ thread \subseteq message /\ message \subseteq blob
        /\ \A e \in Ids : entry[e] # None => e \in message
    BY DEF MailboxInv, FilingInOrder
  <2> QED
    BY <1>1, <1>3, <1>4, <2>1, FilingStaysInOrder
<1>7. FilersApart'
  <2>1. begun \in Nat
    BY MailboxHandlers
  <2>2. \A q \in Requests \ {p} :
          Filing(q)' => Filing(q) /\ req'[q].id = req[q].id /\ req[q].id \in Ids /\ req[q].id <= begun
    BY <1>4, MailboxHandlers, MailboxCallForms DEF Filing, Others, MailboxInv, FilersApart
  <2>3. req'[p].id = begun + 1 /\ entry[begun + 1] = None
    BY <1>3, <1>4, <2>1 DEF MailboxInv, FilersApart, Ids
  <2>4. \A q \in Requests : Filing(q)' => req'[q].id <= begun' /\ entry'[req'[q].id] = None
    BY <1>1, <1>4, <2>1, <2>2, <2>3 DEF MailboxInv, FilersApart, Ids
  <2>5. \A q, r \in Requests : Filing(q)' /\ Filing(r)' /\ req'[q].id = req'[r].id => q = r
    BY <2>1, <2>2, <2>3 DEF MailboxInv, FilersApart, Ids
  <2> QED
    BY <1>1, <1>4, <2>1, <2>4, <2>5 DEF MailboxInv, FilersApart, Ids
<1>8. EditsKept'
  BY <1>1 DEF MailboxInv, EditsKept
<1>9. OneTakesAddresses'
  BY <1>1, <1>3, <1>4, OneStillTakes
<1> QED
  BY <1>4, <1>5, <1>6, <1>7, <1>8, <1>9 DEF MailboxInv

\* A message's blob, record or place in its thread is stored.
LEMMA MessageStored ==
  ASSUME MailboxInv, NEW p \in Requests, StoreBlob(p) \/ StoreMessage(p) \/ StoreThread(p)
  PROVE  MailboxInv'
<1> DEFINE next == CASE req[p].at = "blob" -> "message" [] req[p].at = "message" -> "thread"
                     [] req[p].at = "thread" -> "entry"
           c == [req[p] EXCEPT !.at = next]
<1>1. /\ p \in InFlight /\ req[p].at \in {"blob", "message", "thread"} /\ Continue(p, c)
      /\ next = CASE req[p].at = "blob" -> "message" [] req[p].at = "message" -> "thread"
                  [] req[p].at = "thread" -> "entry"
  BY DEF StoreBlob, StoreMessage, StoreThread, At, Goto
<1>2. /\ c \in MailboxCalls /\ c.at = next /\ c.id = req[p].id /\ req[p].id \in Ids
      /\ next \in {"message", "thread", "entry"}
  <2>1. req[p] \in MailboxCalls /\ req[p].at \in {"blob", "message", "thread", "entry"}
    BY <1>1, MailboxHandlers
  <2>2. next \in {"blob", "message", "thread", "entry"} /\ next \in {"message", "thread", "entry"}
    BY <1>1
  <2>3. c \in MailboxCalls /\ c.at = next /\ c.id = req[p].id
    BY <2>1, <2>2, FilingCallMoved
  <2> QED
    BY <2>1, <2>2, <2>3, MailboxCallForms
<1> HIDE DEF c, next
<1>3. /\ HandlersIn("mailboxes", MailboxCalls)' /\ service' = "mailboxes" /\ begun' = begun
      /\ req'[p] = c /\ p \in InFlight' /\ Others(p)
  BY <1>1, <1>2, MailboxGoes, MailboxCallForms
<1>4. /\ UNCHANGED <<entry, folder, flag, overwritten, platform>>
      /\ blob' = IF next = "message" THEN blob \cup {req[p].id} ELSE blob
      /\ message' = IF next = "thread" THEN message \cup {req[p].id} ELSE message
      /\ thread' = IF next = "entry" THEN thread \cup {req[p].id} ELSE thread
  BY <1>1 DEF StoreBlob, StoreMessage, StoreThread, At
<1>5. (next = "thread" => req[p].id \in blob) /\ (next = "entry" => req[p].id \in message)
  BY <1>1 DEF MailboxInv, FilingInOrder, At
<1>6. MailboxesTypeOK'
  BY <1>2, <1>3, <1>4 DEF MailboxInv, MailboxesTypeOK, platform
<1>7. FilingInOrder'
  <2>1. /\ thread \subseteq message /\ message \subseteq blob
        /\ \A e \in Ids : entry[e] # None => e \in message
    BY DEF MailboxInv, FilingInOrder
  <2>2. thread' \subseteq message' /\ message' \subseteq blob' /\ message \subseteq message' /\ blob \subseteq blob'
    BY <1>2, <1>4, <1>5, <2>1
  <2>3. next = "message" => req[p].id \in blob'
    BY <1>4
  <2>4. next = "thread" => req[p].id \in message'
    BY <1>4
  <2> QED
    BY <1>2, <1>3, <1>4, <2>1, <2>2, <2>3, <2>4, FilingStaysInOrder
<1>8. FilersApart'
  BY <1>1, <1>2, <1>3, <1>4, FilersStayApart DEF Filing
<1>9. EditsKept'
  BY <1>4 DEF MailboxInv, EditsKept
<1>10. OneTakesAddresses'
  BY <1>2, <1>3, <1>4, OneStillTakes
<1> QED
  BY <1>3, <1>6, <1>7, <1>8, <1>9, <1>10 DEF MailboxInv

LEMMA EntryAdded ==
  ASSUME MailboxInv, NEW p \in Requests, AddEntry(p)
  PROVE  MailboxInv'
<1> DEFINE m == req[p].id
           new == [folder |-> "Inbox", unread |-> TRUE]
<1>1. /\ p \in InFlight /\ req[p].at = "entry" /\ Return(p)
      /\ entry' = IF m \in message THEN [entry EXCEPT ![m] = new] ELSE entry
      /\ UNCHANGED <<blob, message, thread, folder, flag, overwritten, platform>>
  BY DEF AddEntry, At
<1>2. m \in Ids /\ m <= begun /\ entry[m] = None /\ Filing(p)
  BY <1>1, MailboxHandlers, MailboxCallForms DEF MailboxInv, FilersApart, Filing
<1>3. \A q \in Requests \ {p} : Filing(q) => req[q].id # m
  BY <1>2 DEF MailboxInv, FilersApart
<1>4. /\ HandlersIn("mailboxes", MailboxCalls)' /\ service' = "mailboxes" /\ begun' = begun
      /\ p \notin InFlight' /\ Others(p)
  BY <1>1, MailboxEnds
<1>5. new \in Entry /\ new # None
  <2>1. new \in Entry
    BY DEF Entry, Folders
  <2> QED
    BY <2>1, MailboxesAssumption
<1> HIDE DEF m
<1>6. new.folder = "Inbox" /\ new.unread = TRUE
  OBVIOUS
<1>7. entry \in [Ids -> Entry \cup {None}]
  BY DEF MailboxInv, MailboxesTypeOK
<1>8. /\ entry' \in [Ids -> Entry \cup {None}]
      /\ \A e \in Ids \ {m} : entry'[e] = entry[e]
      /\ entry'[m] = None \/ (entry'[m] = new /\ m \in message)
  BY <1>1, <1>2, <1>5, <1>7
<1>9. MailboxesTypeOK'
  BY <1>1, <1>4, <1>8 DEF MailboxInv, MailboxesTypeOK, platform
<1>10. FilingInOrder'
  <2>1. /\ thread \subseteq message /\ message \subseteq blob
        /\ \A e \in Ids : entry[e] # None => e \in message
    BY DEF MailboxInv, FilingInOrder
  <2>2. /\ \A e \in Ids : entry[e] # None => entry'[e] # None
        /\ \A e \in Ids : entry'[e] # None => e \in message
    BY <1>2, <1>8, <2>1
  <2> QED
    BY <1>1, <1>4, <2>1, <2>2, FilingStaysInOrder
<1>11. FilersApart'
  <2>1. \A q \in Requests : Filing(q)' => q # p /\ Filing(q) /\ req'[q].id = req[q].id /\ req[q].id \in Ids
    BY <1>4, MailboxHandlers, MailboxCallForms DEF Filing, Others
  <2>2. \A q \in Requests : Filing(q)' => req'[q].id <= begun' /\ entry'[req'[q].id] = None
    BY <1>3, <1>4, <1>8, <2>1 DEF MailboxInv, FilersApart
  <2>3. \A q, r \in Requests : Filing(q)' /\ Filing(r)' /\ req'[q].id = req'[r].id => q = r
    BY <2>1 DEF MailboxInv, FilersApart
  <2>4. \A e \in Ids : entry'[e] # None => e <= begun'
    BY <1>2, <1>4, <1>8 DEF MailboxInv, FilersApart
  <2>5. \A e \in Ids : entry'[e] = None => folder'[e] = "Inbox" /\ flag'[e] = TRUE
    BY <1>1, <1>2, <1>8 DEF MailboxInv, FilersApart
  <2> QED
    BY <2>2, <2>3, <2>4, <2>5 DEF FilersApart
<1>12. EditsKept'
  <2>1. folder[m] = "Inbox" /\ flag[m] = TRUE
    BY <1>2 DEF MailboxInv, FilersApart
  <2> HIDE DEF new
  <2>2. [folder |-> folder[m], unread |-> flag[m]] = new
    BY <2>1 DEF new
  <2> QED
    BY <1>1, <1>8, <2>2 DEF MailboxInv, EditsKept
<1>13. OneTakesAddresses'
  BY <1>1, <1>4, OneStillTakes
<1> QED
  BY <1>4, <1>9, <1>10, <1>11, <1>12, <1>13 DEF MailboxInv

\* What an action asks for is what its entry gets, in the part that it does not leave alone.
LEMMA AppliedAsAsked ==
  ASSUME NEW item \in Entry, NEW action \in MailActions
  PROVE  /\ Applied(item, action) \in Entry
         /\ action = "archive" => Applied(item, action) = [folder |-> "Archive", unread |-> item.unread]
         /\ action = "trash" => Applied(item, action) = [folder |-> "Trash", unread |-> item.unread]
         /\ action \in {"read", "unread"} =>
              Applied(item, action) = [folder |-> item.folder, unread |-> (action = "unread")]
<1>1. CASE action = "archive"
  BY <1>1 DEF Applied, Entry, Folders
<1>2. CASE action = "trash"
  BY <1>2 DEF Applied, Entry, Folders
<1>3. CASE action \in {"read", "unread"}
  <2>1. Applied(item, action) = [item EXCEPT !.unread = (action = "unread")]
    BY <1>3 DEF Applied
  <2>2. (action = "unread") \in BOOLEAN
    OBVIOUS
  <2> QED
    BY <1>3, <2>1, <2>2 DEF Entry
<1> QED
  BY <1>1, <1>2, <1>3 DEF MailActions

LEMMA EntryEdited ==
  ASSUME MailboxInv, NEW p \in Requests, UpdateEntry(p)
  PROVE  MailboxInv'
<1>1. PICK r \in MailboxCalls : r = req[p] /\ p \in InFlight
  BY MailboxHandlers DEF UpdateEntry, At
<1>2. PICK e \in Ids : e = r.entry /\ r.at = "edit" /\ r.action \in MailActions /\ r.copy \in Entry \cup {None}
  BY <1>1, MailboxCallForms DEF UpdateEntry, At
<1>3. PICK new : new = Applied(r.copy, r.action)
  OBVIOUS
<1>4. /\ Return(p) /\ entry' = [entry EXCEPT ![e] = new]
      /\ folder' = IF r.action = "archive" THEN [folder EXCEPT ![e] = "Archive"]
                   ELSE IF r.action = "trash" THEN [folder EXCEPT ![e] = "Trash"] ELSE folder
      /\ flag' = IF r.action \in {"read", "unread"} THEN [flag EXCEPT ![e] = (r.action = "unread")] ELSE flag
      /\ overwritten' = IF entry[e] = r.copy THEN overwritten ELSE overwritten \cup {e}
      /\ UNCHANGED <<blob, message, thread, platform>>
  BY <1>1, <1>2, <1>3 DEF UpdateEntry
<1>5. entry[e] # None /\ r.copy \in Entry
  BY <1>1, <1>2 DEF MailboxInv, FilingInOrder, Editing, At
<1>6. new \in Entry /\ new # None
  <2>1. new \in Entry
    BY <1>2, <1>3, <1>5, AppliedAsAsked
  <2> QED
    BY <2>1, MailboxesAssumption
<1>7. /\ HandlersIn("mailboxes", MailboxCalls)' /\ service' = "mailboxes" /\ begun' = begun
      /\ p \notin InFlight' /\ Others(p)
  BY <1>4, MailboxEnds
<1>8. entry \in [Ids -> Entry \cup {None}] /\ folder \in [Ids -> Folders] /\ flag \in [Ids -> BOOLEAN]
  BY DEF MailboxInv, MailboxesTypeOK
<1>9. /\ entry' \in [Ids -> Entry \cup {None}] /\ entry'[e] = new
      /\ \A x \in Ids \ {e} : entry'[x] = entry[x]
  BY <1>4, <1>6, <1>8
<1>10. folder' \in [Ids -> Folders] /\ \A x \in Ids \ {e} : folder'[x] = folder[x]
  BY <1>4, <1>8 DEF Folders
<1>11. flag' \in [Ids -> BOOLEAN] /\ \A x \in Ids \ {e} : flag'[x] = flag[x]
  <2>1. (r.action = "unread") \in BOOLEAN
    OBVIOUS
  <2> QED
    BY <1>4, <1>8, <2>1
<1>12. overwritten' \subseteq overwritten \cup {e} /\ overwritten \subseteq overwritten'
  BY <1>4
<1>13. MailboxesTypeOK'
  BY <1>4, <1>7, <1>9, <1>10, <1>11, <1>12 DEF MailboxInv, MailboxesTypeOK, platform
<1>14. FilingInOrder'
  <2>1. /\ thread \subseteq message /\ message \subseteq blob
        /\ \A x \in Ids : entry[x] # None => x \in message
    BY DEF MailboxInv, FilingInOrder
  <2>2. /\ \A x \in Ids : entry[x] # None => entry'[x] # None
        /\ \A x \in Ids : entry'[x] # None => x \in message
    BY <1>5, <1>6, <1>9, <2>1
  <2> QED
    BY <1>4, <1>7, <2>1, <2>2, FilingStaysInOrder
<1>15. FilersApart'
  <2>1. \A q \in Requests : Filing(q)' => Filing(q) /\ req'[q].id = req[q].id /\ req[q].id \in Ids /\ req[q].id # e
    <3>1. \A q \in Requests : Filing(q)' => Filing(q) /\ req'[q].id = req[q].id /\ req[q].id \in Ids
      BY <1>7, MailboxHandlers, MailboxCallForms DEF Filing, Others
    <3> QED
      BY <1>5, <3>1 DEF MailboxInv, FilersApart
  <2>2. \A q \in Requests : Filing(q)' => req'[q].id <= begun' /\ entry'[req'[q].id] = None
    BY <1>7, <1>9, <2>1 DEF MailboxInv, FilersApart
  <2>3. \A q, s \in Requests : Filing(q)' /\ Filing(s)' /\ req'[q].id = req'[s].id => q = s
    BY <2>1 DEF MailboxInv, FilersApart
  <2>4. \A x \in Ids : entry'[x] # None => x <= begun'
    BY <1>5, <1>7, <1>9 DEF MailboxInv, FilersApart
  <2>5. \A x \in Ids : entry'[x] = None => folder'[x] = "Inbox" /\ flag'[x] = TRUE
    BY <1>6, <1>9, <1>10, <1>11 DEF MailboxInv, FilersApart
  <2> QED
    BY <2>2, <2>3, <2>4, <2>5 DEF FilersApart
<1>16. EditsKept'
  <2>1. \A x \in Ids \ overwritten' : x # e /\ entry'[x] # None =>
          entry'[x] = [folder |-> folder'[x], unread |-> flag'[x]]
    BY <1>9, <1>10, <1>11, <1>12 DEF MailboxInv, EditsKept
  <2>2. ASSUME e \notin overwritten'
        PROVE  new = [folder |-> folder'[e], unread |-> flag'[e]]
    <3>1. entry[e] = r.copy /\ e \notin overwritten
      BY <1>4, <2>2
    <3>2. r.copy = [folder |-> folder[e], unread |-> flag[e]]
      BY <1>5, <3>1 DEF MailboxInv, EditsKept
    <3>3. r.copy.folder = folder[e] /\ r.copy.unread = flag[e]
      BY <3>2
    <3>4. CASE r.action = "archive"
      <4>1. new = [folder |-> "Archive", unread |-> flag[e]]
        BY <1>2, <1>3, <1>5, <3>3, <3>4, AppliedAsAsked
      <4>2. folder'[e] = "Archive" /\ flag' = flag
        BY <1>4, <1>8, <3>4
      <4> QED
        BY <4>1, <4>2
    <3>5. CASE r.action = "trash"
      <4>1. new = [folder |-> "Trash", unread |-> flag[e]]
        BY <1>2, <1>3, <1>5, <3>3, <3>5, AppliedAsAsked
      <4>2. folder'[e] = "Trash" /\ flag' = flag
        BY <1>4, <1>8, <3>5
      <4> QED
        BY <4>1, <4>2
    <3>6. CASE r.action \in {"read", "unread"}
      <4>1. new = [folder |-> folder[e], unread |-> (r.action = "unread")]
        BY <1>2, <1>3, <1>5, <3>3, <3>6, AppliedAsAsked
      <4>2. folder' = folder
        BY <1>4, <3>6
      <4>3. flag'[e] = (r.action = "unread")
        BY <1>4, <1>8, <3>6
      <4> QED
        BY <4>1, <4>2, <4>3
    <3> QED
      BY <1>2, <3>4, <3>5, <3>6 DEF MailActions
  <2> QED
    BY <1>9, <2>1, <2>2 DEF EditsKept
<1>17. OneTakesAddresses'
  BY <1>4, <1>7, OneStillTakes
<1> QED
  BY <1>7, <1>13, <1>14, <1>15, <1>16, <1>17 DEF MailboxInv

\* The requests of an edit up to where it stores its copy.
LEMMA EditMade ==
  ASSUME MailboxInv, NEW p \in Requests,
         (\E e \in Ids, action \in MailActions : UpdateMailboxEntry(p, e, action)) \/ LoadItem(p)
  PROVE  MailboxInv'
<1>1. ASSUME NEW e \in Ids, NEW action \in MailActions, UpdateMailboxEntry(p, e, action)
      PROVE  MailboxInv'
  <2>1. PICK c : c = [at |-> "load", entry |-> e, action |-> action, copy |-> None]
    OBVIOUS
  <2>2. c \in MailboxCalls /\ c.at = "load" /\ c.entry = e
    BY <2>1 DEF MailboxCalls
  <2> QED
    BY <1>1, <2>1, <2>2, MailboxesBeginQuiet DEF UpdateMailboxEntry
<1>2. ASSUME LoadItem(p)
      PROVE  MailboxInv'
  <2>1. p \in InFlight /\ req[p].at = "load" /\ req[p] \in MailboxCalls /\ UNCHANGED mailboxVars
    BY <1>2, MailboxHandlers DEF LoadItem, At
  <2>2. CASE Return(p)
    BY <2>1, <2>2, MailboxEnds, MailboxesQuiet
  <2>3. CASE /\ entry[req[p].entry] # None
             /\ Continue(p, [req[p] EXCEPT !.at = "edit", !.copy = entry[req[p].entry]])
    <3>1. PICK item \in Entry : item = entry[req[p].entry]
      BY <2>1, <2>3, MailboxCallForms DEF MailboxInv, MailboxesTypeOK
    <3>2. PICK c : c = [req[p] EXCEPT !.at = "edit", !.copy = item]
      OBVIOUS
    <3>3. c \in MailboxCalls /\ c.at = "edit" /\ c.entry = req[p].entry /\ c.copy = item
      BY <2>1, <3>2, EditCallMoved
    <3>4. Continue(p, c) /\ item # None
      BY <2>3, <3>1, <3>2, MailboxesAssumption
    <3>5. /\ HandlersIn("mailboxes", MailboxCalls)' /\ service' = "mailboxes" /\ begun' = begun
          /\ req'[p] = c /\ Others(p)
      BY <3>3, <3>4, MailboxGoes
    <3> QED
      BY <2>1, <2>3, <3>3, <3>4, <3>5, MailboxesQuiet
  <2> QED
    BY <1>2, <2>2, <2>3 DEF LoadItem
<1> QED
  BY <1>1, <1>2

LEMMA DomainIsAddresses ==
  /\ Len(Addresses) \in Nat \ {0} /\ \A i \in 1 .. Len(Addresses) : Addresses[i] \in Domain
  /\ \A d \in Domain : \E i \in 1 .. Len(Addresses) : d = Addresses[i]
BY MailboxesAssumption DEF Domain

\* A request that needs the platform's mailbox looks for it and, where there is none, opens it.
LEMMA PlatformBoxOpened ==
  ASSUME MailboxInv, NEW p \in Requests, OpenPlatformBox(p)
  PROVE  MailboxInv'
<1>1. PICK id \in Ids : id = req[p].id /\ p \in InFlight /\ req[p].at = "open"
  BY MailboxHandlers, MailboxCallForms DEF OpenPlatformBox, At
<1>2. UNCHANGED filed /\ ensured' = ensured
  BY DEF OpenPlatformBox
<1>3. CASE Return(p) /\ UNCHANGED <<platformBox, addressed, opened>>
  BY <1>2, <1>3, MailboxEnds, MailboxesQuiet DEF mailboxVars, platform
<1>4. CASE /\ addressed[Addresses[1]] \in {None, id}
           /\ platformBox' = id /\ opened' = opened \cup {id}
           /\ addressed' = [addressed EXCEPT ![Addresses[1]] = id]
           /\ Continue(p, Adding(id))
  <2>1. PICK c \in MailboxCalls : c = Adding(id) /\ c.at = "add" /\ c.id = id /\ c.next = 1 /\ c # None
    BY AddingIsCall, MailboxCallForms
  <2>2. /\ HandlersIn("mailboxes", MailboxCalls)' /\ service' = "mailboxes" /\ begun' = begun
        /\ req'[p] = c /\ p \in InFlight' /\ Others(p)
    BY <1>4, <2>1, MailboxGoes
  <2>3. /\ addressed \in [Domain -> Ids \cup {None}] /\ platformBox \in Ids \cup {None}
        /\ opened \subseteq Ids /\ ensured \in BOOLEAN
    BY DEF MailboxInv, MailboxesTypeOK
  <2>4. Addresses[1] \in Domain
    BY DomainIsAddresses
  <2>5. platformBox \in {None, id} /\ id # None
    BY <1>1, <1>4, MailboxesAssumption DEF MailboxInv, OneTakesAddresses
  <2>6. /\ addressed' \in [Domain -> Ids \cup {None}] /\ addressed'[Addresses[1]] = id
        /\ \A d \in Domain : addressed'[d] \in {None, id} /\ (addressed[d] = id => addressed'[d] = id)
    BY <1>4, <2>3, <2>4, <2>5 DEF MailboxInv, OneTakesAddresses
  <2>7. MailboxesTypeOK'
    <3>1. opened' \subseteq Ids
      BY <1>4, <2>3
    <3> QED
      BY <1>2, <1>4, <2>2, <2>3, <2>6, <3>1 DEF MailboxInv, MailboxesTypeOK, filed
  <2>8. FilingInOrder'
    <3>1. /\ thread \subseteq message /\ message \subseteq blob
          /\ \A e \in Ids : entry[e] # None => e \in message
      BY DEF MailboxInv, FilingInOrder
    <3> QED
      BY <1>2, <2>1, <2>2, <3>1, FilingStaysInOrder DEF filed
  <2>9. FilersApart'
    BY <1>2, <2>1, <2>2, FilersStayApart DEF filed, Filing
  <2>10. EditsKept'
    BY <1>2 DEF MailboxInv, EditsKept, filed
  <2>11. OneTakesAddresses'
    <3>1. opened' = {id} \ {None}
      BY <1>4, <2>5 DEF MailboxInv, OneTakesAddresses
    <3>2. ensured' => AddressesComplete'
      BY <1>2, <1>4, <2>5, <2>6 DEF MailboxInv, OneTakesAddresses, AddressesComplete
    <3>3. \A q \in Requests \ {p} : At(q, "add")' =>
            /\ req'[q].id = id
            /\ \A i \in 1 .. req'[q].next - 1 : addressed'[Addresses[i]] = id
      <4> SUFFICES ASSUME NEW q \in Requests \ {p}, At(q, "add")'
                   PROVE  /\ req'[q].id = id
                          /\ \A i \in 1 .. req'[q].next - 1 : addressed'[Addresses[i]] = id
        OBVIOUS
      <4>1. At(q, "add") /\ req'[q] = req[q]
        BY <2>2 DEF At, Others
      <4>2. /\ req[q].id = id /\ req[q].next \in 1 .. Len(Addresses)
            /\ \A i \in 1 .. req[q].next - 1 : addressed[Addresses[i]] = id
        <5>1. req[q] \in MailboxCalls /\ req[q].at = "add"
          BY <4>1, MailboxHandlers DEF At
        <5> QED
          BY <2>5, <4>1, <5>1, MailboxCallForms DEF MailboxInv, OneTakesAddresses
      <4> QED
        BY <2>6, <4>1, <4>2, DomainIsAddresses
    <3>4. \A i \in 1 .. req'[p].next - 1 : FALSE
      BY <2>1, <2>2
    <3>5. \A q \in Requests : At(q, "add")' =>
            /\ req'[q].id = id
            /\ \A i \in 1 .. req'[q].next - 1 : addressed'[Addresses[i]] = id
      BY <2>1, <2>2, <3>3, <3>4
    <3> QED
      BY <1>4, <2>5, <2>6, <3>1, <3>2, <3>5 DEF OneTakesAddresses
  <2> QED
    BY <2>2, <2>7, <2>8, <2>9, <2>10, <2>11 DEF MailboxInv
<1> QED
  BY <1>1, <1>3, <1>4 DEF OpenPlatformBox

LEMMA AddressAdded ==
  ASSUME MailboxInv, NEW p \in Requests, AddAddress(p)
  PROVE  MailboxInv'
<1>1. PICK r \in MailboxCalls : r = req[p] /\ p \in InFlight /\ r.at = "add"
  BY MailboxHandlers DEF AddAddress, At
<1>2. r.id \in Ids /\ r.next \in 1 .. Len(Addresses)
  BY <1>1, MailboxCallForms
<1>3. UNCHANGED <<filed, platformBox, opened>>
  BY DEF AddAddress
<1>4. CASE Return(p) /\ UNCHANGED <<addressed, ensured>>
  BY <1>3, <1>4, MailboxEnds, MailboxesQuiet DEF mailboxVars, platform
<1>5. CASE /\ addressed' = [addressed EXCEPT ![Addresses[r.next]] = r.id]
           /\ IF r.next = Len(Addresses) THEN Return(p) ELSE Continue(p, [r EXCEPT !.next = @ + 1])
           /\ ensured' = (ensured \/ r.next = Len(Addresses))
  <2>1. /\ r.id = platformBox /\ platformBox # None
        /\ \A i \in 1 .. r.next - 1 : addressed[Addresses[i]] = platformBox
    BY <1>1 DEF MailboxInv, OneTakesAddresses, At
  <2>2. PICK c \in MailboxCalls \cup {None} :
          /\ Continue(p, c)
          /\ IF r.next = Len(Addresses) THEN c = None
             ELSE c # None /\ c.at = "add" /\ c.id = r.id /\ c.next = r.next + 1
    <3>1. CASE r.next = Len(Addresses)
      BY <1>5, <3>1 DEF Return
    <3>2. CASE r.next # Len(Addresses)
      <4>1. PICK c : c = [r EXCEPT !.next = @ + 1]
        OBVIOUS
      <4>2. c \in MailboxCalls /\ c.at = "add" /\ c.id = r.id /\ c.next = r.next + 1
        BY <1>1, <3>2, <4>1, AddCallMoved
      <4>3. c # None
        BY <4>2, MailboxCallForms
      <4> QED
        BY <1>5, <3>2, <4>1, <4>2, <4>3
    <3> QED
      BY <3>1, <3>2
  <2>3. /\ HandlersIn("mailboxes", MailboxCalls)' /\ service' = "mailboxes" /\ begun' = begun
        /\ req'[p] = c /\ (p \in InFlight' <=> c # None) /\ Others(p)
    BY <2>2, MailboxGoes
  <2>4. /\ addressed \in [Domain -> Ids \cup {None}] /\ platformBox \in Ids \cup {None}
        /\ opened \subseteq Ids /\ ensured \in BOOLEAN
    BY DEF MailboxInv, MailboxesTypeOK
  <2>5. Addresses[r.next] \in Domain
    BY <1>2, DomainIsAddresses
  <2>6. /\ addressed' \in [Domain -> Ids \cup {None}] /\ addressed'[Addresses[r.next]] = platformBox
        /\ \A d \in Domain : /\ addressed'[d] \in {None, platformBox}
                             /\ addressed[d] = platformBox => addressed'[d] = platformBox
    BY <1>2, <1>5, <2>1, <2>4, <2>5 DEF MailboxInv, OneTakesAddresses
  <2>7. ensured' \in BOOLEAN
    BY <1>5
  <2>8. MailboxesTypeOK'
    BY <1>3, <2>3, <2>4, <2>6, <2>7 DEF MailboxInv, MailboxesTypeOK, filed
  <2>9. FilingInOrder'
    <3>1. /\ thread \subseteq message /\ message \subseteq blob
          /\ \A e \in Ids : entry[e] # None => e \in message
      BY DEF MailboxInv, FilingInOrder
    <3> QED
      BY <1>3, <2>2, <2>3, <3>1, FilingStaysInOrder DEF filed
  <2>10. FilersApart'
    BY <1>3, <2>2, <2>3, FilersStayApart DEF filed, Filing
  <2>11. EditsKept'
    BY <1>3 DEF MailboxInv, EditsKept, filed
  <2>12. \A i \in 1 .. r.next : addressed'[Addresses[i]] = platformBox
    BY <1>2, <2>1, <2>6, DomainIsAddresses
  <2>13. OneTakesAddresses'
    <3>1. addressed'[Addresses[1]] = platformBox
      BY <2>6, DomainIsAddresses DEF MailboxInv, OneTakesAddresses
    <3>2. ensured' => AddressesComplete'
      <4>1. CASE ensured
        BY <1>3, <2>6, <4>1 DEF MailboxInv, OneTakesAddresses, AddressesComplete
      <4>2. CASE r.next = Len(Addresses)
        BY <1>3, <2>12, <4>2, DomainIsAddresses DEF AddressesComplete
      <4> QED
        BY <1>5, <4>1, <4>2
    <3>3. \A q \in Requests \ {p} : At(q, "add")' =>
            /\ req'[q].id = platformBox
            /\ \A i \in 1 .. req'[q].next - 1 : addressed'[Addresses[i]] = platformBox
      <4> SUFFICES ASSUME NEW q \in Requests \ {p}, At(q, "add")'
                   PROVE  /\ req'[q].id = platformBox
                          /\ \A i \in 1 .. req'[q].next - 1 : addressed'[Addresses[i]] = platformBox
        OBVIOUS
      <4>1. At(q, "add") /\ req'[q] = req[q]
        BY <2>3 DEF At, Others
      <4>2. /\ req[q].id = platformBox /\ req[q].next \in 1 .. Len(Addresses)
            /\ \A i \in 1 .. req[q].next - 1 : addressed[Addresses[i]] = platformBox
        <5>1. req[q] \in MailboxCalls /\ req[q].at = "add"
          BY <4>1, MailboxHandlers DEF At
        <5> QED
          BY <4>1, <5>1, MailboxCallForms DEF MailboxInv, OneTakesAddresses
      <4> QED
        BY <2>6, <4>1, <4>2, DomainIsAddresses
    <3>4. At(p, "add")' =>
            /\ req'[p].id = platformBox
            /\ \A i \in 1 .. req'[p].next - 1 : addressed'[Addresses[i]] = platformBox
      BY <1>2, <2>1, <2>2, <2>3, <2>12 DEF At
    <3>5. opened = {platformBox} \ {None}
      BY DEF MailboxInv, OneTakesAddresses
    <3> QED
      BY <1>3, <2>1, <2>6, <3>1, <3>2, <3>3, <3>4, <3>5 DEF OneTakesAddresses
  <2> QED
    BY <2>3, <2>8, <2>9, <2>10, <2>11, <2>13 DEF MailboxInv
<1> QED
  BY <1>1, <1>4, <1>5 DEF AddAddress

LEMMA PlatformBoxSought ==
  ASSUME MailboxInv, NEW p \in Requests, EnsureMailbox(p) \/ LookUpPlatformBox(p)
  PROVE  MailboxInv'
<1>1. ASSUME EnsureMailbox(p)
      PROVE  MailboxInv'
  <2>1. PICK c : c = [at |-> "ensure", id |-> begun + 1]
    OBVIOUS
  <2>2. Begin(p, c) /\ UNCHANGED mailboxVars
    BY <1>1, <2>1 DEF EnsureMailbox
  <2>3. begun + 1 \in Ids
    BY <2>2, HandlersAssumption, MailboxHandlers DEF Begin, Ids
  <2>4. c \in MailboxCalls /\ c.at = "ensure"
    BY <2>1, <2>3 DEF MailboxCalls
  <2> QED
    BY <2>2, <2>4, MailboxesBeginQuiet
<1>2. ASSUME LookUpPlatformBox(p)
      PROVE  MailboxInv'
  <2>1. p \in InFlight /\ req[p].at = "ensure" /\ req[p] \in MailboxCalls /\ UNCHANGED mailboxVars
    BY <1>2, MailboxHandlers DEF LookUpPlatformBox, At
  <2>2. CASE Goto(p, "open")
    <3>1. PICK c : c = [req[p] EXCEPT !.at = "open"]
      OBVIOUS
    <3>2. c \in MailboxCalls /\ c.at = "open" /\ Continue(p, c)
      BY <2>1, <2>2, <3>1, EnsureCallMoved DEF Goto
    <3>3. /\ HandlersIn("mailboxes", MailboxCalls)' /\ service' = "mailboxes" /\ begun' = begun
          /\ req'[p] = c /\ Others(p)
      BY <3>2, MailboxGoes
    <3> QED
      BY <2>1, <3>2, <3>3, MailboxesQuiet
  <2>3. CASE platformBox # None /\ Continue(p, Adding(platformBox))
    <3>1. platformBox \in Ids
      BY <2>3 DEF MailboxInv, MailboxesTypeOK
    <3>2. PICK c \in MailboxCalls : c = Adding(platformBox) /\ c.at = "add" /\ c.id = platformBox /\ c.next = 1
      BY <3>1, AddingIsCall
    <3>3. /\ HandlersIn("mailboxes", MailboxCalls)' /\ service' = "mailboxes" /\ begun' = begun
          /\ req'[p] = c /\ Others(p)
      BY <2>3, <3>2, MailboxGoes
    <3>4. \A i \in 1 .. req'[p].next - 1 : addressed[Addresses[i]] = platformBox
      BY <3>2, <3>3
    <3> QED
      BY <2>1, <2>3, <3>2, <3>3, <3>4, MailboxesQuiet
  <2> QED
    BY <1>2, <2>2, <2>3 DEF LookUpPlatformBox
<1> QED
  BY <1>1, <1>2

LEMMA MailboxesCutShort ==
  ASSUME MailboxInv, (\E p \in Requests : FailMailboxCall(p)) \/ CrashMailboxes
  PROVE  MailboxInv'
<1>1. ASSUME NEW p \in Requests, FailMailboxCall(p)
      PROVE  MailboxInv'
  BY <1>1, MailboxEnds, MailboxesQuiet DEF FailMailboxCall
<1>2. ASSUME CrashMailboxes
      PROVE  MailboxInv'
  <2>1. /\ req' \in [Requests -> MailboxCalls \cup {None}] /\ (\A p \in Requests : req'[p] = None)
        /\ faults' \in 0 .. MaxFaults /\ UNCHANGED <<service, begun>> /\ UNCHANGED mailboxVars
    BY <1>2, MailboxHandlers, Crashed DEF CrashMailboxes
  <2>2. service' = "mailboxes" /\ InFlight' = {}
    BY <2>1 DEF InFlight, MailboxInv
  <2>3. MailboxesTypeOK'
    BY <2>1 DEF MailboxInv, MailboxesTypeOK, HandlersIn, mailboxVars, filed, platform
  <2>4. FilingInOrder' /\ FilersApart' /\ EditsKept'
    BY <2>1, <2>2 DEF MailboxInv, FilingInOrder, FilersApart, EditsKept, At, Filing, Editing, mailboxVars, filed
  <2>5. OneTakesAddresses'
    BY <2>1, <2>2 DEF MailboxInv, OneTakesAddresses, AddressesComplete, At, mailboxVars, platform
  <2> QED
    BY <2>2, <2>3, <2>4, <2>5 DEF MailboxInv
<1> QED
  BY <1>1, <1>2

LEMMA MailboxesKept == MailboxInv /\ [MailboxesNext]_<<handlers, mailboxVars>> => MailboxInv'
<1> SUFFICES ASSUME MailboxInv, [MailboxesNext]_<<handlers, mailboxVars>>
             PROVE  MailboxInv'
  OBVIOUS
<1>1. CASE UNCHANGED <<handlers, mailboxVars>>
  BY <1>1 DEF handlers, mailboxVars, filed, platform, MailboxInv, MailboxesTypeOK, HandlersIn, InFlight, At,
              FilingInOrder, FilersApart, EditsKept, OneTakesAddresses, AddressesComplete, Filing, Editing
<1> QED
  BY <1>1, MessageFilingBegun, MessageStored, EntryAdded, EditMade, EntryEdited, PlatformBoxSought,
     PlatformBoxOpened, AddressAdded, MailboxesCutShort DEF MailboxesNext

LEMMA MailboxesAgree == MailboxInv => MailboxesPromise
<1> SUFFICES ASSUME MailboxInv
             PROVE  MailboxesPromise
  OBVIOUS
<1>1. ListingsReadable
  <2>1. \A f \in Folders : FolderEntries(f) \subseteq message \cap blob
    BY DEF MailboxInv, FilingInOrder, FolderEntries
  <2>2. \A f \in Folders : MailboxItems(f) = [e \in FolderEntries(f) |-> entry[e]]
    BY <2>1 DEF MailboxItems
  <2>3. \A f \in Folders : MailboxItems(f) \in [FolderEntries(f) -> Entry] /\ FolderEntries(f) \in SUBSET Ids
    BY <2>2 DEF MailboxInv, MailboxesTypeOK, FolderEntries
  <2> QED
    BY <2>3, MailboxesAssumption DEF ListingsReadable, MailboxInv, FilingInOrder
<1>2. OnePlatformMailbox
  <2>1. opened = {} \/ (opened = {platformBox} /\ platformBox # None)
    BY DEF MailboxInv, OneTakesAddresses
  <2>2. Cardinality({}) = 0 /\ Cardinality({platformBox}) = 1
    BY FS_EmptySet, FS_Singleton
  <2> QED
    BY <2>1, <2>2 DEF OnePlatformMailbox
<1>3. AddressesComplete
  BY DEF MailboxInv, OneTakesAddresses, AddressesComplete
<1> QED
  BY <1>1, <1>2, <1>3 DEF MailboxesPromise, MailboxInv

\* Whatever is cut short and whoever comes at the same time: folders and threads can be listed,
\* no edit is lost but to a stale copy, and the platform has one mailbox with all of its
\* addresses (internal/mailbox, identity.EnsureManagementMailbox and UpdateMailboxEntry).
THEOREM MailboxesInOrder == MailboxesSpec => []MailboxesPromise
<1>1. MailboxesSpec => []MailboxInv
  BY MailboxesStart, MailboxesKept, PTL DEF MailboxesSpec
<1>2. MailboxInv => MailboxesPromise
  BY MailboxesAgree
<1> QED
  BY <1>1, <1>2, PTL

-----------------------------------------------------------------------------
(* Administration.                                                         *)

AdministrationSpec ==
  /\ HandlersInit /\ service = "administration" /\ AdministrationInit
  /\ [][AdministrationNext]_<<handlers, adminVars>>

\* A status is decided by whoever may manage the account, and stored as a status.
Decided(c) ==
  /\ c.role = None => c.choice \in {"active", "suspended"}
  /\ c.at \in {"load", "store"} => c.role = None /\ CanManage(c)
  /\ c.at = "assign" => c.role # None

\* Whoever is suspended and still signing in was suspended meanwhile.
SignInKnown(r) == r.at = "verify" => standing[r.target] = "active" \/ r.target \in overtaken

AdministrationInv ==
  /\ service = "administration" /\ AdministrationTypeOK /\ AdministrationPromise
  /\ \A p \in InFlight : Decided(req[p]) /\ SignInKnown(req[p])

LEMMA AdminHandlers ==
  ASSUME AdministrationInv
  PROVE  /\ Handling("administration", AdminCalls) /\ None \notin AdminCalls
         /\ \A p \in InFlight : p \in Requests /\ req[p] \in AdminCalls /\ Decided(req[p]) /\ SignInKnown(req[p])
         /\ standing \in [People -> {"active", "suspended"}]
         /\ assigned \subseteq People \X Roles
         /\ signedIn \subseteq People /\ unswept \subseteq People /\ overtaken \subseteq People
         /\ lapsed \in BOOLEAN
<1>1. Handling("administration", AdminCalls)
  BY DEF AdministrationInv, AdministrationTypeOK, Handling
<1> QED
  BY <1>1, HandledCalls, AdministrationAssumption DEF AdministrationInv, AdministrationTypeOK

\* Handler p goes on to its next call.
LEMMA AdminGoes ==
  ASSUME AdministrationInv, NEW p \in InFlight, NEW place \in {"load", "store", "assign", "sweep"},
         Goto(p, place), Decided([req[p] EXCEPT !.at = place])
  PROVE  /\ Handling("administration", AdminCalls)' /\ InFlight' = InFlight
         /\ req'[p].at = place /\ req'[p].target = req[p].target /\ Decided(req'[p])
         /\ \A q \in Requests \ {p} : req'[q] = req[q]
<1> USE AdminHandlers
<1>1. PICK c : c = [req[p] EXCEPT !.at = place] /\ Continue(p, c)
  BY DEF Goto
<1>2. c \in AdminCalls /\ c.at = place /\ c.target = req[p].target
  BY <1>1 DEF AdminCalls
<1>3. /\ Handling("administration", AdminCalls)' /\ begun' = begun
      /\ InFlight' = InFlight /\ req'[p] = c
      /\ \A q \in Requests \ {p} : req'[q] = req[q]
  BY <1>1, <1>2, Goes
<1> QED
  BY <1>1, <1>2, <1>3

\* A step that decides nothing.
LEMMA AdminUndecided ==
  ASSUME AdministrationInv, NEW p \in Requests, UNCHANGED adminVars, Handling("administration", AdminCalls)',
         \A q \in Requests \ {p} : req'[q] = req[q],
         p \in InFlight => req[p].at # "sweep",
         p \in InFlight' => Decided(req'[p]) /\ (req'[p].at = "verify" => standing[req'[p].target] = "active")
  PROVE  AdministrationInv'
<1>1. service' = "administration" /\ AdministrationTypeOK'
  BY DEF AdministrationInv, AdministrationTypeOK, Handling, adminVars
<1>2. OwnerRemains'
  BY DEF AdministrationInv, AdministrationPromise, OwnerRemains, adminVars
<1>3. SuspendedSignedOut'
  BY DEF AdministrationInv, AdministrationPromise, SuspendedSignedOut, At, InFlight, adminVars
<1>4. \A q \in InFlight' : Decided(req'[q])
  BY DEF AdministrationInv, InFlight
<1>5. \A q \in InFlight' : SignInKnown(req[q])'
  BY DEF AdministrationInv, InFlight, SignInKnown, adminVars
<1> QED
  BY <1>1, <1>2, <1>3, <1>4, <1>5 DEF AdministrationInv, AdministrationPromise

LEMMA AdministrationStart == HandlersInit /\ service = "administration" /\ AdministrationInit => AdministrationInv
<1> SUFFICES ASSUME HandlersInit, service = "administration", AdministrationInit
             PROVE  AdministrationInv
  OBVIOUS
<1>1. Handling("administration", AdminCalls) /\ InFlight = {}
  BY Starts
<1>2. AdministrationTypeOK
  BY <1>1 DEF AdministrationTypeOK, Handling, AdministrationInit, People, Roles
<1>3. AdministrationPromise
  BY AdministrationAssumption
  DEF AdministrationPromise, OwnerRemains, SuspendedSignedOut, AdministrationInit, People
<1> QED
  BY <1>1, <1>2, <1>3 DEF AdministrationInv

LEMMA AdministrationKept ==
  AdministrationInv /\ [AdministrationNext]_<<handlers, adminVars>> => AdministrationInv'
<1> SUFFICES ASSUME AdministrationInv, [AdministrationNext]_<<handlers, adminVars>>
             PROVE  AdministrationInv'
  OBVIOUS
<1> USE AdminHandlers
<1>1. ASSUME NEW p \in Requests, NEW a \in People, NEW t \in People,
             \/ \E s \in {"active", "suspended"} : Authorize(p, a, t, s, None)
             \/ \E d \in {"assign", "remove"}, role \in Roles : Authorize(p, a, t, d, role)
      PROVE  AdministrationInv'
  <2>1. PICK d, role :
          /\ Authorize(p, a, t, d, role) /\ d \in Decisions /\ role \in Roles \cup {None}
          /\ role = None => d \in {"active", "suspended"}
    BY <1>1, AdministrationAssumption DEF Decisions
  <2>2. PICK c : c = [at |-> "rights", actor |-> a, target |-> t, choice |-> d, role |-> role] /\ Begin(p, c)
    BY <2>1 DEF Authorize
  <2>3. c \in AdminCalls /\ Decided(c) /\ c.at = "rights"
    BY <2>1, <2>2 DEF AdminCalls, Decided
  <2>4. /\ Handling("administration", AdminCalls)' /\ begun' = begun + 1 /\ p \notin InFlight
        /\ InFlight' = InFlight \cup {p} /\ req'[p] = c
        /\ \A q \in Requests \ {p} : req'[q] = req[q]
    BY <2>2, <2>3, Begins
  <2>5. UNCHANGED adminVars
    BY <2>1 DEF Authorize
  <2> QED
    BY <2>3, <2>4, <2>5, AdminUndecided
<1>2. ASSUME NEW p \in InFlight, Return(p), UNCHANGED adminVars, req[p].at # "sweep"
      PROVE  AdministrationInv'
  <2>1. /\ Handling("administration", AdminCalls)' /\ InFlight' = InFlight \ {p}
        /\ \A q \in Requests \ {p} : req'[q] = req[q]
    BY <1>2, Ends
  <2> QED
    BY <1>2, <2>1, AdminUndecided
<1>3. ASSUME NEW p \in Requests, CheckRights(p)
      PROVE  AdministrationInv'
  <2>1. p \in InFlight /\ req[p].at = "rights" /\ UNCHANGED adminVars
    BY <1>3 DEF CheckRights, At
  <2>2. CASE Return(p)
    BY <1>2, <2>1, <2>2
  <2>3. CASE req[p].role = None /\ CanManage(req[p]) /\ Goto(p, "load")
    <3>1. PICK c : c = [req[p] EXCEPT !.at = "load"]
      OBVIOUS
    <3>2. c.role = None /\ c.choice = req[p].choice /\ c.actor = req[p].actor /\ c.target = req[p].target
          /\ c.at = "load"
      BY <2>1, <2>3, <3>1 DEF AdminCalls
    <3>3. Decided(c)
      BY <2>1, <2>3, <3>2 DEF Decided, CanManage
    <3> QED
      BY <2>1, <2>3, <3>1, <3>3, AdminGoes, AdminUndecided
  <2>4. CASE req[p].role # None /\ Goto(p, "assign")
    <3>1. PICK c : c = [req[p] EXCEPT !.at = "assign"]
      OBVIOUS
    <3>2. c.role = req[p].role /\ c.at = "assign"
      BY <2>1, <3>1 DEF AdminCalls
    <3>3. Decided(c)
      BY <2>4, <3>2 DEF Decided
    <3> QED
      BY <2>1, <2>4, <3>1, <3>3, AdminGoes, AdminUndecided
  <2> QED
    BY <1>3, <2>2, <2>3, <2>4 DEF CheckRights
<1>4. ASSUME NEW p \in Requests, LoadStanding(p)
      PROVE  AdministrationInv'
  <2>1. p \in InFlight /\ req[p].at = "load" /\ UNCHANGED adminVars
    BY <1>4 DEF LoadStanding, At
  <2>2. CASE Return(p)
    BY <1>2, <2>1, <2>2
  <2>3. CASE Goto(p, "store")
    <3>1. PICK c : c = [req[p] EXCEPT !.at = "store"]
      OBVIOUS
    <3>2. c.role = req[p].role /\ c.choice = req[p].choice /\ c.actor = req[p].actor /\ c.target = req[p].target
          /\ c.at = "store"
      BY <2>1, <3>1 DEF AdminCalls
    <3>3. Decided(c)
      BY <2>1, <3>2 DEF Decided, CanManage
    <3> QED
      BY <2>1, <2>3, <3>1, <3>3, AdminGoes, AdminUndecided
  <2> QED
    BY <1>4, <2>2, <2>3 DEF LoadStanding
<1>5. ASSUME NEW p \in Requests, StoreStanding(p)
      PROVE  AdministrationInv'
  <2>1. PICK r, t, a : r = req[p] /\ t = r.target /\ a = r.actor
    OBVIOUS
  <2>2. /\ p \in InFlight /\ r.at = "store" /\ r \in AdminCalls /\ t \in People /\ a \in People
        /\ standing' = [standing EXCEPT ![t] = r.choice]
        /\ lapsed' = (lapsed \/ ~ Entitled(a))
        /\ overtaken' = IF r.choice = "suspended" THEN overtaken \cup ({t} \cap SigningIn) ELSE overtaken
        /\ UNCHANGED <<assigned, signedIn, unswept>>
    BY <1>5, <2>1 DEF StoreStanding, At, AdminCalls
  <2>3. r.choice \in {"active", "suspended"} /\ a # t /\ (IsOwner(t) => IsOwner(a))
    BY <2>1, <2>2 DEF Decided, CanManage
  <2>4. /\ standing' \in [People -> {"active", "suspended"}] /\ standing'[t] = r.choice
        /\ \A b \in People \ {t} : standing'[b] = standing[b]
    BY <2>2, <2>3
  <2>5. /\ Handling("administration", AdminCalls)' /\ \A q \in Requests \ {p} : req'[q] = req[q]
        /\ \A q \in InFlight' : Decided(req'[q])
        /\ r.choice = "suspended" => p \in InFlight' /\ req'[p].at = "sweep" /\ req'[p].target = t
        /\ p \in InFlight' => req'[p].at = "sweep"
    <3>1. CASE r.choice = "suspended"
      <4>1. Goto(p, "sweep")
        BY <1>5, <2>1, <3>1 DEF StoreStanding
      <4>2. PICK c : c = [req[p] EXCEPT !.at = "sweep"]
        OBVIOUS
      <4>3. c.role = r.role /\ c.choice = r.choice /\ c.at = "sweep"
        BY <2>1, <2>2, <4>2 DEF AdminCalls
      <4>4. Decided(c)
        BY <2>3, <4>3 DEF Decided
      <4>5. /\ Handling("administration", AdminCalls)' /\ InFlight' = InFlight
            /\ req'[p].at = "sweep" /\ req'[p].target = req[p].target /\ Decided(req'[p])
            /\ \A q \in Requests \ {p} : req'[q] = req[q]
        BY <2>2, <4>1, <4>2, <4>4, AdminGoes
      <4> QED
        BY <2>1, <2>2, <4>5
    <3>2. CASE r.choice # "suspended"
      <4>1. Return(p)
        BY <1>5, <2>1, <3>2 DEF StoreStanding
      <4>2. /\ Handling("administration", AdminCalls)' /\ InFlight' = InFlight \ {p}
            /\ \A q \in Requests \ {p} : req'[q] = req[q]
        BY <2>2, <4>1, Ends
      <4> QED
        BY <3>2, <4>2
    <3> QED
      BY <3>1, <3>2
  <2>6. service' = "administration" /\ AdministrationTypeOK'
    BY <2>2, <2>4, <2>5 DEF AdministrationInv, AdministrationTypeOK, Handling
  <2>7. OwnerRemains'
    <3> SUFFICES ASSUME ~ lapsed'
                 PROVE  \E b \in Owners : standing'[b] = "active"
      BY DEF OwnerRemains
    <3>1. ~ lapsed /\ standing[a] = "active"
      BY <2>2 DEF Entitled
    <3>2. PICK b \in Owners : standing[b] = "active"
      BY <3>1 DEF AdministrationInv, AdministrationPromise, OwnerRemains
    <3>3. CASE b = t
      BY <2>2, <2>3, <2>4, <3>1, <3>3 DEF IsOwner
    <3>4. CASE b # t
      BY <2>4, <3>2, <3>4 DEF People
    <3> QED
      BY <3>3, <3>4
  <2>8. SuspendedSignedOut'
    <3> SUFFICES ASSUME NEW b \in signedIn \ (unswept \cup overtaken), standing'[b] # "active"
                 PROVE  \E q \in Requests : q \in InFlight' /\ req'[q].at = "sweep" /\ req'[q].target = b
      BY <2>2 DEF SuspendedSignedOut, At
    <3>1. CASE b = t
      BY <2>2, <2>3, <2>4, <2>5, <3>1
    <3>2. CASE b # t
      <4>1. PICK q \in Requests : At(q, "sweep") /\ req[q].target = b
        BY <2>4, <3>2 DEF AdministrationInv, AdministrationPromise, SuspendedSignedOut
      <4>2. q # p
        BY <2>1, <2>2, <4>1 DEF At
      <4> QED
        BY <2>5, <4>1, <4>2 DEF At, InFlight
    <3> QED
      BY <3>1, <3>2
  <2>9. ASSUME NEW q \in InFlight'
        PROVE  SignInKnown(req[q])'
    <3> SUFFICES ASSUME req'[q].at = "verify", standing'[req'[q].target] # "active"
                 PROVE  req'[q].target \in overtaken'
      BY DEF SignInKnown
    <3>1. q # p /\ q \in InFlight /\ req'[q] = req[q]
      BY <2>5 DEF InFlight
    <3>2. CASE req[q].target = t
      BY <2>2, <2>3, <2>4, <3>1, <3>2 DEF SigningIn
    <3>3. CASE req[q].target # t
      BY <2>2, <2>4, <3>1, <3>3 DEF SignInKnown, AdminCalls
    <3> QED
      BY <3>2, <3>3
  <2> QED
    BY <2>5, <2>6, <2>7, <2>8, <2>9 DEF AdministrationInv, AdministrationPromise
<1>6. ASSUME NEW p \in Requests, StoreAssignment(p)
      PROVE  AdministrationInv'
  <2>1. PICK r : r = req[p]
    OBVIOUS
  <2>2. /\ p \in InFlight /\ r.at = "assign" /\ r \in AdminCalls /\ r.role \in Roles /\ r.target \in People
        /\ assigned' = IF r.choice = "assign" THEN assigned \cup {<<r.target, r.role>>}
                       ELSE assigned \ {<<r.target, r.role>>}
        /\ lapsed' = (lapsed \/ ~ Entitled(r.actor))
        /\ UNCHANGED <<standing, signedIn, unswept, overtaken>>
    BY <1>6, <2>1 DEF StoreAssignment, At, AdminCalls, Decided
  <2>3. /\ Handling("administration", AdminCalls)' /\ \A q \in Requests \ {p} : req'[q] = req[q]
        /\ \A q \in InFlight' : Decided(req'[q])
        /\ p \in InFlight' => req'[p].at = "sweep"
    <3>1. CASE Goto(p, "sweep")
      <4>1. PICK c : c = [req[p] EXCEPT !.at = "sweep"]
        OBVIOUS
      <4>2. c.role = r.role /\ c.at = "sweep"
        BY <2>1, <2>2, <4>1 DEF AdminCalls
      <4>3. Decided(c)
        BY <2>2, <4>2, AdministrationAssumption DEF Decided
      <4>4. /\ Handling("administration", AdminCalls)' /\ InFlight' = InFlight
            /\ req'[p].at = "sweep" /\ req'[p].target = req[p].target /\ Decided(req'[p])
            /\ \A q \in Requests \ {p} : req'[q] = req[q]
        BY <2>2, <3>1, <4>1, <4>3, AdminGoes
      <4> QED
        BY <2>2, <4>4
    <3>2. CASE Return(p)
      <4>1. /\ Handling("administration", AdminCalls)' /\ InFlight' = InFlight \ {p}
            /\ \A q \in Requests \ {p} : req'[q] = req[q]
        BY <2>2, <3>2, Ends
      <4> QED
        BY <4>1
    <3> QED
      BY <1>6, <3>1, <3>2 DEF StoreAssignment
  <2>4. lapsed' \in BOOLEAN /\ assigned' \subseteq People \X Roles
    BY <2>2
  <2>5. service' = "administration" /\ AdministrationTypeOK'
    BY <2>2, <2>3, <2>4 DEF AdministrationInv, AdministrationTypeOK, Handling
  <2>6. OwnerRemains'
    BY <2>2 DEF AdministrationInv, AdministrationPromise, OwnerRemains
  <2>7. SuspendedSignedOut'
    <3>1. \A q \in Requests : At(q, "sweep") => At(q, "sweep")' /\ req'[q].target = req[q].target
      BY <2>1, <2>2, <2>3 DEF At, InFlight
    <3> QED
      BY <2>2, <3>1 DEF AdministrationInv, AdministrationPromise, SuspendedSignedOut
  <2>8. \A q \in InFlight' : SignInKnown(req[q])'
    BY <2>2, <2>3 DEF SignInKnown, InFlight
  <2> QED
    BY <2>3, <2>5, <2>6, <2>7, <2>8 DEF AdministrationInv, AdministrationPromise
<1>7. ASSUME NEW p \in Requests, Sweep(p)
      PROVE  AdministrationInv'
  <2>1. PICK t : t = req[p].target
    OBVIOUS
  <2>2. /\ p \in InFlight /\ req[p].at = "sweep" /\ Return(p)
        /\ signedIn' = signedIn \ {t} /\ unswept' = unswept \ {t} /\ overtaken' = overtaken \ ({t} \ SigningIn)
        /\ UNCHANGED <<standing, assigned, lapsed>>
    BY <1>7, <2>1 DEF Sweep, At
  <2>3. /\ Handling("administration", AdminCalls)' /\ InFlight' = InFlight \ {p}
        /\ \A q \in Requests \ {p} : req'[q] = req[q]
    BY <2>2, Ends
  <2>4. service' = "administration" /\ AdministrationTypeOK'
    BY <2>2, <2>3 DEF AdministrationInv, AdministrationTypeOK, Handling
  <2>5. OwnerRemains'
    BY <2>2 DEF AdministrationInv, AdministrationPromise, OwnerRemains
  <2>6. SuspendedSignedOut'
    <3> SUFFICES ASSUME NEW b \in signedIn', b \notin unswept', b \notin overtaken', standing[b] # "active"
                 PROVE  \E q \in Requests : q \in InFlight' /\ req'[q].at = "sweep" /\ req'[q].target = b
      BY <2>2 DEF SuspendedSignedOut, At
    <3>1. b # t /\ b \in signedIn \ (unswept \cup overtaken)
      BY <2>2
    <3>2. PICK q \in Requests : q \in InFlight /\ req[q].at = "sweep" /\ req[q].target = b
      BY <3>1 DEF AdministrationInv, AdministrationPromise, SuspendedSignedOut, At
    <3>3. q # p
      BY <2>1, <3>1, <3>2
    <3> QED
      BY <2>3, <3>2, <3>3
  <2>7. ASSUME NEW q \in InFlight'
        PROVE  SignInKnown(req[q])'
    <3>1. q \in InFlight /\ req'[q] = req[q]
      BY <2>3
    <3>2. req[q].at = "verify" => req[q].target \in SigningIn
      BY <3>1 DEF SigningIn
    <3> QED
      BY <2>2, <3>1, <3>2 DEF SignInKnown
  <2> QED
    BY <2>3, <2>4, <2>5, <2>6, <2>7 DEF AdministrationInv, AdministrationPromise
<1>8. ASSUME NEW p \in Requests, OpenSession(p)
      PROVE  AdministrationInv'
  <2>1. /\ p \in InFlight /\ req[p].at = "verify" /\ Return(p)
        /\ signedIn' \in {signedIn, signedIn \cup {req[p].target}}
        /\ UNCHANGED <<standing, assigned, lapsed, unswept, overtaken>>
    BY <1>8 DEF OpenSession, At
  <2>2. /\ Handling("administration", AdminCalls)' /\ InFlight' = InFlight \ {p}
        /\ \A q \in Requests \ {p} : req'[q] = req[q]
    BY <2>1, Ends
  <2>3. req[p].target \in People
    BY <2>1 DEF AdminCalls
  <2>4. service' = "administration" /\ AdministrationTypeOK'
    BY <2>1, <2>2, <2>3 DEF AdministrationInv, AdministrationTypeOK, Handling
  <2>5. OwnerRemains'
    BY <2>1 DEF AdministrationInv, AdministrationPromise, OwnerRemains
  <2>6. SuspendedSignedOut'
    <3> SUFFICES ASSUME NEW b \in signedIn', b \notin unswept, b \notin overtaken, standing[b] # "active"
                 PROVE  \E q \in Requests : q \in InFlight' /\ req'[q].at = "sweep" /\ req'[q].target = b
      BY <2>1 DEF SuspendedSignedOut, At
    <3>1. b \in signedIn
      BY <2>1 DEF SignInKnown
    <3>2. PICK q \in Requests : q \in InFlight /\ req[q].at = "sweep" /\ req[q].target = b
      BY <3>1 DEF AdministrationInv, AdministrationPromise, SuspendedSignedOut, At
    <3>3. q # p
      BY <2>1, <3>2
    <3> QED
      BY <2>2, <3>2, <3>3
  <2>7. \A q \in InFlight' : SignInKnown(req[q])'
    BY <2>1, <2>2 DEF SignInKnown
  <2> QED
    BY <2>2, <2>4, <2>5, <2>6, <2>7 DEF AdministrationInv, AdministrationPromise
<1>12. ASSUME NEW p \in Requests, NEW a \in People, BeginSignIn(p, a)
       PROVE  AdministrationInv'
  <2>1. PICK c : c = [at |-> "verify", actor |-> a, target |-> a, choice |-> "active", role |-> None] /\ Begin(p, c)
    BY <1>12 DEF BeginSignIn
  <2>2. c \in AdminCalls /\ Decided(c) /\ c.target = a
    BY <2>1 DEF AdminCalls, Decided, Decisions
  <2>3. /\ Handling("administration", AdminCalls)' /\ begun' = begun + 1 /\ p \notin InFlight
        /\ InFlight' = InFlight \cup {p} /\ req'[p] = c
        /\ \A q \in Requests \ {p} : req'[q] = req[q]
    BY <2>1, <2>2, Begins
  <2>4. UNCHANGED adminVars /\ standing[a] = "active"
    BY <1>12 DEF BeginSignIn
  <2> QED
    BY <2>2, <2>3, <2>4, AdminUndecided
<1>9. ASSUME NEW p \in Requests, FailDecision(p)
      PROVE  AdministrationInv'
  <2>1. /\ p \in InFlight /\ Fault(p, None) /\ unswept' = unswept \cup {req[q].target : q \in Sweeping \cap {p}}
        /\ UNCHANGED <<standing, assigned, signedIn, lapsed, overtaken>>
    BY <1>9 DEF FailDecision
  <2>2. /\ Handling("administration", AdminCalls)' /\ InFlight' = InFlight \ {p}
        /\ \A q \in Requests \ {p} : req'[q] = req[q]
    BY <2>1, Ends
  <2>3. \A q \in InFlight : req[q].target \in People
    BY DEF AdminCalls
  <2>4. service' = "administration" /\ AdministrationTypeOK'
    BY <2>1, <2>2, <2>3 DEF AdministrationInv, AdministrationTypeOK, Handling, Sweeping
  <2>5. OwnerRemains'
    BY <2>1 DEF AdministrationInv, AdministrationPromise, OwnerRemains
  <2>6. SuspendedSignedOut'
    BY <2>1, <2>2 DEF AdministrationInv, AdministrationPromise, SuspendedSignedOut, At, Sweeping
  <2>7. \A q \in InFlight' : SignInKnown(req[q])'
    BY <2>1, <2>2 DEF SignInKnown
  <2> QED
    BY <2>2, <2>4, <2>5, <2>6, <2>7 DEF AdministrationInv, AdministrationPromise
<1>10. ASSUME CrashDecisions
       PROVE  AdministrationInv'
  <2>1. /\ Crash /\ unswept' = unswept \cup {req[q].target : q \in Sweeping}
        /\ UNCHANGED <<standing, assigned, signedIn, lapsed, overtaken>>
    BY <1>10 DEF CrashDecisions
  <2>2. Handling("administration", AdminCalls)' /\ InFlight' = {}
    BY <2>1, Dies
  <2>3. \A q \in InFlight : req[q].target \in People
    BY DEF AdminCalls
  <2>4. service' = "administration" /\ AdministrationTypeOK'
    BY <2>1, <2>2, <2>3 DEF AdministrationInv, AdministrationTypeOK, Handling, Sweeping
  <2>5. OwnerRemains'
    BY <2>1 DEF AdministrationInv, AdministrationPromise, OwnerRemains
  <2>6. SuspendedSignedOut'
    BY <2>1, <2>2 DEF AdministrationInv, AdministrationPromise, SuspendedSignedOut, At, Sweeping
  <2> QED
    BY <2>2, <2>4, <2>5, <2>6 DEF AdministrationInv, AdministrationPromise
<1>11. ASSUME UNCHANGED <<handlers, adminVars>>
       PROVE  AdministrationInv'
  <2>1. Handling("administration", AdminCalls)' /\ InFlight' = InFlight /\ req' = req
    BY <1>11, Rests
  <2>2. service' = "administration" /\ AdministrationTypeOK'
    BY <1>11, <2>1 DEF AdministrationInv, AdministrationTypeOK, Handling, adminVars
  <2>3. AdministrationPromise'
    BY <1>11, <2>1
    DEF AdministrationInv, AdministrationPromise, OwnerRemains, SuspendedSignedOut, At, adminVars
  <2>4. \A q \in InFlight' : SignInKnown(req[q])'
    BY <1>11, <2>1 DEF SignInKnown, adminVars
  <2> QED
    BY <2>1, <2>2, <2>3, <2>4 DEF AdministrationInv
<1> QED
  BY <1>1, <1>3, <1>4, <1>5, <1>6, <1>7, <1>8, <1>9, <1>10, <1>11, <1>12 DEF AdministrationNext

\* The platform keeps an active owner whatever administrators decide about each other at
\* once, and whoever they suspend is signed out, unless it was signing in meanwhile.
THEOREM AdministrationKeepsItsPromise == AdministrationSpec => []AdministrationPromise
<1>1. AdministrationSpec => []AdministrationInv
  BY AdministrationStart, AdministrationKept, PTL DEF AdministrationSpec
<1>2. AdministrationInv => AdministrationPromise
  BY DEF AdministrationInv
<1> QED
  BY <1>1, <1>2, PTL

-----------------------------------------------------------------------------
(* Starts.                                                                 *)

StartupSpec == HandlersInit /\ service = "startup" /\ StartupInit /\ [][StartupNext]_<<handlers, startVars>>

\* Everything a start stores for an administrator is there.
Settled(a) ==
  a \in owners /\ a \notin halted => a \in factored \cap audited \cap linked /\ boxOf[name] = a

\* The places of a start that is making an account an administrator's, or taking it back.
Making == {"factor", "box", "own", "audit"} \cup UndoPlaces

\* What a start has found and stored on its way.
Administering(r) ==
  /\ r.at \in {"look", "create"} \cup Making => r.id \in 1 .. MaxRequests
  /\ r.at = "create" => founder = None
  /\ r.at \in Making \cup {"role", "known", "renew", "link"} => founder = r.id
  /\ r.at \in {"known", "renew", "link", "service", "list"} /\ r.config = "admin" => founder = r.id /\ r.id \in owners
  /\ r.at = "renew" => r.id \notin factored
  /\ r.at = "link" => r.id \in factored /\ (r.id \in halted \/ (r.id \in audited /\ boxOf[name] = r.id))
  /\ r.config = "none" => r.at \in {"service", "list"}

\* And what is left of it while it is taken back.
Made(r) ==
  /\ ~ Ended("refused") /\ ~ (Ended("served") /\ last.config = "admin")
  /\ r.at \in {"box", "own", "audit"} => r.id \in factored
  /\ r.at = "audit" => r.id \in owners
  /\ r.at \in {"own", "audit", "unassign", "unbox"} => boxOf[name] = r.id /\ (Ended("conflict") => name \in Own)
  /\ \/ r.id \in halted
     \/ /\ r.at \notin {"audit", "unassign"} => r.id \notin owners
        /\ r.at \in {"factor", "box", "unfactor", "unaccount"} => boxOf[name] # r.id
        /\ r.at \in {"factor", "unaccount"} => r.id \notin factored

\* The service addresses a start has been through.
Through(r) ==
  /\ r.at \notin {"service", "list"} => r.next = 1
  /\ \A j \in DOMAIN Steps :
       /\ j < r.next => boxOf[Steps[j].box] = Platform /\ (Steps[j].list => Steps[j].box \in list)
       /\ j = r.next /\ r.at = "list" => boxOf[Steps[j].box] = Platform /\ Steps[j].list
  /\ r.why = "conflict" => r.at \in {"unfactor", "unaccount"} /\ (name \in Own \/ boxOf[name] \in halted)

Started(r) == Administering(r) /\ (r.at \in Making => Made(r)) /\ Through(r)

\* What starts leave behind.
Remains ==
  /\ \A a \in 1 .. MaxRequests : a \in owners \cup factored \cup {boxOf[name]} => a \in halted \/ a = founder
  /\ \A l \in Locals :
       /\ boxOf[l] = Platform => l \in Own
       /\ l \in Own \ {name} => boxOf[l] \in {None, Platform}
  /\ boxOf[name] = Before => founder = Before

Appointed == Settled(founder) /\ (founder # None => founder \in owners \cup halted \cup {Before})

StartupInv ==
  /\ service = "startup" /\ StartupTypeOK
  /\ \A p, q \in InFlight : p = q
  /\ StartedWhole /\ RefusedForCause /\ Remains
  /\ (\A p \in InFlight : req[p].at \notin Making \cup {"link"}) => Appointed
  /\ \A p \in InFlight : Started(req[p])

\* What StartupTypeOK says of the stored records.
StartRecords ==
  /\ name \in Locals
  /\ founder \in Ids0 \cup {None}
  /\ owners \subseteq Ids0 /\ factored \subseteq Ids0 /\ audited \subseteq Ids0
  /\ linked \subseteq Ids0 /\ halted \subseteq Ids0
  /\ boxOf \in [Locals -> Ids0 \cup {None, Platform}]
  /\ list \subseteq ListIds
  /\ last \in Endings \cup {None}

LEMMA StartSteps ==
  /\ DOMAIN Steps = 1 .. 5 /\ Len(Steps) = 5
  /\ Steps[1] = [box |-> "support", list |-> FALSE] /\ Steps[2] = [box |-> "patchs", list |-> FALSE]
  /\ Steps[3] = [box |-> "announce", list |-> TRUE] /\ Steps[4] = [box |-> "development", list |-> TRUE]
  /\ Steps[5] = [box |-> "patchs", list |-> TRUE]
BY DEF Steps

LEMMA StartAddresses ==
  /\ \A j \in 1 .. 5 : Steps[j].box \in Own /\ Steps[j].box \in Locals /\ (Steps[j].list => Steps[j].box \in ListIds)
  /\ Own \subseteq Locals
  /\ \A l \in Own : \E j \in 1 .. 5 : l = Steps[j].box
  /\ \A l \in ListIds : \E j \in 1 .. 5 : l = Steps[j].box /\ Steps[j].list
  /\ \A j \in 1 .. 5 : Steps[j].list => j >= 3
  /\ \A j \in 1 .. 5 : ~ Steps[j].list => j < 3
<1>1. /\ Own = {Steps[j].box : j \in 1 .. 5} /\ Locals = Own \cup {"admin"}
      /\ ListIds = {s.box : s \in {Steps[i] : i \in {j \in 1 .. 5 : Steps[j].list}}}
  BY StartSteps DEF Own, Locals, ListIds
<1>2. \A j \in 1 .. 5 : (Steps[j].list => j >= 3) /\ (~ Steps[j].list => j < 3)
  BY StartSteps
<1> QED
  BY <1>1, <1>2

LEMMA StartHandlers ==
  ASSUME StartupInv
  PROVE  /\ Handling("startup", StartCalls) /\ None \notin StartCalls
         /\ StartRecords /\ StartedWhole /\ RefusedForCause /\ Remains
         /\ \A p \in InFlight : p \in Requests /\ req[p] \in StartCalls /\ Started(req[p])
         /\ \A p \in InFlight : req[p].at \notin Making \cup {"link"} => Appointed
         /\ InFlight = {} => Appointed
<1>1. Handling("startup", StartCalls) /\ StartRecords
  BY DEF StartupInv, StartupTypeOK, Handling, StartRecords
<1>2. \A p \in InFlight : req[p].at \notin Making \cup {"link"} => Appointed
  BY DEF StartupInv
<1> QED
  BY <1>1, <1>2, HandledCalls, StartupAssumption DEF StartupInv

\* The identities and the platform are apart.
LEMMA StartIds ==
  /\ None \notin Ids0 /\ Platform \notin Ids0 /\ Platform # None /\ Before \in Ids0
  /\ \A a \in Ids0 : a = Before \/ a \in 1 .. MaxRequests
  /\ \A a \in 1 .. MaxRequests : a \in Ids0 /\ a # Before /\ a # None /\ a # Platform
BY StartupAssumption, HandlersAssumption DEF Ids0, Before

LEMMA StartFields ==
  ASSUME NEW r \in StartCalls
  PROVE  /\ r.at \in StartPlaces \cup UndoPlaces /\ r.id \in Ids0 /\ r.config \in {"admin", "none"}
         /\ r.next \in 1 .. 5 /\ r.why \in {"conflict", "failed"}
BY StartSteps DEF StartCalls

LEMMA StartMoves ==
  ASSUME NEW r \in StartCalls, NEW place \in StartPlaces \cup UndoPlaces, NEW c, c = [r EXCEPT !.at = place]
  PROVE  /\ c \in StartCalls /\ c.at = place /\ c.id = r.id /\ c.config = r.config
         /\ c.next = r.next /\ c.why = r.why
BY DEF StartCalls

\* The start goes on.
LEMMA StartGoes ==
  ASSUME StartupInv, NEW p \in InFlight, NEW c \in StartCalls, Continue(p, c) \/ Fault(p, c),
         StartRecords', StartedWhole', RefusedForCause', Remains',
         c.at \notin Making \cup {"link"} => Appointed', Started(c)'
  PROVE  StartupInv'
<1> USE StartHandlers
<1>1. Handling("startup", StartCalls)' /\ InFlight' = InFlight /\ req'[p] = c
  BY Goes, Fails
<1>2. \A q \in InFlight : q = p
  BY DEF StartupInv
<1>3. service' = "startup" /\ StartupTypeOK'
  BY <1>1 DEF Handling, StartupTypeOK, StartRecords
<1>4. \A q \in InFlight' : Started(req[q])'
  BY <1>1, <1>2
<1> QED
  BY <1>1, <1>2, <1>3, <1>4 DEF StartupInv

LEMMA StartEnds ==
  ASSUME StartupInv, NEW p \in InFlight, Return(p) \/ Fault(p, None),
         StartRecords', StartedWhole', RefusedForCause', Remains', Appointed'
  PROVE  StartupInv'
<1> USE StartHandlers
<1>1. Handling("startup", StartCalls)' /\ InFlight' = InFlight \ {p}
  BY Ends
<1>2. \A q \in InFlight : q = p
  BY DEF StartupInv
<1>3. service' = "startup" /\ StartupTypeOK'
  BY <1>1 DEF Handling, StartupTypeOK, StartRecords
<1> QED
  BY <1>1, <1>2, <1>3 DEF StartupInv

LEMMA StartupFirst ==
  StartupInit => StartRecords /\ StartedWhole /\ RefusedForCause /\ Remains /\ Appointed
<1> SUFFICES ASSUME StartupInit
             PROVE  StartRecords /\ StartedWhole /\ RefusedForCause /\ Remains /\ Appointed
  OBVIOUS
<1>1. PICK before, there :
        /\ before \in {"nothing", "platform", "stranger", "owner"}
        /\ there = (IF before \in {"stranger", "owner"} THEN {Before} ELSE {})
        /\ before = "stranger" => name = "admin"
        /\ founder = IF there = {} THEN None ELSE Before
        /\ owners = IF before = "owner" THEN {Before} ELSE {}
        /\ halted = owners
        /\ factored = there \ owners
        /\ boxOf = [l \in Locals |-> IF before \in {"platform", "stranger"} /\ l \in Own THEN Platform
                                     ELSE IF before = "stranger" THEN Before ELSE None]
        /\ list = IF before \in {"platform", "stranger"} THEN ListIds ELSE {}
  BY DEF StartupInit
<1>2. name \in Locals /\ audited = {} /\ linked = {} /\ last = None
  BY DEF StartupInit
<1>3. /\ owners \subseteq {Before} /\ halted = owners /\ factored \subseteq {Before}
      /\ founder \in {Before, None} /\ (founder = None => owners = {})
      /\ boxOf \in [Locals -> {Before, None, Platform}] /\ list \subseteq ListIds
  <2>1. there \subseteq {Before} /\ owners \subseteq there /\ (there = {} => founder = None) /\ (there # {} => founder = Before)
    BY <1>1
  <2>2. boxOf \in [Locals -> {Before, None, Platform}] /\ list \subseteq ListIds
    BY <1>1
  <2>3. halted = owners /\ factored \subseteq there
    BY <1>1
  <2>4. founder = None => owners = {}
    BY <1>1, StartIds
  <2> QED
    BY <2>1, <2>2, <2>3, <2>4
<1>4. StartRecords
  BY <1>2, <1>3, StartIds DEF StartRecords
<1>5. StartedWhole /\ RefusedForCause
  BY <1>2 DEF StartedWhole, RefusedForCause, Ended
<1>6. "admin" \notin Own
  BY StartSteps, StartAddresses
<1>7. \A l \in Locals : (boxOf[l] = Platform => l \in Own) /\ (l \in Own \ {name} => boxOf[l] \in {None, Platform})
  BY <1>1, <1>6, StartIds
<1>8. boxOf[name] = Before => founder = Before
  BY <1>1, <1>2, StartIds
<1>9. Remains
  BY <1>2, <1>3, <1>7, <1>8, StartIds DEF Remains
<1>10. Appointed
  BY <1>3 DEF Appointed, Settled
<1> QED
  BY <1>4, <1>5, <1>9, <1>10

LEMMA StartupStart == HandlersInit /\ service = "startup" /\ StartupInit => StartupInv
<1> SUFFICES ASSUME HandlersInit, service = "startup", StartupInit
             PROVE  StartupInv
  OBVIOUS
<1>1. Handling("startup", StartCalls) /\ InFlight = {}
  BY Starts
<1> QED
  BY <1>1, StartupFirst DEF StartupInv, StartupTypeOK, StartRecords, Handling

LEMMA StartMisconfiguredKept ==
  ASSUME StartupInv, StartMisconfigured
  PROVE  StartupInv'
<1> USE StartHandlers
<1>1. /\ Once /\ InFlight = {} /\ last' = [config |-> "partial", outcome |-> "misconfigured", unread |-> FALSE]
      /\ UNCHANGED <<name, founder, owners, factored, audited, linked, boxOf, list, halted>>
  BY DEF StartMisconfigured, admin
<1>2. Handling("startup", StartCalls)' /\ InFlight' = {}
  BY <1>1, Answers
<1>3. StartRecords'
  BY <1>1 DEF StartRecords, Endings, Outcomes
<1>4. StartedWhole' /\ RefusedForCause'
  BY <1>1 DEF StartedWhole, RefusedForCause, Ended
<1>5. Remains' /\ Appointed'
  BY <1>1 DEF Remains, Appointed, Settled
<1> QED
  BY <1>2, <1>3, <1>4, <1>5 DEF StartupInv, StartupTypeOK, StartRecords, Handling

LEMMA StartConfiguredKept ==
  ASSUME StartupInv, NEW p \in Requests, NEW config \in {"admin", "none"}, StartConfigured(p, config)
  PROVE  StartupInv'
<1> USE StartHandlers
<1>1. PICK c : /\ c = [at |-> IF config = "admin" THEN "look" ELSE "service", id |-> begun + 1,
                       config |-> config, next |-> 1, why |-> "failed"]
               /\ Begin(p, c)
  BY DEF StartConfigured
<1>2. InFlight = {} /\ UNCHANGED <<name, founder, owners, factored, audited, linked, boxOf, list, last, halted>>
  BY DEF StartConfigured, startVars, admin
<1>3. begun + 1 \in 1 .. MaxRequests
  BY <1>1, HandlersAssumption DEF Begin, Handling, HandlersIn
<1>4. /\ c \in StartCalls /\ c.at = (IF config = "admin" THEN "look" ELSE "service") /\ c.id \in 1 .. MaxRequests
      /\ c.config = config /\ c.next = 1 /\ c.why = "failed"
  BY <1>1, <1>3, StartIds, StartSteps DEF StartCalls, StartPlaces
<1>5. /\ Handling("startup", StartCalls)' /\ InFlight' = {p} /\ req'[p] = c
  BY <1>1, <1>2, <1>4, Begins
<1>6. StartRecords' /\ StartedWhole' /\ RefusedForCause' /\ Remains' /\ Appointed'
  BY <1>2 DEF StartRecords, StartedWhole, RefusedForCause, Ended, Remains, Appointed, Settled
<1>7. Started(c)'
  BY <1>4, StartSteps DEF Started, Administering, Through, Making, UndoPlaces
<1> QED
  BY <1>5, <1>6, <1>7 DEF StartupInv, StartupTypeOK, StartRecords, Handling

LEMMA LookForFounderKept ==
  ASSUME StartupInv, NEW p \in Requests, LookForFounder(p)
  PROVE  StartupInv'
<1> USE StartHandlers
<1>1. PICK r : r = req[p]
  OBVIOUS
<1>2. /\ p \in InFlight /\ r.at = "look" /\ r \in StartCalls /\ Started(r) /\ Appointed
      /\ UNCHANGED <<name, founder, owners, factored, audited, linked, boxOf, list, last, halted>>
  BY <1>1 DEF LookForFounder, At, startVars, admin, Making, UndoPlaces
<1>3. r.config = "admin" /\ r.next = 1 /\ r.id \in 1 .. MaxRequests /\ r.why = "failed"
  BY <1>2, StartFields DEF Started, Administering, Through
<1>4. StartRecords' /\ StartedWhole' /\ RefusedForCause' /\ Remains' /\ Appointed'
  BY <1>2 DEF StartRecords, StartedWhole, RefusedForCause, Ended, Remains, Appointed, Settled
<1>5. CASE founder = None
  <2>1. PICK c : c = [r EXCEPT !.at = "create"] /\ Continue(p, c)
    BY <1>1, <1>5 DEF LookForFounder, Goto
  <2>2. /\ c \in StartCalls /\ c.at = "create" /\ c.id = r.id /\ c.config = r.config
        /\ c.next = r.next /\ c.why = r.why
    BY <1>2, <2>1, StartMoves DEF StartPlaces
  <2>3. Started(c)'
    BY <1>2, <1>3, <1>5, <2>2, StartSteps DEF Started, Administering, Through, Making, UndoPlaces
  <2> QED
    BY <1>2, <1>4, <2>1, <2>2, <2>3, StartGoes
<1>6. CASE founder # None
  <2>1. PICK c : c = [r EXCEPT !.at = "role", !.id = founder] /\ Continue(p, c)
    BY <1>1, <1>6 DEF LookForFounder
  <2>2. founder \in Ids0
    BY <1>6 DEF StartRecords
  <2>3. /\ c \in StartCalls /\ c.at = "role" /\ c.id = founder /\ c.config = r.config
        /\ c.next = r.next /\ c.why = r.why
    BY <1>2, <2>1, <2>2 DEF StartCalls, StartPlaces
  <2>4. Started(c)'
    BY <1>2, <1>3, <2>3, StartSteps DEF Started, Administering, Through, Making, UndoPlaces
  <2> QED
    BY <1>2, <1>4, <2>1, <2>3, <2>4, StartGoes
<1> QED
  BY <1>5, <1>6

LEMMA CheckRoleKept ==
  ASSUME StartupInv, NEW p \in Requests, CheckRole(p)
  PROVE  StartupInv'
<1> USE StartHandlers
<1>1. PICK r : r = req[p]
  OBVIOUS
<1>2. /\ p \in InFlight /\ r.at = "role" /\ r \in StartCalls /\ Started(r) /\ Appointed
      /\ UNCHANGED <<name, founder, owners, factored, audited, linked, boxOf, list, halted>>
  BY <1>1 DEF CheckRole, At, admin, Making, UndoPlaces
<1>3. r.config = "admin" /\ r.next = 1 /\ r.why = "failed" /\ founder = r.id /\ founder # None
  BY <1>2, StartFields, StartIds DEF Started, Administering, Through
<1>4. Remains' /\ Appointed'
  BY <1>2 DEF Remains, Appointed, Settled
<1>5. CASE founder \in owners
  <2>1. PICK c : c = [r EXCEPT !.at = "known"] /\ Continue(p, c)
    BY <1>1, <1>3, <1>5 DEF CheckRole, MayTakeOffice, Goto
  <2>2. /\ c \in StartCalls /\ c.at = "known" /\ c.id = r.id /\ c.config = r.config
        /\ c.next = r.next /\ c.why = r.why
    BY <1>2, <2>1, StartMoves DEF StartPlaces
  <2>3. last' = last
    BY <1>1, <1>3, <1>5 DEF CheckRole, MayTakeOffice
  <2>4. Started(c)'
    BY <1>2, <1>3, <1>5, <2>2, StartSteps DEF Started, Administering, Through, Making, UndoPlaces
  <2>5. StartRecords' /\ StartedWhole' /\ RefusedForCause'
    BY <1>2, <2>3 DEF StartRecords, StartedWhole, RefusedForCause, Ended
  <2> QED
    BY <1>2, <1>4, <2>1, <2>2, <2>4, <2>5, StartGoes
<1>6. CASE founder \notin owners
  <2>1. Return(p) /\ last' = [config |-> r.config, outcome |-> "refused", unread |-> FALSE]
    BY <1>1, <1>3, <1>6 DEF CheckRole, MayTakeOffice, End, Ending
  <2>2. founder \in {Before} \cup halted
    BY <1>3, <1>2, <1>6 DEF Appointed
  <2>3. StartRecords' /\ StartedWhole' /\ RefusedForCause'
    BY <1>2, <1>3, <2>1, <2>2 DEF StartRecords, StartedWhole, RefusedForCause, Ended, Endings, Outcomes
  <2> QED
    BY <1>2, <1>4, <2>1, <2>3, StartEnds
<1> QED
  BY <1>5, <1>6

LEMMA CheckFactorKept ==
  ASSUME StartupInv, NEW p \in Requests, CheckFactor(p)
  PROVE  StartupInv'
<1> USE StartHandlers
<1>1. PICK r, place, c : /\ r = req[p] /\ place = (IF founder \in factored THEN "service" ELSE "renew")
                         /\ c = [r EXCEPT !.at = place] /\ Continue(p, c)
  BY DEF CheckFactor, Goto
<1>2. /\ p \in InFlight /\ r.at = "known" /\ r \in StartCalls /\ Started(r) /\ Appointed
      /\ UNCHANGED <<name, founder, owners, factored, audited, linked, boxOf, list, last, halted>>
  BY <1>1 DEF CheckFactor, At, startVars, admin, Making, UndoPlaces
<1>3. r.config = "admin" /\ r.next = 1 /\ r.why = "failed" /\ founder = r.id /\ r.id \in owners
  BY <1>2, StartFields DEF Started, Administering, Through
<1>4. /\ c \in StartCalls /\ c.at = place /\ c.id = r.id /\ c.config = r.config
      /\ c.next = r.next /\ c.why = r.why
  BY <1>1, <1>2, StartMoves DEF StartPlaces
<1>5. StartRecords' /\ StartedWhole' /\ RefusedForCause' /\ Remains' /\ Appointed'
  BY <1>2 DEF StartRecords, StartedWhole, RefusedForCause, Ended, Remains, Appointed, Settled
<1>6. Started(c)'
  BY <1>1, <1>2, <1>3, <1>4, StartSteps DEF Started, Administering, Through, Making, UndoPlaces
<1> QED
  BY <1>1, <1>2, <1>4, <1>5, <1>6, StartGoes

\* At the places of making an administrator nobody was refused and nobody serves as one.
LEMMA CreateFounderKept ==
  ASSUME StartupInv, NEW p \in Requests, CreateFounder(p)
  PROVE  StartupInv'
<1> USE StartHandlers
<1>1. PICK r, c : r = req[p] /\ c = [r EXCEPT !.at = "factor"] /\ Continue(p, c)
  BY DEF CreateFounder, Goto
<1>2. /\ p \in InFlight /\ r.at = "create" /\ r \in StartCalls /\ Started(r) /\ founder' = r.id
      /\ UNCHANGED <<name, owners, factored, audited, linked, boxOf, list, last, halted>>
  BY <1>1 DEF CreateFounder, At
<1>3. r.config = "admin" /\ r.next = 1 /\ r.why = "failed" /\ founder = None /\ r.id \in 1 .. MaxRequests
  BY <1>2, StartFields DEF Started, Administering, Through
<1>4. /\ c \in StartCalls /\ c.at = "factor" /\ c.id = r.id /\ c.config = r.config
      /\ c.next = r.next /\ c.why = r.why
  BY <1>1, <1>2, StartMoves DEF StartPlaces
<1>5. ~ Ended("refused") /\ ~ (Ended("served") /\ last.config = "admin")
  BY <1>3, StartIds DEF RefusedForCause, StartedWhole, StartRecords
<1>6. StartRecords' /\ StartedWhole' /\ RefusedForCause'
  BY <1>2, <1>3, <1>5, StartIds DEF StartRecords, StartedWhole, RefusedForCause, Ended
<1>7. Remains'
  BY <1>2, <1>3, StartIds DEF Remains
<1>8. r.id \in halted \/ (r.id \notin owners /\ r.id \notin factored /\ boxOf[name] # r.id)
  BY <1>3, StartIds DEF Remains
<1>9. Made(c)'
  BY <1>2, <1>4, <1>5, <1>8 DEF Made, Ended
<1>10. Started(c)'
  BY <1>2, <1>3, <1>4, <1>9, StartSteps DEF Started, Administering, Through, Making, UndoPlaces
<1> QED
  BY <1>1, <1>2, <1>4, <1>6, <1>7, <1>10, StartGoes DEF Making

\* What is known of a start that is making or taking back account r.id.
LEMMA MakingFacts ==
  ASSUME StartupInv, NEW r \in StartCalls, Started(r), r.at \in Making
  PROVE  /\ r.id \in 1 .. MaxRequests /\ founder = r.id /\ Made(r) /\ r.config = "admin" /\ r.next = 1
         /\ ~ Ended("refused") /\ ~ (Ended("served") /\ last.config = "admin")
         /\ r.id \in Ids0 /\ r.id # None /\ r.id # Before /\ r.id # Platform
<1>1. r.at \notin {"service", "list"}
  BY DEF Making, UndoPlaces
<1> QED
  BY <1>1, StartFields, StartIds DEF Started, Administering, Through, Made

LEMMA PutFactorKept ==
  ASSUME StartupInv, NEW p \in Requests, PutFactor(p)
  PROVE  StartupInv'
<1> USE StartHandlers
<1>1. PICK r, place, c : /\ r = req[p] /\ place = (IF r.at = "renew" THEN "link" ELSE "box")
                         /\ c = [r EXCEPT !.at = place] /\ Continue(p, c)
  BY DEF PutFactor, Goto
<1>2. /\ p \in InFlight /\ r.at \in {"factor", "renew"} /\ r \in StartCalls /\ Started(r)
      /\ factored' = factored \cup {r.id}
      /\ UNCHANGED <<name, founder, owners, audited, linked, boxOf, list, last, halted>>
  BY <1>1 DEF PutFactor, At
<1>3. r.config = "admin" /\ r.next = 1 /\ r.why = "failed" /\ founder = r.id /\ r.id \in Ids0
  BY <1>2, StartFields DEF Started, Administering, Through, Making
<1>4. /\ c \in StartCalls /\ c.at = place /\ c.id = r.id /\ c.config = r.config
      /\ c.next = r.next /\ c.why = r.why
  BY <1>1, <1>2, StartMoves DEF StartPlaces
<1>5. StartRecords' /\ RefusedForCause'
  BY <1>2, <1>3 DEF StartRecords, RefusedForCause, Ended
<1>6. StartedWhole'
  BY <1>2 DEF StartedWhole, Ended
<1>7. Remains'
  BY <1>2, <1>3 DEF Remains
<1>8. CASE r.at = "factor"
  <2>1. /\ Made(r) /\ r.id \in 1 .. MaxRequests /\ c.at = "box"
    BY <1>1, <1>2, <1>4, <1>8, MakingFacts DEF Making
  <2>2. Made(c)'
    BY <1>2, <1>4, <1>8, <2>1 DEF Made, Ended
  <2>3. Started(c)'
    BY <1>2, <1>3, <1>4, <2>1, <2>2, StartSteps DEF Started, Administering, Through, Making, UndoPlaces
  <2> QED
    BY <1>1, <1>2, <1>4, <1>5, <1>6, <1>7, <2>1, <2>3, StartGoes DEF Making
<1>9. CASE r.at = "renew"
  <2>1. Appointed /\ c.at = "link" /\ r.id \in owners /\ r.id \notin factored
    <3>1. r.at \notin Making \cup {"link"}
      BY <1>9 DEF Making, UndoPlaces
    <3>2. Appointed
      BY <1>1, <1>2, <3>1
    <3>3. r.id \in owners /\ r.id \notin factored
      BY <1>2, <1>3, <1>9 DEF Started, Administering
    <3> QED
      BY <1>1, <1>4, <1>9, <3>2, <3>3
  <2>2. r.id \in halted
    BY <1>3, <2>1 DEF Appointed, Settled
  <2>3. Started(c)'
    BY <1>2, <1>3, <1>4, <2>1, <2>2, StartSteps DEF Started, Administering, Through, Making, UndoPlaces
  <2> QED
    BY <1>1, <1>2, <1>4, <1>5, <1>6, <1>7, <2>1, <2>3, StartGoes
<1> QED
  BY <1>2, <1>8, <1>9

LEMMA OpenFounderBoxKept ==
  ASSUME StartupInv, NEW p \in Requests, OpenFounderBox(p)
  PROVE  StartupInv'
<1> USE StartHandlers
<1>1. PICK r : r = req[p]
  OBVIOUS
<1>2. /\ p \in InFlight /\ r.at = "box" /\ r \in StartCalls /\ Started(r) /\ r.at \in Making
      /\ UNCHANGED <<name, founder, owners, factored, audited, linked, list, last, halted>>
  BY <1>1 DEF OpenFounderBox, At, admin, Making
<1>3. /\ r.id \in 1 .. MaxRequests /\ founder = r.id /\ Made(r) /\ r.config = "admin" /\ r.next = 1
      /\ ~ Ended("refused") /\ ~ (Ended("served") /\ last.config = "admin")
      /\ r.id \in Ids0 /\ r.id # None /\ r.id # Before /\ r.id # Platform
  BY <1>2, MakingFacts
<1>4. CASE boxOf[name] = None
  <2>1. PICK c : c = [r EXCEPT !.at = "own"] /\ Continue(p, c) /\ boxOf' = [boxOf EXCEPT ![name] = r.id]
    BY <1>1, <1>4 DEF OpenFounderBox, Goto
  <2>2. /\ c \in StartCalls /\ c.at = "own" /\ c.id = r.id /\ c.config = r.config
        /\ c.next = r.next /\ c.why = r.why
    BY <1>2, <2>1, StartMoves DEF StartPlaces
  <2>3. /\ boxOf' \in [Locals -> Ids0 \cup {None, Platform}] /\ boxOf'[name] = r.id
        /\ \A l \in Locals \ {name} : boxOf'[l] = boxOf[l]
    BY <1>3, <2>1 DEF StartRecords
  <2>4. (Ended("served") => name \notin Own) /\ (Ended("conflict") => name \in Own)
    BY <1>4, StartIds DEF StartedWhole, RefusedForCause, StartRecords
  <2>5. StartRecords' /\ RefusedForCause'
    BY <1>2, <1>3, <2>3, <2>4 DEF StartRecords, RefusedForCause, Ended
  <2>6. StartedWhole'
    <3> SUFFICES ASSUME Ended("served")
                 PROVE  (\A l \in Own : boxOf'[l] = Platform) /\ list' = ListIds
      BY <1>2, <1>3 DEF StartedWhole, Ended
    <3> QED
      BY <1>2, <2>3, <2>4, StartAddresses DEF StartedWhole
  <2>7. Remains'
    BY <1>2, <1>3, <2>3, StartAddresses DEF Remains
  <2>8. Made(c)'
    BY <1>2, <1>3, <2>2, <2>3, <2>4 DEF Made, Ended
  <2>9. r.why = "failed"
    BY <1>2, StartFields DEF Started, Through
  <2>10. Started(c)'
    BY <1>2, <1>3, <2>2, <2>8, <2>9, StartSteps DEF Started, Administering, Through, Making, UndoPlaces
  <2> QED
    BY <1>1, <1>2, <2>1, <2>2, <2>5, <2>6, <2>7, <2>10, StartGoes DEF Making
<1>5. CASE boxOf[name] # None
  <2>1. PICK c : c = [r EXCEPT !.at = "unfactor", !.why = "conflict"] /\ Continue(p, c)
    BY <1>1, <1>5 DEF OpenFounderBox
  <2>2. /\ c \in StartCalls /\ c.at = "unfactor" /\ c.id = r.id /\ c.config = r.config
        /\ c.next = r.next /\ c.why = "conflict"
    BY <1>2, <2>1 DEF StartCalls, StartPlaces, UndoPlaces
  <2>3. boxOf' = boxOf
    BY <1>5 DEF OpenFounderBox
  <2>4. StartRecords' /\ StartedWhole' /\ RefusedForCause' /\ Remains'
    BY <1>2, <2>3 DEF StartRecords, StartedWhole, RefusedForCause, Ended, Remains
  <2>5. name \in Own \/ boxOf[name] \in halted
    <3>1. name \in Locals /\ boxOf[name] \in Ids0 \cup {Platform}
      BY <1>5 DEF StartRecords
    <3>2. CASE boxOf[name] = Platform
      BY <3>1, <3>2 DEF Remains
    <3>3. CASE boxOf[name] \in 1 .. MaxRequests
      BY <1>2, <1>3, <3>3 DEF Remains, Made
    <3>4. CASE boxOf[name] = Before
      BY <1>3, <3>4 DEF Remains
    <3> QED
      BY <3>1, <3>2, <3>3, <3>4, StartIds
  <2>6. Made(c)'
    BY <1>2, <1>3, <2>2, <2>3 DEF Made, Ended
  <2>7. Started(c)'
    BY <1>2, <1>3, <2>2, <2>3, <2>5, <2>6, StartSteps DEF Started, Administering, Through, Making, UndoPlaces
  <2> QED
    BY <1>1, <1>2, <2>1, <2>2, <2>4, <2>7, StartGoes DEF Making, UndoPlaces
<1> QED
  BY <1>4, <1>5

LEMMA AssignOwnerKept ==
  ASSUME StartupInv, NEW p \in Requests, AssignOwner(p)
  PROVE  StartupInv'
<1> USE StartHandlers
<1>1. PICK r, c : r = req[p] /\ c = [r EXCEPT !.at = "audit"] /\ Continue(p, c)
  BY DEF AssignOwner, Goto
<1>2. /\ p \in InFlight /\ r.at = "own" /\ r \in StartCalls /\ Started(r) /\ r.at \in Making
      /\ owners' = owners \cup {r.id}
      /\ UNCHANGED <<name, founder, factored, audited, linked, boxOf, list, last, halted>>
  BY <1>1 DEF AssignOwner, At, Making
<1>3. /\ r.id \in 1 .. MaxRequests /\ founder = r.id /\ Made(r) /\ r.config = "admin" /\ r.next = 1
      /\ ~ Ended("refused") /\ ~ (Ended("served") /\ last.config = "admin") /\ r.id \in Ids0
  BY <1>2, MakingFacts
<1>4. /\ c \in StartCalls /\ c.at = "audit" /\ c.id = r.id /\ c.config = r.config
      /\ c.next = r.next /\ c.why = r.why
  BY <1>1, <1>2, StartMoves DEF StartPlaces
<1>5. StartRecords' /\ StartedWhole' /\ RefusedForCause' /\ Remains'
  BY <1>2, <1>3 DEF StartRecords, StartedWhole, RefusedForCause, Ended, Remains
<1>6. Made(c)'
  BY <1>2, <1>3, <1>4 DEF Made, Ended
<1>7. r.why = "failed"
  BY <1>2, StartFields DEF Started, Through
<1>8. Started(c)'
  BY <1>2, <1>3, <1>4, <1>6, <1>7, StartSteps DEF Started, Administering, Through, Making, UndoPlaces
<1> QED
  BY <1>1, <1>2, <1>4, <1>5, <1>8, StartGoes DEF Making

LEMMA AuditFounderKept ==
  ASSUME StartupInv, NEW p \in Requests, AuditFounder(p)
  PROVE  StartupInv'
<1> USE StartHandlers
<1>1. PICK r, c : r = req[p] /\ c = [r EXCEPT !.at = "link"] /\ Continue(p, c)
  BY DEF AuditFounder, Goto
<1>2. /\ p \in InFlight /\ r.at = "audit" /\ r \in StartCalls /\ Started(r) /\ r.at \in Making
      /\ audited' = audited \cup {r.id}
      /\ UNCHANGED <<name, founder, owners, factored, linked, boxOf, list, last, halted>>
  BY <1>1 DEF AuditFounder, At, Making
<1>3. /\ r.id \in 1 .. MaxRequests /\ founder = r.id /\ Made(r) /\ r.config = "admin" /\ r.next = 1
      /\ ~ Ended("refused") /\ ~ (Ended("served") /\ last.config = "admin") /\ r.id \in Ids0
  BY <1>2, MakingFacts
<1>4. /\ c \in StartCalls /\ c.at = "link" /\ c.id = r.id /\ c.config = r.config
      /\ c.next = r.next /\ c.why = r.why
  BY <1>1, <1>2, StartMoves DEF StartPlaces
<1>5. StartRecords' /\ StartedWhole' /\ RefusedForCause' /\ Remains'
  BY <1>2, <1>3 DEF StartRecords, StartedWhole, RefusedForCause, Ended, Remains
<1>6. r.why = "failed" /\ r.id \in owners /\ r.id \in factored /\ boxOf[name] = r.id
  BY <1>2, <1>3, StartFields DEF Started, Through, Made
<1>7. Started(c)'
  BY <1>2, <1>3, <1>4, <1>6, StartSteps DEF Started, Administering, Through, Making, UndoPlaces
<1> QED
  BY <1>1, <1>2, <1>4, <1>5, <1>7, StartGoes

LEMMA SendLinkKept ==
  ASSUME StartupInv, NEW p \in Requests, SendLink(p)
  PROVE  StartupInv'
<1> USE StartHandlers
<1>1. PICK r, c : r = req[p] /\ c = [r EXCEPT !.at = "service"] /\ Continue(p, c)
  BY DEF SendLink, Goto
<1>2. /\ p \in InFlight /\ r.at = "link" /\ r \in StartCalls /\ Started(r)
      /\ linked' = linked \cup {r.id}
      /\ UNCHANGED <<name, founder, owners, factored, audited, boxOf, list, last, halted>>
  BY <1>1 DEF SendLink, At
<1>3. /\ founder = r.id /\ r.id \in owners /\ r.id \in factored /\ r.config = "admin" /\ r.next = 1 /\ r.why = "failed"
      /\ r.id \in halted \/ (r.id \in audited /\ boxOf[name] = r.id)
  BY <1>2, StartFields DEF Started, Administering, Through
<1>4. /\ c \in StartCalls /\ c.at = "service" /\ c.id = r.id /\ c.config = r.config
      /\ c.next = r.next /\ c.why = r.why
  BY <1>1, <1>2, StartMoves DEF StartPlaces
<1>5. StartRecords' /\ StartedWhole' /\ RefusedForCause' /\ Remains'
  BY <1>2, <1>3 DEF StartRecords, StartedWhole, RefusedForCause, Ended, Remains
<1>6. Appointed'
  BY <1>2, <1>3 DEF Appointed, Settled
<1>7. Started(c)'
  BY <1>2, <1>3, <1>4, StartSteps DEF Started, Administering, Through, Making, UndoPlaces
<1> QED
  BY <1>1, <1>2, <1>4, <1>5, <1>6, <1>7, StartGoes

LEMMA TakeBackFounderKept ==
  ASSUME StartupInv, NEW p \in Requests, TakeBackFounder(p)
  PROVE  StartupInv'
<1> USE StartHandlers
<1>1. PICK r : r = req[p]
  OBVIOUS
<1>2. /\ p \in InFlight /\ r.at \in UndoPlaces /\ r \in StartCalls /\ Started(r) /\ r.at \in Making
      /\ owners' = (IF r.at = "unassign" THEN owners \ {r.id} ELSE owners)
      /\ factored' = (IF r.at = "unfactor" THEN factored \ {r.id} ELSE factored)
      /\ boxOf' = (IF r.at = "unbox" THEN [boxOf EXCEPT ![name] = None] ELSE boxOf)
      /\ UNCHANGED <<name, audited, linked, list, halted>>
  BY <1>1 DEF TakeBackFounder, Making
<1>3. /\ r.id \in 1 .. MaxRequests /\ founder = r.id /\ Made(r) /\ r.config = "admin" /\ r.next = 1
      /\ ~ Ended("refused") /\ ~ (Ended("served") /\ last.config = "admin")
      /\ r.id \in Ids0 /\ r.id # None /\ r.id # Before /\ r.id # Platform
  BY <1>2, MakingFacts
<1>4. CASE r.at = "unaccount"
  <2>1. /\ founder' = None /\ Return(p) /\ last' = [config |-> r.config, outcome |-> r.why, unread |-> FALSE]
        /\ UNCHANGED <<owners, factored, boxOf>>
    BY <1>1, <1>2, <1>4 DEF TakeBackFounder, End, Ending
  <2>2. r.why \in {"conflict", "failed"} /\ (r.why = "conflict" => name \in Own \/ boxOf[name] \in halted)
    BY <1>2, StartFields DEF Started, Through
  <2>3. StartRecords' /\ StartedWhole' /\ RefusedForCause'
    BY <1>2, <1>3, <2>1, <2>2 DEF StartRecords, StartedWhole, RefusedForCause, Ended, Endings, Outcomes
  <2>4. r.id \in halted \/ (r.id \notin owners /\ r.id \notin factored /\ boxOf[name] # r.id)
    BY <1>3, <1>4 DEF Made
  <2>5. Remains'
    BY <1>2, <1>3, <2>1, <2>4 DEF Remains
  <2>6. Appointed'
    BY <1>2, <2>1, StartIds DEF Appointed, Settled, StartRecords
  <2> QED
    BY <1>2, <2>1, <2>3, <2>5, <2>6, StartEnds
<1>5. CASE r.at # "unaccount"
  <2>1. PICK place, c : /\ place = Undone(r.at) /\ c = [r EXCEPT !.at = place] /\ Continue(p, c)
    BY <1>1, <1>5 DEF TakeBackFounder, Goto
  <2>2. /\ r.at = "unassign" => place = "unbox"
        /\ r.at = "unbox" => place = "unfactor"
        /\ r.at = "unfactor" => place = "unaccount"
        /\ r.at \in {"unassign", "unbox", "unfactor"} /\ place \in UndoPlaces
    BY <1>2, <1>5, <2>1 DEF Undone, UndoPlaces
  <2>3. /\ c \in StartCalls /\ c.at = place /\ c.id = r.id /\ c.config = r.config
        /\ c.next = r.next /\ c.why = r.why
    BY <1>2, <2>1, <2>2, StartMoves
  <2>4. UNCHANGED <<founder, last>>
    BY <1>1, <1>5 DEF TakeBackFounder
  <2>5. /\ boxOf' \in [Locals -> Ids0 \cup {None, Platform}]
        /\ \A l \in Locals \ {name} : boxOf'[l] = boxOf[l]
        /\ IF r.at = "unbox" THEN boxOf'[name] = None /\ boxOf[name] = r.id ELSE boxOf'[name] = boxOf[name]
    BY <1>2, <1>3 DEF StartRecords, Made
  <2>6. owners' \subseteq owners /\ factored' \subseteq factored
    BY <1>2
  <2>7. StartRecords' /\ Remains'
    <3>1. StartRecords'
      BY <1>2, <2>4, <2>5, <2>6 DEF StartRecords
    <3>2. Remains'
      BY <1>2, <1>3, <2>4, <2>5, <2>6, StartIds DEF Remains
    <3> QED
      BY <3>1, <3>2
  <2>8. StartedWhole'
    <3> SUFFICES ASSUME Ended("served")
                 PROVE  (\A l \in Own : boxOf'[l] = Platform) /\ list' = ListIds
      BY <1>3, <2>4 DEF StartedWhole, Ended
    <3>1. (\A l \in Own : boxOf[l] = Platform) /\ list = ListIds
      BY DEF StartedWhole
    <3>2. r.at = "unbox" => name \notin Own
      BY <1>3, <2>5, <3>1
    <3>3. \A l \in Own : boxOf'[l] = boxOf[l]
      BY <2>5, <3>2, StartAddresses
    <3> QED
      BY <1>2, <3>1, <3>3
  <2>9. RefusedForCause'
    <3>1. Ended("conflict") => name \in Own \/ boxOf'[name] \in halted
      BY <1>3, <2>5 DEF RefusedForCause, Made
    <3> QED
      BY <1>2, <1>3, <2>4, <3>1 DEF RefusedForCause, Ended
  <2>10. Made(c)'
    BY <1>2, <1>3, <2>2, <2>3, <2>4, <2>5 DEF Made, Ended
  <2>11. Through(c)'
    BY <1>2, <1>3, <2>2, <2>3, <2>5, StartSteps DEF Started, Through, UndoPlaces
  <2>12. Started(c)'
    BY <1>3, <2>2, <2>3, <2>4, <2>10, <2>11 DEF Started, Administering, Making, UndoPlaces
  <2> QED
    BY <1>2, <2>1, <2>2, <2>3, <2>7, <2>8, <2>9, <2>12, StartGoes DEF Making
<1> QED
  BY <1>4, <1>5

\* What a start has done for the administrator does not change while it goes through the
\* service addresses.
LEMMA StillAppointed ==
  ASSUME StartupInv, Appointed, UNCHANGED <<name, founder, owners, factored, audited, linked, halted>>,
         NEW l \in Locals, boxOf[l] \in {None, Platform}, boxOf'[l] = Platform,
         \A k \in Locals \ {l} : boxOf'[k] = boxOf[k]
  PROVE  Appointed'
<1> USE StartHandlers
<1>1. name \in Locals /\ founder \in Ids0 \cup {None} /\ owners \subseteq Ids0
  BY DEF StartRecords
<1>2. CASE l = name
  BY <1>1, <1>2, StartIds DEF Appointed, Settled
<1>3. CASE l # name
  BY <1>1, <1>3 DEF Appointed, Settled
<1> QED
  BY <1>2, <1>3

LEMMA EnsureServiceBoxKept ==
  ASSUME StartupInv, NEW p \in Requests, EnsureServiceBox(p)
  PROVE  StartupInv'
<1> USE StartHandlers
<1>1. PICK r, j, l : r = req[p] /\ j = r.next /\ l = Steps[j].box
  OBVIOUS
<1>2. /\ p \in InFlight /\ r.at = "service" /\ r \in StartCalls /\ Started(r) /\ Appointed
      /\ UNCHANGED <<name, founder, owners, factored, audited, linked, list, halted>>
  BY <1>1 DEF EnsureServiceBox, At, admin, Making, UndoPlaces
<1>3. j \in 1 .. 5 /\ l \in Own /\ l \in Locals /\ name \in Locals /\ r.config \in {"admin", "none"} /\ r.why = "failed"
  BY <1>1, <1>2, StartAddresses, StartFields DEF StartRecords, Started, Through
<1>4. CASE boxOf[l] \in {None, Platform}
  <2>1. PICK c : /\ c = (IF Steps[j].list THEN [r EXCEPT !.at = "list"]
                         ELSE [r EXCEPT !.at = "service", !.next = r.next + 1])
                 /\ Continue(p, c) /\ boxOf' = [boxOf EXCEPT ![l] = Platform] /\ last' = last
    BY <1>1, <1>4 DEF EnsureServiceBox, Following
  <2>2. /\ c \in StartCalls /\ c.at = (IF Steps[j].list THEN "list" ELSE "service") /\ c.id = r.id /\ c.config = r.config
        /\ c.next = (IF Steps[j].list THEN j ELSE j + 1) /\ c.why = r.why
    <3>1. CASE Steps[j].list
      BY <1>1, <1>2, <2>1, <3>1, StartMoves DEF StartPlaces
    <3>2. CASE ~ Steps[j].list
      <4>1. j + 1 \in DOMAIN Steps
        BY <1>3, <3>2, StartAddresses, StartSteps
      <4> QED
        BY <1>1, <1>2, <2>1, <3>2, <4>1 DEF StartCalls, StartPlaces
    <3> QED
      BY <3>1, <3>2
  <2>3. /\ boxOf' \in [Locals -> Ids0 \cup {None, Platform}] /\ boxOf'[l] = Platform
        /\ \A k \in Locals \ {l} : boxOf'[k] = boxOf[k]
    BY <1>3, <2>1 DEF StartRecords
  <2>4. StartRecords'
    BY <1>2, <2>1, <2>3 DEF StartRecords
  <2>5. Remains'
    BY <1>2, <1>3, <2>3, StartIds DEF Remains
  <2>6. Appointed'
    BY <1>2, <1>3, <1>4, <2>3, StillAppointed
  <2>7. StartedWhole'
    <3> SUFFICES ASSUME Ended("served")
                 PROVE  /\ \A k \in Own : boxOf'[k] = Platform
                        /\ list' = ListIds
                        /\ last.config = "admin" => founder' \in owners'
                             /\ (founder' \notin halted' => founder' \in factored' \cap audited' \cap linked'
                                                              /\ boxOf'[name] = founder')
      BY <1>2, <2>1 DEF StartedWhole, Ended
    <3>1. \A k \in Own : boxOf'[k] = Platform
      BY <2>3, StartAddresses DEF StartedWhole
    <3>2. last.config = "admin" => founder \in owners
      BY DEF StartedWhole
    <3> QED
      BY <1>2, <2>6, <3>1, <3>2 DEF StartedWhole, Appointed, Settled
  <2>8. RefusedForCause'
    <3>1. Ended("conflict") => name \in Own \/ boxOf'[name] \in halted
      BY <1>3, <2>3 DEF RefusedForCause
    <3> QED
      BY <1>2, <2>1, <3>1 DEF RefusedForCause, Ended
  <2>9. Through(c)'
    <3>1. \A k \in 1 .. 5 : k < j => boxOf[Steps[k].box] = Platform /\ (Steps[k].list => Steps[k].box \in list)
      BY <1>1, <1>2, StartSteps DEF Started, Through
    <3>2. \A k \in 1 .. 5 : k <= j => boxOf'[Steps[k].box] = Platform
      BY <1>1, <1>3, <2>3, <3>1, StartAddresses
    <3>3. \A k \in 1 .. 5 : k < c.next => k <= j /\ (k < j \/ ~ Steps[k].list)
      BY <1>3, <2>2
    <3>4. c.why = "failed" /\ c.at \in {"service", "list"}
      BY <1>3, <2>2
    <3>5. \A k \in 1 .. 5 : k < c.next => boxOf'[Steps[k].box] = Platform /\ (Steps[k].list => Steps[k].box \in list)
      BY <3>1, <3>2, <3>3
    <3>6. \A k \in 1 .. 5 : k = c.next /\ c.at = "list" => boxOf'[Steps[k].box] = Platform /\ Steps[k].list
      BY <1>3, <2>2, <3>2
    <3> QED
      BY <1>2, <3>4, <3>5, <3>6, StartSteps DEF Through
  <2>10. Started(c)'
    BY <1>2, <2>2, <2>9 DEF Started, Administering, Making, UndoPlaces
  <2> QED
    BY <1>2, <2>1, <2>2, <2>4, <2>5, <2>6, <2>7, <2>8, <2>10, StartGoes
<1>5. CASE boxOf[l] \notin {None, Platform}
  <2>1. Return(p) /\ last' = [config |-> r.config, outcome |-> "conflict", unread |-> FALSE] /\ boxOf' = boxOf
    BY <1>1, <1>5 DEF EnsureServiceBox, End, Ending
  <2>2. name \in Own
    BY <1>3, <1>5 DEF Remains
  <2>3. StartRecords' /\ StartedWhole' /\ RefusedForCause'
    BY <1>2, <1>3, <2>1, <2>2 DEF StartRecords, StartedWhole, RefusedForCause, Ended, Endings, Outcomes
  <2>4. Remains' /\ Appointed'
    BY <1>2, <2>1 DEF Remains, Appointed, Settled
  <2> QED
    BY <1>2, <2>1, <2>3, <2>4, StartEnds
<1> QED
  BY <1>4, <1>5

LEMMA EnsureListKept ==
  ASSUME StartupInv, NEW p \in Requests, EnsureList(p)
  PROVE  StartupInv'
<1> USE StartHandlers
<1>1. PICK r, j, l : r = req[p] /\ j = r.next /\ l = Steps[j].box
  OBVIOUS
<1>2. /\ p \in InFlight /\ r.at = "list" /\ r \in StartCalls /\ Started(r) /\ Appointed
      /\ list' = list \cup {l}
      /\ UNCHANGED <<name, founder, owners, factored, audited, linked, boxOf, halted>>
  BY <1>1 DEF EnsureList, At, admin, Making, UndoPlaces
<1>3. /\ j \in 1 .. 5 /\ l \in Own /\ boxOf[l] = Platform /\ l \in ListIds
      /\ r.config \in {"admin", "none"} /\ r.why = "failed"
  <2>1. j \in 1 .. 5 /\ r.config \in {"admin", "none"} /\ r.why = "failed"
    BY <1>1, <1>2, StartFields DEF Started, Through
  <2>2. boxOf[l] = Platform /\ Steps[j].list
    BY <1>1, <1>2, <2>1, StartSteps DEF Started, Through
  <2> QED
    BY <1>1, <2>1, <2>2, StartAddresses
<1>4. \A k \in 1 .. 5 : k < j => boxOf[Steps[k].box] = Platform /\ (Steps[k].list => Steps[k].box \in list)
  BY <1>1, <1>2, StartSteps DEF Started, Through
<1>5. \A k \in 1 .. 5 : k <= j => boxOf[Steps[k].box] = Platform /\ (Steps[k].list => Steps[k].box \in list')
  BY <1>1, <1>2, <1>3, <1>4
<1>6. Remains' /\ Appointed'
  BY <1>2 DEF Remains, Appointed, Settled
<1>7. CASE j = 5
  <2>1. Return(p) /\ last' = [config |-> r.config, outcome |-> "served", unread |-> FALSE]
    BY <1>1, <1>7, StartSteps DEF EnsureList, End, Ending
  <2>2. StartRecords'
    BY <1>2, <1>3, <2>1 DEF StartRecords, Endings, Outcomes
  <2>3. RefusedForCause'
    BY <1>2, <2>1 DEF RefusedForCause, Ended
  <2>4. \A k \in 1 .. 5 : boxOf[Steps[k].box] = Platform /\ (Steps[k].list => Steps[k].box \in list')
    BY <1>5, <1>7
  <2>5. (\A k \in Own : boxOf[k] = Platform) /\ ListIds \subseteq list'
    BY <2>4, StartAddresses
  <2>6. r.config = "admin" => founder \in owners
    BY <1>2 DEF Started, Administering
  <2>7. StartedWhole'
    BY <1>2, <2>1, <2>2, <2>5, <2>6 DEF StartedWhole, Ended, StartRecords, Appointed, Settled
  <2> QED
    BY <1>2, <1>6, <2>1, <2>2, <2>3, <2>7, StartEnds
<1>8. CASE j # 5
  <2>1. PICK c : /\ c = [r EXCEPT !.at = "service", !.next = r.next + 1] /\ Continue(p, c) /\ last' = last
    BY <1>1, <1>8, StartSteps DEF EnsureList, Following
  <2>2. j + 1 \in DOMAIN Steps
    BY <1>3, <1>8, StartSteps
  <2>3. /\ c \in StartCalls /\ c.at = "service" /\ c.id = r.id /\ c.config = r.config
        /\ c.next = j + 1 /\ c.why = r.why
    BY <1>1, <1>2, <2>1, <2>2 DEF StartCalls, StartPlaces
  <2>4. StartRecords' /\ RefusedForCause'
    BY <1>2, <1>3, <2>1 DEF StartRecords, RefusedForCause, Ended
  <2>5. StartedWhole'
    BY <1>2, <1>3, <2>1 DEF StartedWhole, Ended
  <2>6. Through(c)'
    <3>1. \A k \in 1 .. 5 : k < c.next => k <= j
      BY <1>3, <2>3
    <3>2. \A k \in 1 .. 5 : k < c.next => boxOf[Steps[k].box] = Platform /\ (Steps[k].list => Steps[k].box \in list')
      BY <1>5, <3>1
    <3> QED
      BY <1>2, <1>3, <2>3, <3>2, StartSteps DEF Through
  <2>7. Started(c)'
    BY <1>2, <2>3, <2>6 DEF Started, Administering, Making, UndoPlaces
  <2> QED
    BY <1>2, <1>6, <2>1, <2>3, <2>4, <2>5, <2>7, StartGoes
<1> QED
  BY <1>7, <1>8

\* What is promised outlives it that an account is halted.
LEMMA HaltedMore ==
  ASSUME StartupInv, halted \subseteq halted', halted' \subseteq Ids0,
         UNCHANGED <<name, founder, owners, factored, audited, linked, boxOf, list>>,
         last' \in Endings \cup {last, None}, last' = last \/ (~ Ended("served"))',
         last' = last \/ (Ended("refused") => founder # None /\ last.unread)',
         last' = last \/ (Ended("conflict") => name \in Own \/ boxOf[name] \in halted)'
  PROVE  StartRecords' /\ StartedWhole' /\ RefusedForCause' /\ Remains' /\ (Appointed => Appointed')
<1> USE StartHandlers
<1>1. StartRecords'
  BY DEF StartRecords
<1>2. Remains' /\ (Appointed => Appointed')
  BY DEF Remains, Appointed, Settled
<1>3. CASE last' = last
  BY <1>1, <1>2, <1>3 DEF StartedWhole, RefusedForCause, Ended
<1>4. CASE last' # last
  BY <1>1, <1>2, <1>4 DEF StartedWhole, RefusedForCause
<1> QED
  BY <1>3, <1>4

LEMMA FailStartKept ==
  ASSUME StartupInv, NEW p \in Requests, FailStart(p)
  PROVE  StartupInv'
<1> USE StartHandlers
<1>1. PICK r, c : /\ r = req[p]
                  /\ c = (IF r.at \in {"known", "link"} THEN [r EXCEPT !.at = "service"]
                          ELSE IF r.at \in {"factor", "box", "own", "audit", "unassign", "unbox", "unfactor"}
                          THEN [r EXCEPT !.at = Undone(r.at)]
                          ELSE None)
                  /\ Fault(p, c)
  BY DEF FailStart
<1>2. /\ p \in InFlight /\ r \in StartCalls /\ Started(r)
      /\ halted' = (IF r.at \in UndoPlaces \cup {"link"} THEN halted \cup {r.id} ELSE halted)
      /\ last' = (IF r.at = "role" THEN [config |-> r.config, outcome |-> "refused", unread |-> TRUE]
                  ELSE IF req'[p] = None THEN [config |-> r.config, outcome |-> r.why, unread |-> FALSE] ELSE last)
      /\ UNCHANGED <<name, founder, owners, factored, audited, linked, boxOf, list>>
  BY <1>1 DEF FailStart, Ending, admin
<1>3. /\ r.at \in StartPlaces \cup UndoPlaces /\ r.id \in Ids0 /\ r.config \in {"admin", "none"}
      /\ halted \subseteq halted' /\ halted' \subseteq Ids0
  BY <1>2, StartFields DEF StartRecords
<1>4. req'[p] = c
  BY <1>1, <1>2 DEF Fault, Handling, HandlersIn
<1>5. StartRecords' /\ StartedWhole' /\ RefusedForCause' /\ Remains' /\ (Appointed => Appointed')
  <2>1. CASE last' = last
    BY <1>2, <1>3, <2>1, HaltedMore
  <2>2. CASE last' = [config |-> r.config, outcome |-> "refused", unread |-> TRUE] /\ r.at = "role"
    <3>1. founder # None
      BY <1>2, <1>3, <2>2, StartIds DEF Started, Administering
    <3>2. last' \in Endings /\ last'.outcome = "refused" /\ last'.unread
      BY <1>3, <2>2 DEF Endings, Outcomes
    <3> QED
      BY <1>2, <1>3, <3>1, <3>2, HaltedMore DEF Ended
  <2>3. CASE last' = [config |-> r.config, outcome |-> r.why, unread |-> FALSE]
    <3>1. r.why \in {"conflict", "failed"} /\ (r.why = "conflict" => name \in Own \/ boxOf[name] \in halted)
      BY <1>2, StartFields DEF Started, Through
    <3>2. last' \in Endings /\ last'.outcome = r.why
      BY <1>3, <2>3, <3>1 DEF Endings, Outcomes
    <3> QED
      BY <1>2, <1>3, <3>1, <3>2, HaltedMore DEF Ended
  <2> QED
    BY <1>2, <2>1, <2>2, <2>3
<1>6. CASE r.at \in {"known", "link"}
  <2>1. c = [r EXCEPT !.at = "service"]
    BY <1>1, <1>6
  <2>2. /\ c \in StartCalls /\ c.at = "service" /\ c.id = r.id /\ c.config = r.config
        /\ c.next = r.next /\ c.why = r.why
    BY <1>2, <2>1, StartMoves DEF StartPlaces
  <2>3. r.next = 1 /\ r.why = "failed" /\ r.config = "admin" /\ founder = r.id /\ r.id \in owners /\ last' = last
    <3>1. c # None
      BY <2>2
    <3> QED
      BY <1>2, <1>3, <1>4, <1>6, <3>1, StartFields DEF Started, Administering, Through
  <2>4. Appointed'
    <3>1. CASE r.at = "known"
      BY <1>1, <1>2, <1>5, <3>1 DEF Making, UndoPlaces
    <3>2. CASE r.at = "link"
      BY <1>2, <2>3, <3>2 DEF Appointed, Settled
    <3> QED
      BY <1>6, <3>1, <3>2
  <2>5. Started(c)'
    BY <1>2, <2>2, <2>3, StartSteps DEF Started, Administering, Through, Making, UndoPlaces
  <2> QED
    BY <1>1, <1>2, <1>5, <2>2, <2>4, <2>5, StartGoes
<1>7. CASE r.at \in {"factor", "box", "own", "audit", "unassign", "unbox", "unfactor"}
  <2>1. PICK place : place = Undone(r.at) /\ c = [r EXCEPT !.at = place]
    BY <1>1, <1>7
  <2>2. /\ r.at = "own" => place = "unbox"
        /\ r.at = "audit" => place = "unassign"
        /\ r.at = "unassign" => place = "unbox"
        /\ r.at = "unbox" => place = "unfactor"
        /\ r.at = "box" => place = "unfactor"
        /\ r.at = "unfactor" => place = "unaccount"
        /\ r.at = "factor" => place = "unaccount"
        /\ place \in UndoPlaces
    BY <1>7, <2>1 DEF Undone, UndoPlaces
  <2>3. /\ c \in StartCalls /\ c.at = place /\ c.id = r.id /\ c.config = r.config
        /\ c.next = r.next /\ c.why = r.why
    BY <1>2, <2>1, <2>2, StartMoves
  <2>4. r.at \in Making /\ place \in Making /\ c # None
    BY <1>7, <2>2, <2>3 DEF Making, UndoPlaces
  <2>5. last' = last
    BY <1>2, <1>4, <1>7, <2>4
  <2>6. /\ r.id \in 1 .. MaxRequests /\ founder = r.id /\ Made(r) /\ r.config = "admin" /\ r.next = 1
        /\ ~ Ended("refused") /\ ~ (Ended("served") /\ last.config = "admin")
    BY <1>2, <2>4, MakingFacts
  <2>7. r.at \in UndoPlaces => r.id \in halted'
    BY <1>2
  <2>8. Made(c)'
    BY <1>2, <1>7, <2>2, <2>3, <2>5, <2>6, <2>7 DEF Made, Ended, UndoPlaces
  <2>9. Through(c)'
    <3>1. r.why = "conflict" => place = "unaccount" /\ (name \in Own \/ boxOf[name] \in halted')
      BY <1>2, <1>3, <1>7, <2>2 DEF Started, Through
    <3>2. \A k \in DOMAIN Steps : ~ (k < 1)
      BY StartSteps
    <3> QED
      BY <1>2, <2>2, <2>3, <2>6, <3>1, <3>2 DEF Through, UndoPlaces
  <2>10. Started(c)'
    BY <1>2, <2>2, <2>3, <2>6, <2>8, <2>9 DEF Started, Administering, Making, UndoPlaces
  <2> QED
    BY <1>1, <1>2, <1>5, <2>3, <2>4, <2>10, StartGoes
<1>8. CASE r.at \in {"look", "role", "create", "renew", "service", "list", "unaccount"}
  <2>1. Fault(p, None)
    BY <1>1, <1>8
  <2>2. Appointed'
    <3>1. CASE r.at = "unaccount"
      <4>1. founder = r.id
        BY <1>2, <3>1 DEF Started, Administering, Making, UndoPlaces
      <4> QED
        BY <1>2, <3>1, <4>1 DEF Appointed, Settled, UndoPlaces
    <3>2. CASE r.at # "unaccount"
      <4>1. r.at \notin Making \cup {"link"}
        BY <1>8, <3>2 DEF Making, UndoPlaces
      <4> QED
        BY <1>1, <1>2, <1>5, <4>1
    <3> QED
      BY <3>1, <3>2
  <2> QED
    BY <1>2, <1>5, <2>1, <2>2, StartEnds
<1> QED
  BY <1>3, <1>6, <1>7, <1>8 DEF StartPlaces, UndoPlaces

LEMMA CrashStartKept ==
  ASSUME StartupInv, CrashStart
  PROVE  StartupInv'
<1> USE StartHandlers
<1>1. /\ Crash /\ last' = None /\ halted' = halted \cup {req[p].id : p \in InFlight}
      /\ UNCHANGED <<name, founder, owners, factored, audited, linked, boxOf, list>>
  BY DEF CrashStart, admin
<1>2. Handling("startup", StartCalls)' /\ InFlight' = {}
  BY <1>1, Dies
<1>3. halted \subseteq halted' /\ halted' \subseteq Ids0
  BY <1>1, StartFields DEF StartRecords
<1>4. StartRecords' /\ StartedWhole' /\ RefusedForCause' /\ Remains' /\ (Appointed => Appointed')
  BY <1>1, <1>3, HaltedMore DEF Ended
<1>5. Appointed'
  <2>1. CASE \A p \in InFlight : req[p].at \notin Making \cup {"link"}
    BY <1>4, <2>1 DEF StartupInv
  <2>2. CASE \E p \in InFlight : req[p].at \in Making \cup {"link"}
    <3>1. PICK p \in InFlight : req[p].at \in Making \cup {"link"}
      BY <2>2
    <3>2. founder = req[p].id
      BY <3>1 DEF Started, Administering
    <3>3. founder \in halted'
      BY <1>1, <3>2
    <3> QED
      BY <1>1, <3>3 DEF Appointed, Settled
  <2> QED
    BY <2>1, <2>2
<1> QED
  BY <1>2, <1>4, <1>5 DEF StartupInv, StartupTypeOK, StartRecords, Handling

LEMMA StartupStill ==
  ASSUME StartupInv, UNCHANGED <<handlers, startVars>>
  PROVE  StartupInv'
<1> USE StartHandlers
<1>1. Handling("startup", StartCalls)' /\ InFlight' = InFlight /\ req' = req
  BY Rests
<1>2. UNCHANGED <<name, founder, owners, factored, audited, linked, boxOf, list, last, halted>>
  BY DEF startVars, admin
<1>3. StartRecords' /\ StartedWhole' /\ RefusedForCause' /\ Remains' /\ (Appointed => Appointed')
  BY <1>2 DEF StartRecords, StartedWhole, RefusedForCause, Ended, Remains, Appointed, Settled
<1>4. \A p \in InFlight : Started(req[p])'
  BY <1>1, <1>2 DEF Started, Administering, Made, Through, Ended
<1> QED
  BY <1>1, <1>3, <1>4 DEF StartupInv, StartupTypeOK, StartRecords, Handling

LEMMA StartupKept ==
  ASSUME StartupInv, [StartupNext]_<<handlers, startVars>>
  PROVE  StartupInv'
<1>1. CASE StartMisconfigured
  BY <1>1, StartMisconfiguredKept
<1>2. CASE \E p \in Requests, config \in {"admin", "none"} : StartConfigured(p, config)
  BY <1>2, StartConfiguredKept
<1>3. CASE \E p \in Requests :
             \/ LookForFounder(p) \/ CheckRole(p) \/ CheckFactor(p) \/ CreateFounder(p)
             \/ PutFactor(p) \/ OpenFounderBox(p) \/ AssignOwner(p) \/ AuditFounder(p) \/ SendLink(p)
             \/ TakeBackFounder(p) \/ EnsureServiceBox(p) \/ EnsureList(p) \/ FailStart(p)
  BY <1>3, LookForFounderKept, CheckRoleKept, CheckFactorKept, CreateFounderKept, PutFactorKept, OpenFounderBoxKept, AssignOwnerKept,
     AuditFounderKept, SendLinkKept, TakeBackFounderKept, EnsureServiceBoxKept, EnsureListKept, FailStartKept
<1>4. CASE CrashStart
  BY <1>4, CrashStartKept
<1>5. CASE UNCHANGED <<handlers, startVars>>
  BY <1>5, StartupStill
<1> QED
  BY <1>1, <1>2, <1>3, <1>4, <1>5 DEF StartupNext

\* No step replaces or takes back the administrator of a platform that serves.
LEMMA FounderKept ==
  ASSUME StartupInv, [StartupNext]_<<handlers, startVars>>, Ended("served"), last.config = "admin"
  PROVE  founder' = founder /\ owners \subseteq owners' /\ factored \subseteq factored'
<1> USE StartHandlers
<1>1. ASSUME NEW p \in Requests, CreateFounder(p)
      PROVE  FALSE
  <2>1. p \in InFlight /\ req[p].at = "create"
    BY <1>1 DEF CreateFounder, At
  <2>2. founder = None
    BY <2>1 DEF Started, Administering
  <2> QED
    BY <2>2, StartIds DEF StartedWhole, StartRecords
<1>2. ASSUME NEW p \in Requests, TakeBackFounder(p)
      PROVE  FALSE
  <2>1. p \in InFlight /\ req[p].at \in Making
    BY <1>2 DEF TakeBackFounder, Making
  <2> QED
    BY <2>1 DEF Started, Made
<1>3. \A p \in Requests : ~ CreateFounder(p) /\ ~ TakeBackFounder(p)
  BY <1>1, <1>2
<1>4. ASSUME NEW p \in Requests, LookForFounder(p) \/ CheckRole(p) \/ CheckFactor(p) \/ FailStart(p)
      PROVE  UNCHANGED admin
  BY <1>4 DEF LookForFounder, CheckRole, CheckFactor, FailStart, startVars
<1>5. ASSUME NEW p \in Requests,
             \/ PutFactor(p) \/ OpenFounderBox(p) \/ AssignOwner(p) \/ AuditFounder(p) \/ SendLink(p)
             \/ EnsureServiceBox(p) \/ EnsureList(p)
      PROVE  founder' = founder /\ owners \subseteq owners' /\ factored \subseteq factored'
  BY <1>5 DEF PutFactor, OpenFounderBox, AssignOwner, AuditFounder, SendLink, EnsureServiceBox, EnsureList, admin
<1>6. StartMisconfigured \/ CrashStart \/ UNCHANGED startVars => UNCHANGED admin
  BY DEF StartMisconfigured, CrashStart, startVars
<1>7. ASSUME NEW p \in Requests, NEW config, StartConfigured(p, config)
      PROVE  UNCHANGED admin
  BY <1>7 DEF StartConfigured, startVars
<1>8. UNCHANGED admin => founder' = founder /\ owners' = owners /\ factored' = factored
  BY DEF admin
<1> QED
  BY <1>3, <1>4, <1>5, <1>6, <1>7, <1>8 DEF StartupNext

LEMMA StartupAgrees == StartupInv => StartedWhole /\ NothingLeft /\ RefusedForCause
<1> SUFFICES ASSUME StartupInv, founder = None
             PROVE  (owners \cup factored \cup {boxOf[name]}) \cap (1 .. MaxRequests) \subseteq halted
  BY DEF StartupInv, NothingLeft
<1> QED
  BY StartHandlers, StartIds DEF Remains

\* A start ends with a whole platform, or leaves no trace and says why, whatever fails in it
\* and wherever it is cut short.
THEOREM StartsKeepTheirPromise == StartupSpec => StartupPromise
<1>1. StartupInv => StartedWhole /\ NothingLeft /\ RefusedForCause
  BY StartupAgrees
<1>2. StartupInv /\ [StartupNext]_<<handlers, startVars>> =>
        [Ended("served") /\ last.config = "admin" =>
           founder' = founder /\ owners \subseteq owners' /\ factored \subseteq factored']_<<handlers, startVars>>
  BY FounderKept
<1> QED
  BY StartupStart, StartupKept, <1>1, <1>2, PTL DEF StartupSpec, StartupPromise, FounderStays

-----------------------------------------------------------------------------
(* Accounts.                                                               *)

AccountsSpec ==
  HandlersInit /\ service = "accounts" /\ AccountsInit /\ [][AccountsNext]_<<handlers, accountVars>>

\* The steps of a handler: before and after Register stores the account, between an address
\* change's transaction and the mailbox's, and until the alias of the name that is given up.
Enrolling(r) == r.at \in {"enrolled", "create"}
Settling(r)  == r.at \in {"box", "takeBack"}
Moving(r)    == r.at \in {"move", "undo", "restore"}
Leaving(r)   == Moving(r) \/ r.at = "alias"

\* What a handler was given and has read.
EditRead(r) ==
  /\ r.op = "register" <=> Enrolling(r) \/ Settling(r)
  /\ r.at = "mailbox" \/ Leaving(r) => r.op = "address"
  /\ r.op \in {"register", "address"} => r.name \in Names
  /\ r.op = "status" => r.status \in Statuses
  /\ r.at \in {"mailbox", "prior", "commit"} \/ Leaving(r) =>
       r.copy \in Objects /\ (r.op = "address" => r.copy.name # r.name)
  /\ r.at \in {"commit", "restore"} => r.prior \in Names
  /\ r.op = "address" /\ r.at \notin {"load", "mailbox"} => r.from \in Names

\* A registration has its account for itself until it has stored it, and nobody moves the
\* account before its mailbox is there.
Registering(p) ==
  LET r == req[p] a == r.account IN
  /\ box[a] = None
  /\ Enrolling(r) => object[a] = None
  /\ Settling(r) /\ a \notin disturbed => object[a] # None /\ object[a].name = r.name
  /\ \A q \in InFlight \ {p} : req[q].account = a =>
       /\ ~ Enrolling(r) /\ req[q].op # "register"
       /\ req[q].op = "address" => req[q].at \in {"load", "mailbox"}

Read == \A p \in InFlight : EditRead(req[p]) /\ (req[p].op = "register" => Registering(p))

\* Accounts that no operation disturbed or left half done.
Whole == Accounts \ (disturbed \cup halved)

\* An account that is not there is nobody's matter but its registration's.
Absent(a) ==
  object[a] = None =>
    /\ \A n \in Names : holder[n] # a /\ alias[n] # a
    /\ \A p \in InFlight : req[p].account = a => Enrolling(req[p])

\* A mailbox is found by its address.
Filed(a) == box[a] # None => boxAt[box[a]] = a

\* An account's name and its mailbox's address differ while an operation is at it.
InPlace(a) ==
  object[a] # None =>
    \/ box[a] = object[a].name
    \/ \E p \in InFlight : req[p].account = a /\ (Settling(req[p]) \/ Moving(req[p]))

\* Name n leads to account a, or is about to.
Linked(a, n) ==
  \/ index[n] = a \/ alias[n] = a
  \/ \E p \in InFlight : req[p].account = a /\ Leaving(req[p]) /\ req[p].copy.name = n

Links(a) == \A n \in Names : (index[n] = a => holder[n] = a) /\ (holder[n] = a => Linked(a, n))

AccountsInv ==
  /\ service = "accounts" /\ AccountsTypeOK
  /\ Read /\ IndexExact
  /\ \A a \in Accounts \ halved : Absent(a)
  /\ \A a \in Accounts \ disturbed : Filed(a)
  /\ \A a \in Whole : InPlace(a) /\ Links(a)

\* What AccountsTypeOK says of the stored records.
AccountRecords ==
  /\ object \in [Accounts -> Maybe(Objects)]
  /\ index \in [Names -> Maybe(Accounts)] /\ alias \in [Names -> Maybe(Accounts)]
  /\ box \in [Accounts -> Maybe(Names)] /\ boxAt \in [Names -> Maybe(Accounts)]
  /\ holder \in [Names -> Maybe(Accounts)]
  /\ disturbed \subseteq Accounts /\ halved \subseteq Accounts

LEMMA AccountHandlers ==
  ASSUME AccountsInv
  PROVE  /\ Handling("accounts", AccountCalls) /\ None \notin AccountCalls /\ None \notin Accounts
         /\ None \notin Names /\ None \notin Objects /\ AccountRecords
         /\ \A p \in InFlight : /\ p \in Requests /\ req[p] \in AccountCalls /\ EditRead(req[p])
                                /\ req[p].op = "register" => Registering(p)
         /\ \A a \in Accounts : object[a] = None \/ object[a] \in Objects
<1>1. Handling("accounts", AccountCalls) /\ AccountRecords
  BY DEF AccountsInv, AccountsTypeOK, AccountRecords, Handling
<1>2. \A a \in Accounts : object[a] = None \/ object[a] \in Objects
  BY <1>1 DEF AccountRecords, Maybe
<1> QED
  BY <1>1, <1>2, HandledCalls, AccountsAssumption DEF AccountsInv, Read

LEMMA AccountFields ==
  ASSUME NEW r \in AccountCalls
  PROVE  /\ r.op \in Operations /\ r.at \in AccountPlaces /\ r.account \in Accounts
         /\ r.name \in Maybe(Names) /\ r.id \in 1 .. MaxRequests
BY DEF AccountCalls

\* A handler goes to its next call.
LEMMA AccountMoves ==
  ASSUME NEW r \in AccountCalls, NEW place \in AccountPlaces, NEW c, c = [r EXCEPT !.at = place]
  PROVE  /\ c \in AccountCalls /\ c.at = place /\ c.op = r.op /\ c.account = r.account /\ c.name = r.name
         /\ c.status = r.status /\ c.id = r.id /\ c.copy = r.copy /\ c.prior = r.prior /\ c.from = r.from
BY DEF AccountCalls

\* At first every account has its name and its mailbox, and nothing else is stored.
LEMMA AccountsFirst ==
  AccountsInit =>
    /\ AccountRecords /\ IndexExact
    /\ boxAt = index /\ holder = index /\ disturbed = {} /\ halved = {}
    /\ \A n \in Names : alias[n] = None
    /\ \A a \in Accounts : IF object[a] = None THEN box[a] = None ELSE box[a] = object[a].name /\ box[a] \in Names
<1> SUFFICES ASSUME AccountsInit
             PROVE  /\ AccountRecords /\ IndexExact
                    /\ boxAt = index /\ holder = index /\ disturbed = {} /\ halved = {}
                    /\ \A n \in Names : alias[n] = None
                    /\ \A a \in Accounts : IF object[a] = None THEN box[a] = None
                                           ELSE box[a] = object[a].name /\ box[a] \in Names
  OBVIOUS
<1>1. PICK named \in [Residents -> Names] :
       /\ \A a, b \in Residents : named[a] = named[b] => a = b
       /\ object = [a \in Accounts |->
            IF a \in Residents THEN [name |-> named[a], status |-> "active", profile |-> 0] ELSE None]
       /\ box = [a \in Accounts |-> IF a \in Residents THEN named[a] ELSE None]
       /\ index = [n \in Names |->
            IF \E a \in Residents : named[a] = n THEN CHOOSE a \in Residents : named[a] = n ELSE None]
  BY DEF AccountsInit
<1>2. /\ boxAt = index /\ holder = index /\ alias = [n \in Names |-> None]
      /\ disturbed = {} /\ halved = {}
  BY DEF AccountsInit
<1>3. Residents \subseteq Accounts /\ None \notin Accounts /\ None \notin Names /\ None \notin Objects
  BY AccountsAssumption
<1>4. \A n \in Names : \A a \in Accounts : index[n] = a <=> a \in Residents /\ named[a] = n
  BY <1>1, <1>3
<1>5. \A a \in Accounts : /\ a \in Residents => object[a] \in Objects /\ object[a].name = named[a] /\ box[a] = named[a]
                          /\ a \notin Residents => object[a] = None /\ box[a] = None
  BY <1>1, HandlersAssumption DEF Objects, Statuses
<1>6. index \in [Names -> Maybe(Accounts)]
  BY <1>1, <1>3 DEF Maybe
<1>7. AccountRecords
  <2>1. object \in [Accounts -> Maybe(Objects)] /\ box \in [Accounts -> Maybe(Names)]
    BY <1>1, <1>5 DEF Maybe
  <2> QED
    BY <1>2, <1>6, <2>1 DEF AccountRecords, Maybe
<1>8. IndexExact
  BY <1>3, <1>4, <1>5 DEF IndexExact
<1> QED
  BY <1>2, <1>3, <1>5, <1>7, <1>8

LEMMA AccountsStart == HandlersInit /\ service = "accounts" /\ AccountsInit => AccountsInv
<1> SUFFICES ASSUME HandlersInit, service = "accounts", AccountsInit
             PROVE  AccountsInv
  OBVIOUS
<1> USE AccountsFirst
<1>1. Handling("accounts", AccountCalls) /\ InFlight = {} /\ None \notin Accounts
  BY Starts, AccountsAssumption
<1>2. \A a \in Accounts : Absent(a) /\ Filed(a) /\ InPlace(a) /\ Links(a)
  BY <1>1 DEF IndexExact, Absent, Filed, InPlace, Links, Linked
<1> QED
  BY <1>1, <1>2 DEF AccountsInv, AccountsTypeOK, AccountRecords, Handling, Read, Whole

\* Past reading the mailbox, an address change.
Changing(r) == r.op = "address" /\ r.at \notin {"load", "mailbox"}

\* A step of another handler leaves a registration where it is.
LEMMA RegistersStay ==
  ASSUME AccountsInv, NEW p \in InFlight, NEW r, r = req[p], NEW a, a = r.account,
         InFlight' = InFlight \/ InFlight' = InFlight \ {p}, \A q \in Requests \ {p} : req'[q] = req[q],
         p \in InFlight' => /\ req'[p].account = a /\ req'[p].op = r.op
                            /\ Changing(req'[p]) => Changing(r) \/ box[a] # None,
         disturbed \subseteq disturbed',
         \A b \in Accounts \ {a} : box'[b] = box[b] /\ object'[b] = object[b],
         box'[a] = box[a] \/ r.op = "register" \/ Changing(r),
         \/ object'[a] = object[a] \/ r.op = "register" \/ Changing(r) \/ a \in disturbed'
         \/ object[a] # None /\ object'[a] # None /\ object'[a].name = object[a].name
  PROVE  \A q \in InFlight' \ {p} : EditRead(req'[q]) /\ (req'[q].op = "register" => Registering(q)')
<1> USE AccountHandlers
<1> SUFFICES ASSUME NEW q \in InFlight \ {p}
             PROVE  EditRead(req'[q]) /\ (req'[q].op = "register" => Registering(q)')
  OBVIOUS
<1>1. req'[q] = req[q] /\ EditRead(req[q])
  OBVIOUS
<1> SUFFICES ASSUME req[q].op = "register"
             PROVE  Registering(q)'
  BY <1>1
<1>2. PICK s, b : s = req[q] /\ b = s.account /\ b \in Accounts
  BY AccountFields
<1>3. /\ box[b] = None
      /\ Enrolling(s) => object[b] = None
      /\ Settling(s) /\ b \notin disturbed => object[b] # None /\ object[b].name = s.name
      /\ \A o \in InFlight \ {q} : req[o].account = b =>
           ~ Enrolling(s) /\ req[o].op # "register" /\ ~ Changing(req[o])
  BY <1>2 DEF Registering, Changing
<1>4. \A o \in InFlight' \ {q} : o = p \/ (o \in InFlight \ {q} /\ req'[o] = req[o])
  OBVIOUS
<1>5. CASE b = a
  <2>1. ~ Enrolling(s) /\ r.op # "register" /\ ~ Changing(r)
    BY <1>2, <1>3, <1>5
  <2>2. box'[b] = None /\ (Settling(s) /\ b \notin disturbed' => object'[b] # None /\ object'[b].name = s.name)
    BY <1>3, <1>5, <2>1
  <2>3. p \in InFlight' => req'[p].op # "register" /\ ~ Changing(req'[p])
    BY <1>3, <1>5, <2>1
  <2>4. \A o \in InFlight' \ {q} : req'[o].account = b => req'[o].op # "register" /\ ~ Changing(req'[o])
    BY <1>2, <1>3, <1>4, <2>3
  <2> QED
    BY <1>1, <1>2, <2>1, <2>2, <2>4 DEF Registering, Changing
<1>6. CASE b # a
  <2>1. box'[b] = None /\ object'[b] = object[b]
    BY <1>2, <1>3, <1>6
  <2>2. \A o \in InFlight' \ {q} : req'[o].account = b =>
          ~ Enrolling(s) /\ req'[o].op # "register" /\ ~ Changing(req'[o])
    BY <1>2, <1>3, <1>4, <1>6
  <2> QED
    BY <1>1, <1>2, <1>3, <2>1, <2>2 DEF Registering, Changing
<1> QED
  BY <1>5, <1>6

\* A step that stores nothing and goes on.
LEMMA AccountGoes ==
  ASSUME AccountsInv, NEW p \in InFlight, NEW r, r = req[p],
         NEW c \in AccountCalls, Continue(p, c) \/ Fault(p, c),
         UNCHANGED <<stored, holder, disturbed>>, halved \subseteq halved', halved' \subseteq Accounts,
         EditRead(c), c.account = r.account, c.op = r.op, c.name = r.name,
         Enrolling(c) <=> Enrolling(r), Settling(c) <=> Settling(r), Moving(c) <=> Moving(r),
         Leaving(r) => Leaving(c) /\ c.copy = r.copy,
         Changing(c) => Changing(r) \/ box[r.account] # None
  PROVE  AccountsInv'
<1> USE AccountHandlers
<1>1. Handling("accounts", AccountCalls)' /\ InFlight' = InFlight /\ req'[p] = c
      /\ \A q \in Requests \ {p} : req'[q] = req[q]
  BY Goes, Fails
<1>2. UNCHANGED <<object, index, alias, box, boxAt, holder, disturbed>>
  BY DEF stored
<1>3. service' = "accounts" /\ AccountsTypeOK'
  BY <1>1, <1>2 DEF Handling, AccountsTypeOK, AccountRecords
<1>4. \A q \in InFlight' \ {p} : EditRead(req'[q]) /\ (req'[q].op = "register" => Registering(q)')
  BY <1>1, <1>2, RegistersStay
<1>5. c.op = "register" => Registering(p)'
  BY ZenonT(60), <1>1, <1>2 DEF Registering
<1>6. Read'
  BY <1>1, <1>4, <1>5 DEF Read
<1>7. IndexExact'
  BY <1>2 DEF AccountsInv, IndexExact
<1>8. \A b \in Accounts \ halved' : Absent(b)'
  <2>1. ASSUME NEW b \in Accounts \ halved'
        PROVE  Absent(b)'
    <3>1. Absent(b)
      BY <2>1 DEF AccountsInv
    <3> QED
      BY <1>1, <1>2, <3>1 DEF Absent
  <2> QED
    BY <2>1
<1>9. \A b \in Accounts \ disturbed' : Filed(b)'
  BY <1>2 DEF AccountsInv, Filed
<1>10. \A b \in Whole' : InPlace(b)' /\ Links(b)'
  <2>1. ASSUME NEW b \in Whole'
        PROVE  InPlace(b)' /\ Links(b)'
    <3>1. b \in Whole /\ InPlace(b) /\ Links(b)
      BY <1>2, <2>1 DEF AccountsInv, Whole
    <3>2. InPlace(b)'
      <4>1. ASSUME NEW q \in InFlight, req[q].account = b /\ (Settling(req[q]) \/ Moving(req[q]))
            PROVE  req'[q].account = b /\ (Settling(req'[q]) \/ Moving(req'[q]))
        BY <1>1, <4>1
      <4> QED
        BY <1>1, <1>2, <3>1, <4>1 DEF InPlace
    <3>3. ASSUME NEW n \in Names, holder[n] = b
          PROVE  Linked(b, n)'
      <4>1. ASSUME NEW q \in InFlight, req[q].account = b /\ Leaving(req[q]) /\ req[q].copy.name = n
            PROVE  req'[q].account = b /\ Leaving(req'[q]) /\ req'[q].copy.name = n
        BY <1>1, <4>1
      <4> QED
        BY <1>1, <1>2, <3>1, <3>3, <4>1 DEF Links, Linked
    <3> QED
      BY <1>2, <3>1, <3>2, <3>3 DEF Links
  <2> QED
    BY <2>1
<1> QED
  BY <1>3, <1>6, <1>7, <1>8, <1>9, <1>10 DEF AccountsInv

\* A step that stores nothing and ends the request.
LEMMA AccountEnds ==
  ASSUME AccountsInv, NEW p \in InFlight, NEW r, r = req[p], Return(p) \/ Fault(p, None),
         UNCHANGED <<stored, holder, disturbed>>, halved \subseteq halved', halved' \subseteq Accounts,
         r.account \in halved' \/ ~ (Settling(r) \/ Leaving(r)) \/ object[r.account] = None
  PROVE  AccountsInv'
<1> USE AccountHandlers
<1>1. Handling("accounts", AccountCalls)' /\ InFlight' = InFlight \ {p}
      /\ \A q \in Requests \ {p} : req'[q] = req[q]
  BY Ends
<1>2. UNCHANGED <<object, index, alias, box, boxAt, holder, disturbed>>
  BY DEF stored
<1>3. service' = "accounts" /\ AccountsTypeOK'
  BY <1>1, <1>2 DEF Handling, AccountsTypeOK, AccountRecords
<1>4. \A q \in InFlight' \ {p} : EditRead(req'[q]) /\ (req'[q].op = "register" => Registering(q)')
  BY <1>1, <1>2, RegistersStay
<1>6. Read'
  BY <1>1, <1>4 DEF Read
<1>7. IndexExact'
  BY <1>2 DEF AccountsInv, IndexExact
<1>8. \A b \in Accounts \ halved' : Absent(b)'
  <2>1. ASSUME NEW b \in Accounts \ halved'
        PROVE  Absent(b)'
    <3>1. Absent(b)
      BY <2>1 DEF AccountsInv
    <3> QED
      BY <1>1, <1>2, <3>1 DEF Absent
  <2> QED
    BY <2>1
<1>9. \A b \in Accounts \ disturbed' : Filed(b)'
  BY <1>2 DEF AccountsInv, Filed
<1>10. \A b \in Whole' : InPlace(b)' /\ Links(b)'
  <2>1. ASSUME NEW b \in Whole'
        PROVE  InPlace(b)' /\ Links(b)'
    <3>1. b \in Whole /\ InPlace(b) /\ Links(b) /\ Absent(b)
      BY <1>2, <2>1 DEF AccountsInv, Whole
    <3>2. r.account = b => ~ (Settling(r) \/ Leaving(r))
      <4>1. r.account = b /\ object[b] = None => Enrolling(r)
        BY <3>1 DEF Absent
      <4> QED
        BY <2>1, <4>1 DEF Whole, Enrolling, Settling, Leaving, Moving
    <3>3. InPlace(b)'
      BY <1>1, <1>2, <3>1, <3>2 DEF InPlace, Leaving
    <3>4. ASSUME NEW n \in Names, holder[n] = b
          PROVE  Linked(b, n)'
      BY <1>1, <1>2, <3>1, <3>2, <3>4 DEF Links, Linked
    <3> QED
      BY <1>2, <3>1, <3>3, <3>4 DEF Links
  <2> QED
    BY <2>1
<1> QED
  BY <1>3, <1>6, <1>7, <1>8, <1>9, <1>10 DEF AccountsInv

\* A request is taken in.
LEMMA AccountBegins ==
  ASSUME AccountsInv, NEW p \in Requests, NEW c \in AccountCalls, Begin(p, c), UNCHANGED accountVars,
         EditRead(c), c.at \in {"enrolled", "load"},
         c.op = "register" => /\ object[c.account] = None /\ box[c.account] = None
                              /\ \A q \in InFlight : req[q].account # c.account,
         c.op # "register" => object[c.account] # None
  PROVE  AccountsInv'
<1> USE AccountHandlers
<1>1. Handling("accounts", AccountCalls)' /\ p \notin InFlight /\ InFlight' = InFlight \cup {p} /\ req'[p] = c
      /\ \A q \in Requests \ {p} : req'[q] = req[q]
  BY Begins
<1>2. UNCHANGED <<object, index, alias, box, boxAt, holder, disturbed, halved>>
  BY DEF accountVars, stored
<1>3. service' = "accounts" /\ AccountsTypeOK'
  BY <1>1, <1>2 DEF Handling, AccountsTypeOK, AccountRecords
<1>4. ASSUME NEW q \in InFlight, req[q].op = "register"
      PROVE  Registering(q)'
  <2>1. Registering(q) /\ req'[q] = req[q] /\ q # p
    BY <1>1, <1>4
  <2>2. c.account = req[q].account => ~ Enrolling(req[q]) /\ c.op # "register" /\ c.at = "load"
    BY <1>1, <2>1, <1>4 DEF Registering, EditRead, Enrolling, Settling
  <2> QED
    BY <1>1, <1>2, <2>1, <2>2 DEF Registering
<1>5. c.op = "register" => Registering(p)'
  <2>1. c.op = "register" => c.at = "enrolled" /\ \A q \in InFlight : req'[q].account # c.account
    BY <1>1 DEF EditRead, Enrolling, Settling
  <2> QED
    BY <1>1, <1>2, <2>1 DEF Registering, Enrolling, Settling
<1>6. Read'
  BY <1>1, <1>4, <1>5 DEF Read
<1>7. IndexExact'
  BY <1>2 DEF AccountsInv, IndexExact
<1>8. \A b \in Accounts \ halved' : Absent(b)'
  <2>1. ASSUME NEW b \in Accounts \ halved'
        PROVE  Absent(b)'
    <3>1. Absent(b)
      BY <1>2, <2>1 DEF AccountsInv
    <3>2. c.op = "register" => Enrolling(c)
      BY DEF EditRead, Enrolling, Settling
    <3> QED
      BY <1>1, <1>2, <3>1, <3>2 DEF Absent
  <2> QED
    BY <2>1
<1>9. \A b \in Accounts \ disturbed' : Filed(b)'
  BY <1>2 DEF AccountsInv, Filed
<1>10. \A b \in Whole' : InPlace(b)' /\ Links(b)'
  <2>1. ASSUME NEW b \in Whole'
        PROVE  InPlace(b)' /\ Links(b)'
    <3>1. b \in Whole /\ InPlace(b) /\ Links(b)
      BY <1>2, <2>1 DEF AccountsInv, Whole
    <3>2. InPlace(b)'
      BY <1>1, <1>2, <3>1 DEF InPlace
    <3>3. ASSUME NEW n \in Names, holder[n] = b
          PROVE  Linked(b, n)'
      BY <1>1, <1>2, <3>1, <3>3 DEF Links, Linked
    <3> QED
      BY <1>2, <3>1, <3>2, <3>3 DEF Links
  <2> QED
    BY <2>1
<1> QED
  BY <1>3, <1>6, <1>7, <1>8, <1>9, <1>10 DEF AccountsInv

LEMMA BeginsKept ==
  ASSUME AccountsInv, NEW p \in Requests, NEW a \in Accounts, NEW n \in Names, NEW s \in Statuses,
         \/ UpdateProfile(p, a) \/ UpdateAccountStatus(p, a, s)
         \/ ChangeWaveAddress(p, a, n) \/ BeginRegistration(p, a, n)
  PROVE  AccountsInv'
<1> USE AccountHandlers
<1>1. PICK op, at, name1, st, c :
        /\ c = [op |-> op, at |-> at, account |-> a, name |-> name1, status |-> st, id |-> begun + 1,
                copy |-> None, prior |-> None, from |-> None]
        /\ Begin(p, c) /\ UNCHANGED accountVars
        /\ \/ op \in {"profile", "status"} /\ at = "load" /\ name1 = None /\ (op = "status" => st \in Statuses)
              /\ (op = "profile" => st = None) /\ object[a] # None
           \/ op = "address" /\ at = "load" /\ name1 = n /\ st = None /\ object[a] # None
           \/ /\ op = "register" /\ at = "enrolled" /\ name1 = n /\ st = None /\ object[a] = None /\ box[a] = None
              /\ \A q \in InFlight : req[q].account # a
  <2>1. /\ [Request("status", "load", a) EXCEPT !.status = s] =
             [op |-> "status", at |-> "load", account |-> a, name |-> None, status |-> s, id |-> begun + 1,
              copy |-> None, prior |-> None, from |-> None]
        /\ [Request("address", "load", a) EXCEPT !.name = n] =
             [op |-> "address", at |-> "load", account |-> a, name |-> n, status |-> None, id |-> begun + 1,
              copy |-> None, prior |-> None, from |-> None]
        /\ [Request("register", "enrolled", a) EXCEPT !.name = n] =
             [op |-> "register", at |-> "enrolled", account |-> a, name |-> n, status |-> None, id |-> begun + 1,
              copy |-> None, prior |-> None, from |-> None]
    BY DEF Request
  <2>2. CASE UpdateProfile(p, a)
    BY <2>2 DEF UpdateProfile, Request
  <2>3. CASE UpdateAccountStatus(p, a, s)
    BY <2>1, <2>3 DEF UpdateAccountStatus
  <2>4. CASE ChangeWaveAddress(p, a, n)
    BY <2>1, <2>4 DEF ChangeWaveAddress
  <2>5. CASE BeginRegistration(p, a, n)
    BY <2>1, <2>5 DEF BeginRegistration
  <2> QED
    BY <2>2, <2>3, <2>4, <2>5
<1>2. begun + 1 \in 1 .. MaxRequests
  BY <1>1, HandlersAssumption DEF Begin, Handling, HandlersIn
<1>3. c \in AccountCalls
  BY <1>1, <1>2 DEF AccountCalls, AccountPlaces, Operations, Maybe
<1>4. EditRead(c) /\ c.at \in {"enrolled", "load"}
  BY <1>1 DEF EditRead, Enrolling, Settling, Leaving, Moving
<1> QED
  BY <1>1, <1>3, <1>4, AccountBegins

LEMMA RegisterKept ==
  ASSUME AccountsInv, NEW p \in Requests, Register(p)
  PROVE  AccountsInv'
<1> USE AccountHandlers
<1>1. PICK r : r = req[p]
  OBVIOUS
<1>2. p \in InFlight /\ r.at = "enrolled" /\ r \in AccountCalls /\ EditRead(r)
      /\ UNCHANGED <<stored, holder, disturbed>> /\ halved \subseteq halved' /\ halved' \subseteq Accounts
  BY <1>1 DEF Register, At, accountVars, AccountRecords
<1>3. CASE index[r.name] = None
  <2>1. PICK c : c = [r EXCEPT !.at = "create"] /\ Continue(p, c)
    BY <1>1, <1>3 DEF Register, Goto
  <2>2. /\ c \in AccountCalls /\ c.at = "create" /\ c.op = r.op /\ c.account = r.account /\ c.name = r.name
        /\ c.status = r.status /\ c.id = r.id /\ c.copy = r.copy /\ c.prior = r.prior /\ c.from = r.from
    BY <1>2, <2>1, AccountMoves DEF AccountPlaces
  <2>3. EditRead(c)
    BY <1>2, <2>2 DEF EditRead, Enrolling, Settling, Moving, Leaving
  <2>4. /\ ~ Leaving(r) /\ Enrolling(c) /\ Enrolling(r) /\ ~ Settling(c) /\ ~ Settling(r)
        /\ ~ Moving(c) /\ ~ Moving(r) /\ ~ Changing(c)
    BY <1>2, <2>2, <2>3 DEF EditRead, Changing, Enrolling, Settling, Moving, Leaving
  <2> QED
    BY <1>1, <1>2, <2>1, <2>2, <2>3, <2>4, AccountGoes
<1>4. CASE index[r.name] # None
  BY <1>1, <1>2, <1>4, AccountEnds DEF Register, Settling, Moving, Leaving, AccountRecords
<1> QED
  BY <1>3, <1>4

LEMMA LoadKept ==
  ASSUME AccountsInv, NEW p \in Requests, Load(p)
  PROVE  AccountsInv'
<1> USE AccountHandlers
<1>1. PICK r, item : r = req[p] /\ item = object[r.account]
  OBVIOUS
<1>2. p \in InFlight /\ r.at = "load" /\ r \in AccountCalls /\ EditRead(r) /\ r.account \in Accounts
      /\ UNCHANGED <<stored, holder, disturbed>> /\ halved \subseteq halved' /\ halved' \subseteq Accounts
  BY <1>1, AccountFields DEF Load, At, accountVars, AccountRecords
<1>3. CASE /\ item # None /\ (r.op = "address" => item.name # r.name)
           /\ Continue(p, [r EXCEPT !.at = IF r.op = "address" THEN "mailbox" ELSE "prior", !.copy = item])
  <2>1. PICK place, c : /\ place = (IF r.op = "address" THEN "mailbox" ELSE "prior")
                        /\ c = [r EXCEPT !.at = place, !.copy = item] /\ Continue(p, c)
    BY <1>3
  <2>2. item \in Objects /\ item.name \in Names
    BY <1>1, <1>2, <1>3 DEF Objects
  <2>3. place \in {"mailbox", "prior"} /\ place \in AccountPlaces
    BY <2>1 DEF AccountPlaces
  <2>4. /\ c \in AccountCalls /\ c.at = place /\ c.op = r.op
        /\ c.account = r.account /\ c.name = r.name /\ c.status = r.status /\ c.copy = item
    BY ZenonT(60), <1>2, <2>1, <2>2, <2>3 DEF AccountCalls, Maybe
  <2>5. EditRead(c)
    BY <1>2, <1>3, <2>1, <2>2, <2>4 DEF EditRead, Enrolling, Settling, Moving, Leaving
  <2>6. /\ ~ Changing(c) /\ ~ Leaving(r) /\ (Enrolling(c) <=> Enrolling(r))
        /\ (Settling(c) <=> Settling(r)) /\ (Moving(c) <=> Moving(r))
    BY <1>2, <2>1, <2>3, <2>4 DEF Changing, Enrolling, Settling, Moving, Leaving
  <2> QED
    BY <1>1, <1>2, <2>1, <2>4, <2>5, <2>6, AccountGoes
<1>4. CASE Return(p)
  BY <1>1, <1>2, <1>4, AccountEnds DEF Settling, Moving, Leaving, AccountRecords
<1> QED
  BY <1>1, <1>3, <1>4 DEF Load

LEMMA LoadMailboxKept ==
  ASSUME AccountsInv, NEW p \in Requests, LoadMailbox(p)
  PROVE  AccountsInv'
<1> USE AccountHandlers
<1>1. PICK r : r = req[p]
  OBVIOUS
<1>2. p \in InFlight /\ r.at = "mailbox" /\ r \in AccountCalls /\ EditRead(r) /\ r.account \in Accounts
      /\ UNCHANGED <<stored, holder, disturbed>> /\ halved \subseteq halved' /\ halved' \subseteq Accounts
  BY <1>1, AccountFields DEF LoadMailbox, At, accountVars, AccountRecords
<1>3. CASE index[r.name] = None /\ box[r.account] # None
  <2>1. PICK c : c = [r EXCEPT !.at = "prior", !.from = box[r.account]] /\ Continue(p, c)
    BY <1>1, <1>3 DEF LoadMailbox
  <2>2. box[r.account] \in Names
    BY <1>2, <1>3 DEF AccountRecords, Maybe
  <2>3. /\ c \in AccountCalls /\ c.at = "prior" /\ c.op = r.op
        /\ c.account = r.account /\ c.name = r.name /\ c.status = r.status /\ c.copy = r.copy /\ c.from \in Names
    BY <1>2, <2>1, <2>2 DEF AccountCalls, AccountPlaces, Maybe, EditRead
  <2>4. EditRead(c)
    BY <1>2, <2>2, <2>3 DEF EditRead, Enrolling, Settling, Moving, Leaving
  <2>5. /\ ~ Leaving(r) /\ ~ Enrolling(c) /\ ~ Enrolling(r) /\ ~ Settling(c) /\ ~ Settling(r)
        /\ ~ Moving(c) /\ ~ Moving(r)
    BY <1>2, <2>3 DEF Enrolling, Settling, Moving, Leaving
  <2> QED
    BY <1>1, <1>2, <1>3, <2>1, <2>3, <2>4, <2>5, AccountGoes
<1>4. CASE ~ (index[r.name] = None /\ box[r.account] # None)
  BY <1>1, <1>2, <1>4, AccountEnds DEF LoadMailbox, Settling, Moving, Leaving, AccountRecords
<1> QED
  BY <1>3, <1>4

LEMMA ReadPreviousKept ==
  ASSUME AccountsInv, NEW p \in Requests, ReadPrevious(p)
  PROVE  AccountsInv'
<1> USE AccountHandlers
<1>1. PICK r, item : r = req[p] /\ item = object[r.account]
  OBVIOUS
<1>2. p \in InFlight /\ r.at \in {"prior", "undo"} /\ r \in AccountCalls /\ EditRead(r) /\ r.account \in Accounts
      /\ UNCHANGED <<stored, holder, disturbed>> /\ halved \subseteq halved' /\ halved' \subseteq Accounts
  BY <1>1, AccountFields DEF ReadPrevious, At, accountVars, AccountRecords
<1>3. CASE item # None
  <2>1. PICK place, c : /\ place = (IF r.at = "undo" THEN "restore" ELSE "commit")
                        /\ c = [r EXCEPT !.at = place, !.prior = item.name] /\ Continue(p, c)
    BY <1>1, <1>2, <1>3 DEF ReadPrevious, Undoing
  <2>2. item \in Objects /\ item.name \in Names /\ place \in AccountPlaces
    BY <1>1, <1>2, <1>3, <2>1 DEF Objects, AccountPlaces
  <2>3. /\ c \in AccountCalls /\ c.at = place /\ c.op = r.op
        /\ c.account = r.account /\ c.name = r.name /\ c.status = r.status /\ c.copy = r.copy
        /\ c.prior \in Names /\ c.from = r.from
    BY ZenonT(60), <1>2, <2>1, <2>2 DEF AccountCalls, Maybe
  <2>4. EditRead(c)
    BY <1>2, <2>1, <2>2, <2>3 DEF EditRead, Enrolling, Settling, Moving, Leaving
  <2>5. /\ (Leaving(r) => Leaving(c)) /\ ~ Enrolling(c) /\ ~ Enrolling(r) /\ ~ Settling(c) /\ ~ Settling(r)
        /\ (Moving(c) <=> Moving(r)) /\ (Changing(c) => Changing(r))
    BY <1>2, <2>1, <2>3 DEF Changing, Enrolling, Settling, Moving, Leaving
  <2> QED
    BY ZenonT(60), <1>1, <1>2, <2>1, <2>3, <2>4, <2>5, AccountGoes
<1>4. CASE item = None
  <2>1. Return(p)
    BY <1>1, <1>4 DEF ReadPrevious
  <2> QED
    BY <1>1, <1>2, <1>4, <2>1, AccountEnds DEF AccountRecords
<1> QED
  BY <1>3, <1>4

LEMMA FailAccountCallKept ==
  ASSUME AccountsInv, NEW p \in Requests, FailAccountCall(p)
  PROVE  AccountsInv'
<1> USE AccountHandlers
<1>1. PICK r : r = req[p]
  OBVIOUS
<1>2. p \in InFlight /\ r \in AccountCalls /\ EditRead(r) /\ r.account \in Accounts
      /\ UNCHANGED <<stored, holder, disturbed>>
      /\ halved' = (IF r.at \in {"takeBack", "undo", "restore", "alias"} THEN halved \cup {r.account} ELSE halved)
  BY <1>1, AccountFields DEF FailAccountCall
<1>3. halved \subseteq halved' /\ halved' \subseteq Accounts
  BY <1>2 DEF AccountRecords
<1>4. CASE r.at \in {"box", "move"}
  <2>1. PICK c, place : /\ place = (IF r.at = "box" THEN "takeBack" ELSE "undo")
                        /\ c = [r EXCEPT !.at = place] /\ Fault(p, c)
    BY <1>1, <1>4 DEF FailAccountCall
  <2>2. /\ c \in AccountCalls /\ c.at = place /\ c.op = r.op /\ c.account = r.account /\ c.name = r.name
        /\ c.status = r.status /\ c.id = r.id /\ c.copy = r.copy /\ c.prior = r.prior /\ c.from = r.from
    BY <1>2, <2>1, AccountMoves DEF AccountPlaces
  <2>3. EditRead(c)
    BY <1>2, <1>4, <2>1, <2>2 DEF EditRead, Enrolling, Settling, Moving, Leaving
  <2>4. /\ (Leaving(r) => Leaving(c)) /\ ~ Enrolling(c) /\ ~ Enrolling(r) /\ (Settling(c) <=> Settling(r))
        /\ (Moving(c) <=> Moving(r)) /\ (Changing(c) => Changing(r))
    BY <1>2, <1>4, <2>1, <2>2 DEF Changing, Enrolling, Settling, Moving, Leaving
  <2> QED
    BY <1>1, <1>2, <1>3, <2>1, <2>2, <2>3, <2>4, AccountGoes
<1>5. CASE r.at \notin {"box", "move"}
  <2>1. Fault(p, None)
    BY <1>1, <1>5 DEF FailAccountCall
  <2> QED
    BY <1>1, <1>2, <1>3, <1>5, <2>1, AccountEnds DEF Settling, Moving, Leaving
<1> QED
  BY <1>4, <1>5

LEMMA CrashAccountsKept ==
  ASSUME AccountsInv, CrashAccounts
  PROVE  AccountsInv'
<1> USE AccountHandlers
<1>1. Handling("accounts", AccountCalls)' /\ InFlight' = {}
  BY Dies DEF CrashAccounts
<1>2. /\ UNCHANGED <<object, index, alias, box, boxAt, holder, disturbed>>
      /\ halved' = halved \cup {req[p].account : p \in InFlight}
  BY DEF CrashAccounts, stored
<1>3. \A p \in InFlight : req[p].account \in Accounts
  BY AccountFields
<1>4. service' = "accounts" /\ AccountsTypeOK'
  BY <1>1, <1>2, <1>3 DEF Handling, AccountsTypeOK, AccountRecords
<1>5. Read' /\ IndexExact'
  BY <1>1, <1>2 DEF AccountsInv, IndexExact, Read
<1>6. \A b \in Accounts \ halved' : Absent(b)'
  BY <1>1, <1>2 DEF AccountsInv, Absent
<1>7. \A b \in Accounts \ disturbed' : Filed(b)'
  BY <1>2 DEF AccountsInv, Filed
<1>8. \A b \in Whole' : InPlace(b)' /\ Links(b)'
  <2>1. ASSUME NEW b \in Whole'
        PROVE  InPlace(b)' /\ Links(b)'
    <3>1. b \in Whole /\ InPlace(b) /\ Links(b) /\ \A p \in InFlight : req[p].account # b
      BY <1>2, <2>1 DEF AccountsInv, Whole
    <3> QED
      BY <1>1, <1>2, <3>1 DEF InPlace, Links, Linked
  <2> QED
    BY <2>1
<1> QED
  BY <1>4, <1>5, <1>6, <1>7, <1>8 DEF AccountsInv

LEMMA CreateAccountKept ==
  ASSUME AccountsInv, NEW p \in Requests, CreateAccount(p)
  PROVE  AccountsInv'
<1> USE AccountHandlers
<1>1. PICK r, a, n : r = req[p] /\ a = r.account /\ n = r.name
  OBVIOUS
<1>2. p \in InFlight /\ r.at = "create" /\ r \in AccountCalls /\ EditRead(r) /\ r.op = "register"
      /\ a \in Accounts /\ n \in Names
      /\ UNCHANGED <<alias, box, boxAt, disturbed, halved>>
  BY <1>1, AccountFields DEF CreateAccount, At, EditRead, Enrolling
<1>3. CASE ~ (index[n] = None /\ alias[n] = None)
  <2>1. Return(p) /\ UNCHANGED <<object, index, holder>>
    BY <1>1, <1>3 DEF CreateAccount
  <2> QED
    BY <1>1, <1>2, <2>1, AccountEnds DEF Settling, Moving, Leaving, AccountRecords, stored
<1>4. CASE index[n] = None /\ alias[n] = None
  <2>1. PICK c, x : /\ c = [r EXCEPT !.at = "box"] /\ Continue(p, c)
                    /\ x = [name |-> n, status |-> "active", profile |-> 0]
                    /\ object' = [object EXCEPT ![a] = x] /\ index' = [index EXCEPT ![n] = a]
                    /\ holder' = [holder EXCEPT ![n] = a]
    BY <1>1, <1>4 DEF CreateAccount, Goto
  <2>2. /\ c \in AccountCalls /\ c.at = "box" /\ c.op = r.op /\ c.account = r.account /\ c.name = r.name
        /\ c.status = r.status /\ c.id = r.id /\ c.copy = r.copy /\ c.prior = r.prior /\ c.from = r.from
    BY <1>2, <2>1, AccountMoves DEF AccountPlaces
  <2>3. Handling("accounts", AccountCalls)' /\ InFlight' = InFlight /\ req'[p] = c
        /\ \A q \in Requests \ {p} : req'[q] = req[q]
    BY <1>2, <2>1, <2>2, Goes
  <2>4. x \in Objects /\ x.name = n /\ x # None
    BY <1>2, <2>1, HandlersAssumption DEF Objects, Statuses
  <2>5. /\ \A b \in Accounts : object'[b] = IF b = a THEN x ELSE object[b]
        /\ \A m \in Names : index'[m] = IF m = n THEN a ELSE index[m]
        /\ \A m \in Names : holder'[m] = IF m = n THEN a ELSE holder[m]
    BY <1>2, <2>1 DEF AccountRecords
  <2>6. AccountRecords'
    BY <1>2, <2>1, <2>4 DEF AccountRecords, Maybe
  <2>7. box[a] = None /\ object[a] = None /\ \A q \in InFlight \ {p} : req[q].account # a
    BY <1>1, <1>2 DEF Registering, Enrolling
  <2>8. Read'
    <3>1. \A q \in InFlight' \ {p} : EditRead(req'[q]) /\ (req'[q].op = "register" => Registering(q)')
      <4>1. ~ Changing(c) /\ disturbed \subseteq disturbed' /\ box' = box
        BY <1>2, <2>2 DEF Changing
      <4> QED
        BY <1>1, <1>2, <2>2, <2>3, <2>5, <4>1, RegistersStay
    <3>2. EditRead(c)
      BY <1>2, <2>2 DEF EditRead, Enrolling, Settling, Moving, Leaving
    <3>3. Registering(p)'
      <4>1. ~ Enrolling(c) /\ \A q \in InFlight \ {p} : req'[q].account # a
        BY <2>2, <2>3, <2>7 DEF Enrolling
      <4> QED
        BY <1>1, <1>2, <2>2, <2>3, <2>4, <2>5, <2>7, <4>1 DEF Registering
    <3> QED
      BY <2>3, <3>1, <3>2, <3>3 DEF Read
  <2>9. IndexExact'
    <3>1. ASSUME NEW b \in Accounts \ disturbed', NEW m \in Names
          PROVE  (index'[m] = b) <=> (object'[b] # None /\ object'[b].name = m)
      <4>1. (index[m] = b) <=> (object[b] # None /\ object[b].name = m)
        BY <1>2, <3>1 DEF AccountsInv, IndexExact
      <4> QED
        BY <1>4, <2>4, <2>5, <2>7, <3>1, <4>1
    <3> QED
      BY <3>1 DEF IndexExact
  <2>10. \A b \in Accounts \ halved' : Absent(b)'
    <3>1. ASSUME NEW b \in Accounts \ halved', b # a
          PROVE  Absent(b)'
      <4>1. Absent(b)
        BY <1>2, <3>1 DEF AccountsInv
      <4> QED
        BY <1>1, <1>2, <2>2, <2>3, <2>5, <3>1, <4>1 DEF Absent
    <3>2. Absent(a)'
      BY <1>2, <2>4, <2>5 DEF Absent
    <3> QED
      BY <3>1, <3>2
  <2>11. \A b \in Accounts \ disturbed' : Filed(b)'
    BY <1>2 DEF AccountsInv, Filed
  <2>12. \A b \in Whole' : InPlace(b)' /\ Links(b)'
    <3>1. ASSUME NEW b \in Whole', b # a
          PROVE  InPlace(b)' /\ Links(b)'
      <4>1. b \in Accounts /\ InPlace(b) /\ Links(b)
        BY <1>2, <3>1 DEF AccountsInv, Whole
      <4>2. \A q \in InFlight : req[q].account = b => req'[q] = req[q]
        BY <1>1, <2>3, <3>1
      <4>3. InPlace(b)'
        BY <1>2, <2>3, <2>5, <3>1, <4>1, <4>2 DEF InPlace
      <4> QED
        BY <1>2, <1>4, <2>3, <2>5, <3>1, <4>1, <4>2, <4>3 DEF Links, Linked
    <3>2. ASSUME a \in Whole'
          PROVE  InPlace(a)' /\ Links(a)'
      <4>1. InPlace(a)'
        BY <1>1, <1>2, <2>2, <2>3 DEF InPlace, Settling
      <4>2. a \in Accounts \ halved /\ Absent(a)
        BY <1>2, <3>2 DEF AccountsInv, Whole
      <4>3. \A m \in Names : (index'[m] = a => m = n) /\ (holder'[m] = a => m = n)
        BY <2>4, <2>5, <2>7, <2>9, <3>2, <4>2 DEF IndexExact, Absent, Whole
      <4> QED
        BY <2>5, <4>1, <4>3 DEF Links, Linked
    <3> QED
      BY <3>1, <3>2
  <2> QED
    BY <2>3, <2>6, <2>8, <2>9, <2>10, <2>11, <2>12 DEF AccountsInv, AccountsTypeOK, AccountRecords, Handling
<1> QED
  BY <1>3, <1>4

LEMMA UpsertMailboxKept ==
  ASSUME AccountsInv, NEW p \in Requests, UpsertMailbox(p)
  PROVE  AccountsInv'
<1> USE AccountHandlers
<1>1. PICK r, a, n : r = req[p] /\ a = r.account /\ n = r.name
  OBVIOUS
<1>2. p \in InFlight /\ r.at = "box" /\ r \in AccountCalls /\ EditRead(r) /\ r.op = "register"
      /\ a \in Accounts /\ n \in Names
      /\ UNCHANGED <<object, index, alias, holder, disturbed, halved>>
  BY <1>1, AccountFields DEF UpsertMailbox, At, EditRead, Settling
<1>3. CASE ~ Open(boxAt[n], a)
  <2>1. PICK c : c = [r EXCEPT !.at = "takeBack"] /\ Continue(p, c) /\ UNCHANGED <<box, boxAt>>
    BY <1>1, <1>3 DEF UpsertMailbox, Goto
  <2>2. /\ c \in AccountCalls /\ c.at = "takeBack" /\ c.op = r.op /\ c.account = r.account /\ c.name = r.name
        /\ c.status = r.status /\ c.id = r.id /\ c.copy = r.copy /\ c.prior = r.prior /\ c.from = r.from
    BY <1>2, <2>1, AccountMoves DEF AccountPlaces
  <2>3. EditRead(c)
    BY <1>2, <2>2 DEF EditRead, Enrolling, Settling, Moving, Leaving
  <2>4. /\ ~ Leaving(r) /\ ~ Enrolling(c) /\ ~ Enrolling(r) /\ Settling(c) /\ Settling(r)
        /\ ~ Moving(c) /\ ~ Moving(r) /\ ~ Changing(c)
    BY <1>2, <2>2 DEF Changing, Enrolling, Settling, Moving, Leaving
  <2> QED
    BY <1>1, <1>2, <2>1, <2>2, <2>3, <2>4, AccountGoes DEF AccountRecords, stored
<1>4. CASE Open(boxAt[n], a)
  <2>1. Return(p) /\ box' = [box EXCEPT ![a] = n] /\ boxAt' = [boxAt EXCEPT ![n] = a]
    BY <1>1, <1>4 DEF UpsertMailbox
  <2>2. Handling("accounts", AccountCalls)' /\ InFlight' = InFlight \ {p}
        /\ \A q \in Requests \ {p} : req'[q] = req[q]
    BY <1>2, <2>1, Ends
  <2>3. AccountRecords'
    BY <1>2, <2>1 DEF AccountRecords, Maybe
  <2>4. /\ \A b \in Accounts : box'[b] = IF b = a THEN n ELSE box[b]
        /\ \A m \in Names : boxAt'[m] = IF m = n THEN a ELSE boxAt[m]
    BY <1>2, <2>1 DEF AccountRecords
  <2>5. Read'
    BY <1>1, <1>2, <2>2, <2>4, RegistersStay DEF Read
  <2>6. a \notin disturbed => object[a] # None /\ object[a].name = n
    BY <1>1, <1>2 DEF Registering, Settling
  <2>7. IndexExact'
    BY <1>2 DEF AccountsInv, IndexExact
  <2>8. \A b \in Accounts \ halved' : Absent(b)'
    BY <1>2, <2>2 DEF AccountsInv, Absent
  <2>9. ASSUME NEW b \in Accounts \ disturbed'
        PROVE  Filed(b)'
    <3>1. Filed(b) /\ (box[b] = None \/ box[b] \in Names)
      BY <1>2, <2>9 DEF AccountsInv, AccountRecords, Maybe
    <3> QED
      BY <1>2, <1>4, <2>4, <2>9, <3>1 DEF Filed, Open
  <2>10. ASSUME NEW b \in Whole'
         PROVE  InPlace(b)' /\ Links(b)'
    <3>1. b \in Accounts \ disturbed /\ InPlace(b) /\ Links(b)
      BY <1>2, <2>10 DEF AccountsInv, Whole
    <3>2. InPlace(b)'
      BY <1>1, <1>2, <2>2, <2>4, <2>6, <3>1 DEF InPlace
    <3>3. ~ Leaving(r)
      BY <1>2 DEF Leaving, Moving
    <3> QED
      BY <1>1, <1>2, <2>2, <3>1, <3>2, <3>3 DEF Links, Linked
  <2> QED
    BY <2>2, <2>3, <2>5, <2>7, <2>8, <2>9, <2>10 DEF AccountsInv, AccountsTypeOK, AccountRecords, Handling
<1> QED
  BY <1>3, <1>4

LEMMA TakeBackKept ==
  ASSUME AccountsInv, NEW p \in Requests, TakeBack(p)
  PROVE  AccountsInv'
<1> USE AccountHandlers
<1>1. PICK r, a, n : r = req[p] /\ a = r.account /\ n = r.name
  OBVIOUS
<1>2. p \in InFlight /\ r.at = "takeBack" /\ r \in AccountCalls /\ EditRead(r) /\ r.op = "register"
      /\ a \in Accounts /\ n \in Names /\ Return(p)
      /\ UNCHANGED <<alias, box, boxAt, holder>> /\ halved' = halved \cup {a}
  BY <1>1, AccountFields DEF TakeBack, At, EditRead, Settling
<1>3. /\ object' = [object EXCEPT ![a] = None] /\ index' = [index EXCEPT ![n] = None]
      /\ disturbed' = IF index[n] = a THEN disturbed ELSE disturbed \cup ({index[n], a} \ {None})
  BY <1>1 DEF TakeBack
<1>4. Handling("accounts", AccountCalls)' /\ InFlight' = InFlight \ {p}
      /\ \A q \in Requests \ {p} : req'[q] = req[q]
  BY <1>2, Ends
<1>5. AccountRecords'
  BY <1>2, <1>3 DEF AccountRecords, Maybe
<1>6. /\ \A b \in Accounts : object'[b] = IF b = a THEN None ELSE object[b]
      /\ \A m \in Names : index'[m] = IF m = n THEN None ELSE index[m]
      /\ disturbed \subseteq disturbed' /\ index[n] \in disturbed' \cup {None, a}
      /\ a \notin disturbed' => index[n] = a
  BY <1>2, <1>3 DEF AccountRecords
<1>7. Read'
  BY <1>1, <1>2, <1>4, <1>6, RegistersStay DEF Read
<1>8. IndexExact'
  <2>1. ASSUME NEW b \in Accounts \ disturbed', NEW m \in Names
        PROVE  (index'[m] = b) <=> (object'[b] # None /\ object'[b].name = m)
    <3>1. /\ (index[m] = b) <=> (object[b] # None /\ object[b].name = m)
          /\ (index[n] = b) <=> (object[b] # None /\ object[b].name = n)
      BY <1>2, <1>6, <2>1 DEF AccountsInv, IndexExact
    <3> QED
      BY <1>2, <1>6, <2>1, <3>1
  <2> QED
    BY <2>1 DEF IndexExact
<1>9. \A b \in Accounts \ halved' : Absent(b)'
  BY <1>2, <1>4, <1>6 DEF AccountsInv, Absent
<1>10. \A b \in Accounts \ disturbed' : Filed(b)'
  BY <1>2, <1>6 DEF AccountsInv, Filed
<1>11. ASSUME NEW b \in Whole'
       PROVE  InPlace(b)' /\ Links(b)'
  <2>1. b \in Accounts /\ b # a /\ b # None /\ b \notin disturbed' /\ InPlace(b) /\ Links(b)
    BY <1>2, <1>6, <1>11 DEF AccountsInv, Whole
  <2>2. InPlace(b)'
    BY <1>1, <1>2, <1>4, <1>6, <2>1 DEF InPlace
  <2> QED
    BY <1>1, <1>2, <1>4, <1>6, <2>1, <2>2 DEF Links, Linked
<1> QED
  BY <1>4, <1>5, <1>7, <1>8, <1>9, <1>10, <1>11 DEF AccountsInv, AccountsTypeOK, AccountRecords, Handling

LEMMA UpdateAddressKept ==
  ASSUME AccountsInv, NEW p \in Requests, UpdateAddress(p)
  PROVE  AccountsInv'
<1> USE AccountHandlers
<1>1. PICK r, a, n, f : r = req[p] /\ a = r.account /\ n = r.name /\ f = r.from
  OBVIOUS
<1>2. p \in InFlight /\ r.at = "move" /\ r \in AccountCalls /\ EditRead(r) /\ r.op = "address" /\ Changing(r)
      /\ a \in Accounts /\ n \in Names /\ f \in Names /\ r.copy \in Objects
      /\ UNCHANGED <<object, index, alias, holder, halved>>
  BY <1>1, AccountFields DEF UpdateAddress, At, EditRead, Leaving, Moving, Changing
<1>3. CASE ~ Open(boxAt[n], a)
  <2>1. PICK c : c = [r EXCEPT !.at = "undo"] /\ Continue(p, c) /\ UNCHANGED <<box, boxAt, disturbed>>
    BY <1>1, <1>3 DEF UpdateAddress, Goto
  <2>2. /\ c \in AccountCalls /\ c.at = "undo" /\ c.op = r.op /\ c.account = r.account /\ c.name = r.name
        /\ c.status = r.status /\ c.id = r.id /\ c.copy = r.copy /\ c.prior = r.prior /\ c.from = r.from
    BY <1>2, <2>1, AccountMoves DEF AccountPlaces
  <2>3. EditRead(c)
    BY <1>2, <2>2 DEF EditRead, Enrolling, Settling, Moving, Leaving
  <2>4. /\ Leaving(c) /\ ~ Enrolling(c) /\ ~ Enrolling(r) /\ ~ Settling(c) /\ ~ Settling(r)
        /\ Moving(c) /\ Moving(r)
    BY <1>2, <2>2 DEF Enrolling, Settling, Moving, Leaving
  <2> QED
    BY <1>1, <1>2, <2>1, <2>2, <2>3, <2>4, AccountGoes DEF AccountRecords, stored
<1>4. CASE Open(boxAt[n], a)
  <2>1. PICK c : /\ c = [r EXCEPT !.at = "alias"] /\ Continue(p, c)
                 /\ box' = [box EXCEPT ![a] = n] /\ boxAt' = [boxAt EXCEPT ![f] = None, ![n] = a]
                 /\ disturbed' = disturbed \cup ({boxAt[f]} \ {None, a})
                                 \cup (IF box[a] = f /\ object[a] = Edited(r) THEN {} ELSE {a})
    BY <1>1, <1>4 DEF UpdateAddress, Goto
  <2>2. /\ c \in AccountCalls /\ c.at = "alias" /\ c.op = r.op /\ c.account = r.account /\ c.name = r.name
        /\ c.status = r.status /\ c.id = r.id /\ c.copy = r.copy /\ c.prior = r.prior /\ c.from = r.from
    BY <1>2, <2>1, AccountMoves DEF AccountPlaces
  <2>3. Handling("accounts", AccountCalls)' /\ InFlight' = InFlight /\ req'[p] = c
        /\ \A q \in Requests \ {p} : req'[q] = req[q]
    BY <1>2, <2>1, <2>2, Goes
  <2>4. boxAt[f] \in Accounts \cup {None}
    BY <1>2 DEF AccountRecords, Maybe
  <2>5. AccountRecords'
    BY <1>2, <2>1, <2>4 DEF AccountRecords, Maybe
  <2>6. /\ \A b \in Accounts : box'[b] = IF b = a THEN n ELSE box[b]
        /\ \A m \in Names : boxAt'[m] = IF m = n THEN a ELSE IF m = f THEN None ELSE boxAt[m]
        /\ disturbed \subseteq disturbed' /\ boxAt[f] \in disturbed' \cup {None, a}
        /\ a \notin disturbed' => object[a] = Edited(r)
    BY <1>2, <2>1 DEF AccountRecords
  <2>7. EditRead(c) /\ Leaving(c) /\ ~ Enrolling(c) /\ ~ Enrolling(r)
    BY <1>2, <2>2 DEF EditRead, Enrolling, Settling, Moving, Leaving
  <2>8. Read'
    <3>1. \A q \in InFlight' \ {p} : EditRead(req'[q]) /\ (req'[q].op = "register" => Registering(q)')
      BY <1>1, <1>2, <2>2, <2>3, <2>6, RegistersStay
    <3> QED
      BY <1>2, <2>2, <2>3, <2>7, <3>1 DEF Read
  <2>9. IndexExact'
    BY <1>2, <2>6 DEF AccountsInv, IndexExact
  <2>10. ASSUME NEW b \in Accounts \ halved'
         PROVE  Absent(b)'
    <3>1. Absent(b)
      BY <1>2, <2>10 DEF AccountsInv
    <3> QED
      BY <1>1, <1>2, <2>2, <2>3, <2>7, <3>1 DEF Absent
  <2>11. ASSUME NEW b \in Accounts \ disturbed'
         PROVE  Filed(b)'
    <3>1. Filed(b) /\ (box[b] = None \/ box[b] \in Names) /\ b # None
      BY <2>6, <2>11 DEF AccountsInv, AccountRecords, Maybe
    <3> QED
      BY <1>2, <1>4, <2>6, <2>11, <3>1 DEF Filed, Open
  <2>12. ASSUME NEW b \in Whole'
         PROVE  InPlace(b)' /\ Links(b)'
    <3>1. b \in Accounts \ disturbed' /\ InPlace(b) /\ Links(b)
      BY <1>2, <2>6, <2>12 DEF AccountsInv, Whole
    <3>2. \A q \in InFlight : req[q].account = b /\ q # p => req'[q] = req[q]
      BY <2>3
    <3>3. InPlace(b)'
      <4>1. Edited(r).name = n
        BY <1>1, <1>2 DEF Edited
      <4>2. CASE b = a
        BY <1>2, <2>6, <3>1, <4>1, <4>2 DEF InPlace
      <4>3. CASE b # a
        BY <1>1, <1>2, <2>3, <2>6, <3>1, <3>2, <4>3 DEF InPlace
      <4> QED
        BY <4>2, <4>3
    <3>4. ASSUME NEW m \in Names, holder[m] = b
          PROVE  Linked(b, m)'
      <4>1. ASSUME NEW q \in InFlight, req[q].account = b /\ Leaving(req[q]) /\ req[q].copy.name = m
            PROVE  req'[q].account = b /\ Leaving(req'[q]) /\ req'[q].copy.name = m
        BY <1>1, <2>2, <2>3, <2>7, <4>1
      <4> QED
        BY <1>2, <2>3, <3>1, <3>4, <4>1 DEF Links, Linked
    <3> QED
      BY <1>2, <3>1, <3>3, <3>4 DEF Links
  <2> QED
    BY <2>3, <2>5, <2>8, <2>9, <2>10, <2>11, <2>12 DEF AccountsInv, AccountsTypeOK, AccountRecords, Handling
<1> QED
  BY <1>3, <1>4

LEMMA AddProfileAliasKept ==
  ASSUME AccountsInv, NEW p \in Requests, AddProfileAlias(p)
  PROVE  AccountsInv'
<1> USE AccountHandlers
<1>1. PICK r, a, n : r = req[p] /\ a = r.account /\ n = r.copy.name
  OBVIOUS
<1>2. p \in InFlight /\ r.at = "alias" /\ r \in AccountCalls /\ EditRead(r) /\ r.op = "address" /\ Changing(r)
      /\ a \in Accounts /\ n \in Names /\ Return(p)
      /\ UNCHANGED <<object, index, box, boxAt, holder, halved>>
  BY <1>1, AccountFields DEF AddProfileAlias, At, EditRead, Leaving, Changing, Objects
<1>3. alias' = [alias EXCEPT ![n] = a] /\ disturbed' = disturbed \cup ({alias[n]} \ {None, a})
  BY <1>1 DEF AddProfileAlias
<1>4. Handling("accounts", AccountCalls)' /\ InFlight' = InFlight \ {p}
      /\ \A q \in Requests \ {p} : req'[q] = req[q]
  BY <1>2, Ends
<1>5. alias[n] \in Accounts \cup {None}
  BY <1>2 DEF AccountRecords, Maybe
<1>6. AccountRecords'
  BY <1>2, <1>3, <1>5 DEF AccountRecords, Maybe
<1>7. /\ \A m \in Names : alias'[m] = IF m = n THEN a ELSE alias[m]
      /\ disturbed \subseteq disturbed' /\ alias[n] \in disturbed' \cup {None, a}
  BY <1>2, <1>3 DEF AccountRecords
<1>8. Read'
  BY <1>1, <1>2, <1>4, <1>7, RegistersStay DEF Read
<1>9. IndexExact'
  BY <1>2, <1>7 DEF AccountsInv, IndexExact
<1>10. ASSUME NEW b \in Accounts \ halved'
       PROVE  Absent(b)'
  <2>1. Absent(b)
    BY <1>2, <1>10 DEF AccountsInv
  <2>2. b = a => object[b] # None
    BY <1>1, <1>2, <2>1 DEF Absent, Enrolling
  <2> QED
    BY <1>2, <1>4, <1>7, <2>1, <2>2 DEF Absent
<1>11. \A b \in Accounts \ disturbed' : Filed(b)'
  BY <1>2, <1>7 DEF AccountsInv, Filed
<1>12. ASSUME NEW b \in Whole'
       PROVE  InPlace(b)' /\ Links(b)'
  <2>1. b \in Accounts \ disturbed' /\ b # None /\ InPlace(b) /\ Links(b)
    BY <1>2, <1>7, <1>12 DEF AccountsInv, Whole
  <2>2. ~ Settling(r) /\ ~ Moving(r)
    BY <1>2 DEF Settling, Moving
  <2>3. InPlace(b)'
    BY <1>1, <1>2, <1>4, <2>1, <2>2 DEF InPlace
  <2>4. ASSUME NEW m \in Names, holder[m] = b
        PROVE  Linked(b, m)'
    <3>1. CASE index[m] = b
      BY <1>2, <3>1 DEF Linked
    <3>2. CASE alias[m] = b
      BY <1>7, <2>1, <3>2 DEF Linked
    <3>3. CASE \E q \in InFlight : req[q].account = b /\ Leaving(req[q]) /\ req[q].copy.name = m
      BY <1>1, <1>4, <1>7, <2>4, <3>3 DEF Linked
    <3> QED
      BY <2>1, <2>4, <3>1, <3>2, <3>3 DEF Links, Linked
  <2> QED
    BY <1>2, <2>1, <2>3, <2>4 DEF Links
<1> QED
  BY <1>4, <1>6, <1>8, <1>9, <1>10, <1>11, <1>12 DEF AccountsInv, AccountsTypeOK, AccountRecords, Handling

\* What Update's transaction finds, and what it stores when the name is free.
Stores(r, a, w) ==
  /\ r.op # "register" /\ r.copy \in Objects /\ a \in Accounts /\ r.prior \in Names
  /\ w \in Objects /\ w.name \in Names
  /\ r.at = "restore" => r.op = "address" /\ w = r.copy /\ r.name \in Names /\ w.name # r.name
  /\ r.at = "commit" => w.name = IF r.op = "address" THEN r.name ELSE r.copy.name
  /\ \A b \in Accounts : object'[b] = IF b = a THEN w ELSE object[b]
  /\ w.name = r.prior => index' = index /\ holder' = holder
  /\ w.name # r.prior =>
       /\ index[w.name] \in {None, a}
       /\ index[r.prior] \in disturbed' \cup {None, a}
       /\ \A m \in Names : index'[m] = IF m = w.name THEN a ELSE IF m = r.prior THEN None ELSE index[m]
       /\ \A m \in Names : holder'[m] =
            IF m = w.name THEN a
            ELSE IF r.at = "restore" /\ m = r.name /\ holder[m] = a THEN alias[m] ELSE holder[m]
  /\ disturbed \subseteq disturbed' /\ disturbed' \subseteq Accounts
  /\ index' \in [Names -> Maybe(Accounts)] /\ holder' \in [Names -> Maybe(Accounts)]
  /\ a \notin disturbed' =>
       /\ object[a] # None /\ object[a].name = r.prior
       /\ r.at = "commit" => object[a] = r.copy
       /\ r.at = "restore" => object[a].name = r.name /\ box[a] = w.name

LEMMA UpdateStores ==
  ASSUME AccountsInv, NEW p \in InFlight, NEW r, r = req[p], NEW a, a = r.account,
         r.at \in {"commit", "restore"}, NameFree(r),
         object' = [object EXCEPT ![a] = Written(r)], index' = Reindexed(r), holder' = Given(r),
         disturbed' = disturbed \cup Robbed(r) \cup (IF StaleCopy(r) THEN {a} ELSE {}),
         NEW w, w = Written(r)
  PROVE  Stores(r, a, w)
<1> USE AccountHandlers
<1>1. r \in AccountCalls /\ EditRead(r) /\ a \in Accounts /\ Undoing(r) = (r.at = "restore")
  BY AccountFields DEF Undoing
<1>2. r.op # "register" /\ r.copy \in Objects /\ r.prior \in Names /\ r.copy.name \in Names
      /\ (r.op = "address" => r.name \in Names /\ r.copy.name # r.name)
      /\ (r.op = "status" => r.status \in Statuses) /\ (r.at = "restore" => r.op = "address")
  BY <1>1 DEF EditRead, Enrolling, Settling, Leaving, Moving, Objects
<1>3. PICK e : e = Edited(r)
  OBVIOUS
<1>4. e \in Objects /\ e.name = IF r.op = "address" THEN r.name ELSE r.copy.name
  <2>1. r.id \in 0 .. MaxRequests
    BY <1>1, AccountFields, HandlersAssumption
  <2> QED
    BY <1>2, <1>3, <2>1 DEF Edited, Objects
<1>5. w = IF r.at = "restore" THEN r.copy ELSE e
  BY <1>1, <1>3 DEF Written
<1>6. w \in Objects /\ w.name \in Names
  BY <1>2, <1>4, <1>5
<1>7. \A b \in Accounts : object'[b] = IF b = a THEN w ELSE object[b]
  BY <1>1 DEF AccountRecords
<1>8. w.name = r.prior => index' = index /\ holder' = holder
  BY DEF Reindexed, Given
<1>9. ASSUME w.name # r.prior
      PROVE  /\ index[w.name] \in {None, a}
             /\ index[r.prior] \in disturbed' \cup {None, a}
             /\ \A m \in Names : index'[m] = IF m = w.name THEN a ELSE IF m = r.prior THEN None ELSE index[m]
             /\ \A m \in Names : holder'[m] =
                  IF m = w.name THEN a
                  ELSE IF r.at = "restore" /\ m = r.name /\ holder[m] = a THEN alias[m] ELSE holder[m]
  <2>1. index[w.name] \in {None, a}
    BY <1>9 DEF NameFree, Open
  <2>2. index[r.prior] \in disturbed' \cup {None, a}
    BY <1>9 DEF Robbed
  <2>3. index' = [index EXCEPT ![r.prior] = None, ![w.name] = a]
    BY <1>9 DEF Reindexed
  <2>4. holder' = [n \in Names |-> IF n = w.name THEN a
                                   ELSE IF r.at = "restore" /\ n = r.name /\ holder[n] = a THEN alias[n]
                                   ELSE holder[n]]
    BY <1>1, <1>9 DEF Given
  <2> QED
    BY <1>2, <1>6, <2>1, <2>2, <2>3, <2>4 DEF AccountRecords
<1>10. index' \in [Names -> Maybe(Accounts)] /\ holder' \in [Names -> Maybe(Accounts)]
  <2>1. CASE w.name = r.prior
    BY <1>8, <2>1 DEF AccountRecords
  <2>2. CASE w.name # r.prior
    <3>1. index' \in [Names -> Maybe(Accounts)]
      BY <1>1, <2>2 DEF Reindexed, AccountRecords, Maybe
    <3>2. holder' \in [Names -> Maybe(Accounts)]
      BY <1>1, <2>2 DEF Given, AccountRecords, Maybe
    <3> QED
      BY <3>1, <3>2
  <2> QED
    BY <2>1, <2>2
<1>11. disturbed \subseteq disturbed' /\ disturbed' \subseteq Accounts
  <2>1. Robbed(r) \subseteq Accounts
    BY <1>2 DEF Robbed, AccountRecords, Maybe
  <2> QED
    BY <1>1, <2>1 DEF AccountRecords
<1>12. ASSUME a \notin disturbed'
       PROVE  /\ object[a] # None /\ object[a].name = r.prior
              /\ r.at = "commit" => object[a] = r.copy
              /\ r.at = "restore" => object[a].name = r.name /\ box[a] = w.name
  <2>1. ~ StaleCopy(r)
    BY <1>12
  <2>2. /\ object[a] = IF r.at = "restore" THEN e ELSE r.copy
        /\ object[a].name = r.prior /\ (r.at = "restore" => box[a] = r.copy.name)
    BY <1>1, <1>3, <2>1 DEF StaleCopy
  <2> QED
    BY <1>2, <1>4, <1>5, <2>2
<1>13. /\ r.at = "restore" => r.op = "address" /\ w = r.copy /\ r.name \in Names /\ w.name # r.name
       /\ r.at = "commit" => w.name = IF r.op = "address" THEN r.name ELSE r.copy.name
  BY <1>2, <1>4, <1>5
<1> QED
  BY <1>1, <1>2, <1>6, <1>7, <1>8, <1>9, <1>10, <1>11, <1>12, <1>13 DEF Stores

LEMMA UpdateKept ==
  ASSUME AccountsInv, NEW p \in Requests, Update(p)
  PROVE  AccountsInv'
<1> USE AccountHandlers
<1>1. PICK r, a, w : r = req[p] /\ a = r.account /\ w = Written(r)
  OBVIOUS
<1>2. p \in InFlight /\ r.at \in {"commit", "restore"} /\ r \in AccountCalls /\ EditRead(r) /\ a \in Accounts
      /\ UNCHANGED <<alias, box, boxAt>>
  BY <1>1, AccountFields DEF Update, At
<1>3. CASE ~ NameFree(r)
  <2>1. /\ Return(p) /\ UNCHANGED <<object, index, holder, disturbed>>
        /\ halved' = IF Undoing(r) THEN halved \cup {a} ELSE halved
    BY <1>1, <1>3 DEF Update
  <2>2. halved \subseteq halved' /\ halved' \subseteq Accounts /\ (r.at = "restore" => a \in halved')
    BY <1>2, <2>1 DEF AccountRecords, Undoing
  <2>3. r.at = "commit" => ~ (Settling(r) \/ Leaving(r))
    BY DEF Settling, Leaving, Moving
  <2> QED
    BY <1>1, <1>2, <2>1, <2>2, <2>3, AccountEnds DEF stored
<1>4. CASE NameFree(r)
  <2>1. /\ object' = [object EXCEPT ![a] = Written(r)] /\ index' = Reindexed(r) /\ holder' = Given(r)
        /\ disturbed' = disturbed \cup Robbed(r) \cup (IF StaleCopy(r) THEN {a} ELSE {})
        /\ (IF r.at = "commit" /\ r.op = "address" THEN Goto(p, "move") ELSE Return(p)) /\ halved' = halved
    BY <1>1, <1>4 DEF Update
  <2>0. Stores(r, a, w)
    BY <1>1, <1>2, <1>4, <2>1, UpdateStores
  <2>2. /\ r.op # "register" /\ r.copy \in Objects /\ r.prior \in Names
        /\ w \in Objects /\ w.name \in Names /\ w # None
        /\ r.at = "restore" => r.op = "address" /\ w = r.copy /\ r.name \in Names /\ w.name # r.name
        /\ r.at = "commit" => w.name = IF r.op = "address" THEN r.name ELSE r.copy.name
        /\ \A b \in Accounts : object'[b] = IF b = a THEN w ELSE object[b]
    BY <2>0 DEF Stores
  <2>3. /\ w.name = r.prior => index' = index /\ holder' = holder
        /\ w.name # r.prior =>
             /\ index[w.name] \in {None, a}
             /\ index[r.prior] \in disturbed' \cup {None, a}
             /\ \A m \in Names : index'[m] = IF m = w.name THEN a ELSE IF m = r.prior THEN None ELSE index[m]
             /\ \A m \in Names : holder'[m] =
                  IF m = w.name THEN a
                  ELSE IF r.at = "restore" /\ m = r.name /\ holder[m] = a THEN alias[m] ELSE holder[m]
    BY <2>0 DEF Stores
  <2>4. /\ disturbed \subseteq disturbed' /\ disturbed' \subseteq Accounts
        /\ index' \in [Names -> Maybe(Accounts)] /\ holder' \in [Names -> Maybe(Accounts)]
        /\ a \notin disturbed' =>
             /\ object[a] # None /\ object[a].name = r.prior
             /\ r.at = "commit" => object[a] = r.copy
             /\ r.at = "restore" => object[a].name = r.name /\ box[a] = w.name
    BY <2>0 DEF Stores
  <2>5. PICK c : /\ c = IF r.at = "commit" /\ r.op = "address" THEN [r EXCEPT !.at = "move"] ELSE None
                 /\ IF r.at = "commit" /\ r.op = "address" THEN Continue(p, c) ELSE Return(p)
    BY <1>1, <2>1 DEF Goto
  <2>6. r.at = "commit" /\ r.op = "address" =>
          /\ c \in AccountCalls /\ c.at = "move" /\ c.op = r.op /\ c.account = r.account /\ c.name = r.name
          /\ c.status = r.status /\ c.copy = r.copy /\ c.prior = r.prior /\ c.from = r.from
    BY <1>2, <2>5, AccountMoves DEF AccountPlaces
  <2>7. /\ Handling("accounts", AccountCalls)' /\ \A q \in Requests \ {p} : req'[q] = req[q]
        /\ IF r.at = "commit" /\ r.op = "address" THEN InFlight' = InFlight /\ req'[p] = c
           ELSE InFlight' = InFlight \ {p}
    <3>1. CASE r.at = "commit" /\ r.op = "address"
      BY <1>2, <2>5, <2>6, <3>1, Goes
    <3>2. CASE ~ (r.at = "commit" /\ r.op = "address")
      BY <1>2, <2>5, <3>2, Ends
    <3> QED
      BY <3>1, <3>2
  <2>8. AccountRecords'
    <3>1. object' \in [Accounts -> Maybe(Objects)]
      BY <1>1, <1>2, <2>1, <2>2 DEF AccountRecords, Maybe
    <3> QED
      BY <1>2, <2>1, <2>4, <3>1 DEF AccountRecords
  <2>9. r.op = "address" => Changing(r)
    BY <1>2 DEF Changing
  <2>10. r.at = "commit" /\ r.op = "address" =>
           EditRead(c) /\ Leaving(c) /\ Moving(c) /\ ~ Enrolling(c) /\ ~ Settling(c)
    BY <1>2, <2>6 DEF EditRead, Enrolling, Settling, Moving, Leaving
  <2>11. Read'
    <3>1. \/ object'[a] = object[a] \/ r.op = "register" \/ Changing(r) \/ a \in disturbed'
          \/ object[a] # None /\ object'[a] # None /\ object'[a].name = object[a].name
      <4>1. r.op # "address" => r.at = "commit"
        BY <1>2, <2>2
      <4> QED
        BY <1>2, <2>2, <2>4, <2>9, <4>1
    <3>2. p \in InFlight' => /\ req'[p].account = a /\ req'[p].op = r.op
                             /\ Changing(req'[p]) => Changing(r) \/ box[a] # None
      BY <1>1, <2>6, <2>7, <2>9
    <3>3. InFlight' = InFlight \/ InFlight' = InFlight \ {p}
      BY <2>7
    <3>4. \A b \in Accounts \ {a} : box'[b] = box[b] /\ object'[b] = object[b]
      BY <1>2, <2>2
    <3>5. \A q \in InFlight' \ {p} : EditRead(req'[q]) /\ (req'[q].op = "register" => Registering(q)')
      BY <1>1, <1>2, <2>4, <2>7, <3>1, <3>2, <3>3, <3>4, RegistersStay
    <3>6. p \in InFlight' => EditRead(req'[p]) /\ req'[p].op # "register"
      BY <2>2, <2>6, <2>7, <2>10
    <3> QED
      BY <3>5, <3>6 DEF Read
  <2>12. IndexExact'
    <3>1. ASSUME NEW b \in Accounts \ disturbed', NEW m \in Names
          PROVE  (index'[m] = b) <=> (object'[b] # None /\ object'[b].name = m)
      <4>1. /\ (index[m] = b) <=> (object[b] # None /\ object[b].name = m)
            /\ (index[w.name] = b) <=> (object[b] # None /\ object[b].name = w.name)
            /\ (index[r.prior] = b) <=> (object[b] # None /\ object[b].name = r.prior)
            /\ b # None
        BY <2>2, <2>4, <3>1 DEF AccountsInv, IndexExact
      <4>2. CASE b = a
        BY <1>2, <2>2, <2>3, <2>4, <3>1, <4>1, <4>2
      <4>3. CASE b # a
        BY <1>2, <2>2, <2>3, <3>1, <4>1, <4>3
      <4> QED
        BY <4>2, <4>3
    <3> QED
      BY <3>1 DEF IndexExact
  <2>13. ASSUME NEW b \in Accounts \ halved'
         PROVE  Absent(b)'
    <3>1. CASE b = a
      BY <1>2, <2>2, <3>1 DEF Absent
    <3>2. CASE b # a
      <4>1. Absent(b) /\ object'[b] = object[b]
        BY <2>1, <2>2, <2>13, <3>2 DEF AccountsInv
      <4>2. object[b] = None => \A m \in Names : holder'[m] # b /\ alias'[m] # b
        BY <1>2, <2>3, <3>2, <4>1 DEF Absent
      <4>3. \A q \in InFlight' : req'[q].account = b => q \in InFlight /\ req'[q] = req[q]
        BY <1>1, <2>6, <2>7, <3>2
      <4> QED
        BY <4>1, <4>2, <4>3 DEF Absent
    <3> QED
      BY <3>1, <3>2
  <2>14. \A b \in Accounts \ disturbed' : Filed(b)'
    BY <1>2, <2>4 DEF AccountsInv, Filed
  <2>15. ASSUME NEW b \in Whole', b # a
         PROVE  InPlace(b)' /\ Links(b)'
    <3>1. b \in Accounts \ disturbed' /\ b # None /\ InPlace(b) /\ Links(b) /\ object'[b] = object[b]
      BY <2>1, <2>2, <2>4, <2>15 DEF AccountsInv, Whole
    <3>2. \A q \in InFlight : req[q].account = b => q \in InFlight' /\ req'[q] = req[q]
      BY <1>1, <2>7, <2>15
    <3>3. InPlace(b)'
      BY <1>2, <3>1, <3>2 DEF InPlace
    <3>4. ASSUME NEW m \in Names
          PROVE  (index'[m] = b => holder'[m] = b) /\ (holder'[m] = b => Linked(b, m)')
      <4>1. (index'[m] = b <=> index[m] = b) /\ (index[m] = b => holder[m] = b)
        BY <1>2, <2>2, <2>3, <2>15, <3>1, <3>4 DEF Links
      <4>2. index[m] = b => holder'[m] = b
        BY <1>2, <2>2, <2>3, <2>15, <3>1, <3>4, <4>1
      <4>3. holder'[m] = b => holder[m] = b \/ alias[m] = b
        BY <2>3, <2>15, <3>4
      <4>4. holder[m] = b => Linked(b, m)
        BY <3>1, <3>4 DEF Links
      <4> QED
        BY <1>2, <3>2, <4>1, <4>2, <4>3, <4>4 DEF Linked
    <3> QED
      BY <3>3, <3>4 DEF Links
  <2>16. ASSUME a \in Whole'
         PROVE  InPlace(a)' /\ Links(a)'
    <3>1. a \notin disturbed' /\ InPlace(a) /\ Links(a) /\ object'[a] = w
      BY <1>2, <2>1, <2>2, <2>4, <2>16 DEF AccountsInv, Whole
    <3>2. /\ object[a] # None /\ object[a].name = r.prior
          /\ r.at = "commit" => object[a] = r.copy
          /\ r.at = "restore" => object[a].name = r.name /\ box[a] = w.name
      BY <2>4, <3>1
    <3>3. \A q \in InFlight \ {p} : q \in InFlight' /\ req'[q] = req[q]
      BY <2>7
    <3>4. \A m \in Names : index'[m] = a <=> w.name = m
      BY <1>2, <2>2, <2>12, <3>1 DEF IndexExact
    <3>5. InPlace(a)'
      <4>1. CASE r.at = "commit" /\ r.op = "address"
        BY <1>1, <1>2, <2>6, <2>7, <2>10, <4>1 DEF InPlace
      <4>2. CASE r.at = "commit" /\ r.op # "address"
        <5>1. ~ Settling(r) /\ ~ Moving(r) /\ w.name = object[a].name
          BY <2>2, <3>2, <4>2 DEF Settling, Moving
        <5> QED
          BY <1>1, <1>2, <3>1, <3>2, <3>3, <5>1 DEF InPlace
      <4>3. CASE r.at = "restore"
        BY <1>2, <3>1, <3>2, <4>3 DEF InPlace
      <4> QED
        BY <1>2, <4>1, <4>2, <4>3
    <3>6. ASSUME NEW m \in Names, index'[m] = a
          PROVE  holder'[m] = a
      BY <2>3, <3>1, <3>4, <3>6 DEF Links
    <3>7. ASSUME NEW m \in Names, holder'[m] = a
          PROVE  Linked(a, m)'
      <4>1. CASE m = w.name
        BY <3>4, <4>1 DEF Linked
      <4>2. CASE m # w.name /\ alias[m] = a
        BY <1>2, <4>2 DEF Linked
      <4>3. CASE m # w.name /\ alias[m] # a
        <5>1. holder[m] = a /\ ~ (w.name # r.prior /\ r.at = "restore" /\ m = r.name)
          BY <2>3, <3>7, <4>3
        <5>2. Linked(a, m)
          BY <3>1, <3>7, <5>1 DEF Links
        <5>3. CASE index[m] = a
          <6>1. m = r.prior
            BY <1>2, <2>4, <3>1, <3>2, <3>7, <5>3 DEF AccountsInv, IndexExact
          <6>2. r.at = "commit" /\ r.op = "address" /\ r.copy.name = m
            BY <1>2, <2>2, <3>2, <4>3, <5>1, <6>1
          <6> QED
            BY <1>1, <1>2, <2>6, <2>7, <2>10, <6>2 DEF Linked
        <5>4. CASE \E q \in InFlight : req[q].account = a /\ Leaving(req[q]) /\ req[q].copy.name = m
          <6>1. PICK q \in InFlight : req[q].account = a /\ Leaving(req[q]) /\ req[q].copy.name = m
            BY <5>4
          <6>2. q # p
            BY <1>1, <1>2, <2>2, <4>3, <6>1 DEF Leaving, Moving
          <6> QED
            BY <3>3, <6>1, <6>2 DEF Linked
        <5> QED
          BY <4>3, <5>2, <5>3, <5>4 DEF Linked
      <4> QED
        BY <4>1, <4>2, <4>3
    <3> QED
      BY <3>5, <3>6, <3>7 DEF Links
  <2>17. \A b \in Whole' : InPlace(b)' /\ Links(b)'
    BY <2>15, <2>16
  <2> QED
    BY <2>7, <2>8, <2>11, <2>12, <2>13, <2>14, <2>17 DEF AccountsInv, AccountsTypeOK, AccountRecords, Handling
<1> QED
  BY <1>3, <1>4

LEMMA AccountsKept == AccountsInv /\ [AccountsNext]_<<handlers, accountVars>> => AccountsInv'
<1> SUFFICES ASSUME AccountsInv, [AccountsNext]_<<handlers, accountVars>>
             PROVE  AccountsInv'
  OBVIOUS
<1>1. ASSUME NEW p \in Requests, NEW a \in Accounts,
             \/ UpdateProfile(p, a)
             \/ \E s \in Statuses : UpdateAccountStatus(p, a, s)
             \/ \E n \in Names : BeginRegistration(p, a, n) \/ ChangeWaveAddress(p, a, n)
      PROVE  AccountsInv'
  <2>1. CASE UpdateProfile(p, a)
    <3>1. PICK n : n \in Names
      BY <2>1, AccountHandlers DEF UpdateProfile, Objects
    <3> QED
      BY <2>1, <3>1, BeginsKept DEF Statuses
  <2>2. ASSUME NEW s \in Statuses, UpdateAccountStatus(p, a, s)
        PROVE  AccountsInv'
    <3>1. PICK n : n \in Names
      BY <2>2, AccountHandlers DEF UpdateAccountStatus, Objects
    <3> QED
      BY <2>2, <3>1, BeginsKept
  <2>3. ASSUME NEW n \in Names, BeginRegistration(p, a, n) \/ ChangeWaveAddress(p, a, n)
        PROVE  AccountsInv'
    BY <2>3, BeginsKept DEF Statuses
  <2> QED
    BY <1>1, <2>1, <2>2, <2>3
<1>2. ASSUME NEW p \in Requests,
             \/ Register(p) \/ CreateAccount(p) \/ UpsertMailbox(p) \/ TakeBack(p)
             \/ Load(p) \/ LoadMailbox(p) \/ ReadPrevious(p) \/ Update(p)
             \/ UpdateAddress(p) \/ AddProfileAlias(p)
             \/ FailAccountCall(p)
      PROVE  AccountsInv'
  BY <1>2, RegisterKept, CreateAccountKept, UpsertMailboxKept, TakeBackKept, LoadKept, LoadMailboxKept,
     ReadPreviousKept, UpdateKept, UpdateAddressKept, AddProfileAliasKept, FailAccountCallKept
<1>3. CASE UNCHANGED <<handlers, accountVars>>
  <2>1. Handling("accounts", AccountCalls)' /\ InFlight' = InFlight /\ req' = req
    BY <1>3, AccountHandlers, Rests
  <2>2. UNCHANGED <<object, index, alias, box, boxAt, holder, disturbed, halved>>
    BY <1>3 DEF accountVars, stored
  <2>3. service' = "accounts" /\ AccountsTypeOK'
    BY <2>1, <2>2, AccountHandlers DEF Handling, AccountsTypeOK, AccountRecords
  <2>4. Read'
    BY <2>1, <2>2 DEF AccountsInv, Read, Registering
  <2>5. IndexExact' /\ Whole' = Whole
    BY <2>2 DEF AccountsInv, IndexExact, Whole
  <2>6. \A b \in Accounts \ halved' : Absent(b)'
    BY <2>1, <2>2 DEF AccountsInv, Absent
  <2>7. \A b \in Accounts \ disturbed' : Filed(b)'
    BY <2>2 DEF AccountsInv, Filed
  <2>8. \A b \in Whole' : InPlace(b)' /\ Links(b)'
    BY <2>1, <2>2, <2>5 DEF AccountsInv, InPlace, Links, Linked
  <2> QED
    BY <2>3, <2>4, <2>5, <2>6, <2>7, <2>8 DEF AccountsInv
<1> QED
  BY <1>1, <1>2, <1>3, CrashAccountsKept DEF AccountsNext

\* What the invariant says between the operations of an account is the promise.
LEMMA AccountsAgree == AccountsInv => IndexExact /\ MailReaches /\ LinksLead
<1> SUFFICES ASSUME AccountsInv
             PROVE  IndexExact /\ MailReaches /\ LinksLead
  OBVIOUS
<1> USE AccountHandlers
<1>1. Of("accounts") = InFlight
  BY DEF AccountsInv, Of
<1>2. ASSUME NEW a \in Accounts \ halved, Quiet(a), object[a] # None
      PROVE  box[a] = object[a].name /\ boxAt[box[a]] = a
  <2>1. a \in Accounts \ disturbed /\ \A p \in InFlight : req[p].account # a
    BY <1>1, <1>2 DEF Quiet
  <2>2. InPlace(a) /\ Filed(a)
    BY <1>2, <2>1 DEF AccountsInv, Whole
  <2>3. box[a] = object[a].name
    BY <1>2, <2>1, <2>2 DEF InPlace
  <2>4. object[a].name \in Names
    BY <1>2 DEF Objects
  <2> QED
    BY <2>2, <2>3, <2>4 DEF Filed
<1>3. ASSUME NEW n \in Names, NEW a, a = holder[n], a # None, a \notin halved, Quiet(a)
      PROVE  Resolve(n) \in {a} \cup halved \cup disturbed
  <2>1. a \in Whole /\ \A p \in InFlight : req[p].account # a
    BY <1>1, <1>3 DEF Quiet, Whole, AccountRecords, Maybe
  <2>2. index[n] = a \/ alias[n] = a
    BY <1>3, <2>1 DEF AccountsInv, Links, Linked
  <2>3. index[n] \notin {None, a} => index[n] \notin Whole /\ index[n] \in Accounts
    BY <1>3 DEF AccountsInv, Links, AccountRecords, Maybe
  <2>4. CASE index[n] = None
    BY <1>3, <2>2, <2>4 DEF Resolve
  <2>5. CASE index[n] = a
    BY <1>3, <2>5 DEF Resolve
  <2>6. CASE index[n] \notin {None, a}
    <3>1. Resolve(n) = index[n]
      BY <2>6 DEF Resolve
    <3>2. index[n] \in halved \cup disturbed
      BY <2>3, <2>6 DEF Whole
    <3> QED
      BY <3>1, <3>2
  <2> QED
    BY <2>4, <2>5, <2>6
<1>4. MailReaches
  BY <1>2 DEF MailReaches
<1>5. LinksLead
  BY <1>3 DEF LinksLead
<1> QED
  BY <1>4, <1>5 DEF AccountsInv

\* A write that changes a status is an administrator's, or is of a copy that was stale.
LEMMA StatusSteps ==
  AccountsInv /\ [AccountsNext]_<<handlers, accountVars>> =>
    [\A a \in Accounts :
       object[a] # None /\ object'[a] # None /\ object'[a].status # object[a].status =>
         \/ \E p \in Requests : At(p, "commit") /\ req[p].op = "status" /\ req'[p] = None
         \/ a \in disturbed']_<<handlers, accountVars>>
<1> SUFFICES ASSUME AccountsInv, AccountsNext, NEW b \in Accounts,
                    object[b] # None, object'[b] # None, object'[b].status # object[b].status
             PROVE  \/ \E p \in Requests : At(p, "commit") /\ req[p].op = "status" /\ req'[p] = None
                    \/ b \in disturbed'
  OBVIOUS
<1> USE AccountHandlers
<1>1. object'[b] # object[b]
  OBVIOUS
<1>2. ASSUME NEW p \in Requests, CreateAccount(p)
      PROVE  FALSE
  <2>1. PICK r : r = req[p] /\ p \in InFlight /\ r.at = "create"
    BY <1>2 DEF CreateAccount, At
  <2>2. r.op = "register" /\ object[r.account] = None /\ r.account \in Accounts
    BY <2>1, AccountFields DEF EditRead, Enrolling, Registering
  <2>3. object' = object \/ \E x : object' = [object EXCEPT ![r.account] = x]
    BY <1>2, <2>1 DEF CreateAccount
  <2> QED
    BY <1>1, <2>2, <2>3 DEF AccountRecords
<1>3. ASSUME NEW p \in Requests, TakeBack(p)
      PROVE  FALSE
  <2>1. PICK a : object' = [object EXCEPT ![a] = None]
    BY <1>3 DEF TakeBack
  <2> QED
    BY <1>1, <2>1 DEF AccountRecords
<1>4. ASSUME NEW p \in Requests, Update(p)
      PROVE  \/ At(p, "commit") /\ req[p].op = "status" /\ req'[p] = None
             \/ b \in disturbed'
  <2>1. PICK r, a, w : r = req[p] /\ a = r.account /\ w = Written(r)
    OBVIOUS
  <2>2. p \in InFlight /\ r.at \in {"commit", "restore"} /\ r \in AccountCalls /\ EditRead(r) /\ a \in Accounts
    BY <1>4, <2>1, AccountFields DEF Update, At
  <2>3. NameFree(r)
    BY <1>1, <1>4, <2>1 DEF Update
  <2>4. /\ object' = [object EXCEPT ![a] = Written(r)] /\ index' = Reindexed(r) /\ holder' = Given(r)
        /\ disturbed' = disturbed \cup Robbed(r) \cup (IF StaleCopy(r) THEN {a} ELSE {})
        /\ (IF r.at = "commit" /\ r.op = "address" THEN Goto(p, "move") ELSE Return(p))
    BY <1>4, <2>1, <2>3 DEF Update
  <2>5. b = a /\ object'[a] = w
    BY <1>1, <2>1, <2>2, <2>4 DEF AccountRecords
  <2>6. ASSUME a \notin disturbed'
        PROVE  r.at = "commit" /\ r.op = "status"
    <3>6. ~ StaleCopy(r)
      BY <2>4, <2>6
    <3>7. Undoing(r) = (r.at = "restore")
      BY <2>2 DEF Undoing
    <3>1. object[a] = IF r.at = "restore" THEN Edited(r) ELSE r.copy
      BY <2>1, <3>6, <3>7 DEF StaleCopy
    <3>2. r.at = "restore" => r.op = "address"
      BY <2>2 DEF EditRead, Leaving, Moving
    <3>3. Edited(r).status = IF r.op = "status" THEN r.status ELSE r.copy.status
      BY DEF Edited
    <3>4. w = IF r.at = "restore" THEN r.copy ELSE Edited(r)
      BY <2>1, <2>2 DEF Written, Undoing
    <3> QED
      BY <2>2, <2>5, <3>1, <3>2, <3>3, <3>4
  <2>7. r.at = "commit" /\ r.op = "status" => req'[p] = None
    <3>1. req \in [Requests -> AccountCalls \cup {None}]
      BY HandledCalls
    <3> QED
      BY <2>4, <3>1 DEF Return, Continue
  <2> QED
    BY <2>1, <2>2, <2>5, <2>6, <2>7 DEF At
<1>5. ASSUME object' = object
      PROVE  FALSE
  BY <1>1, <1>5
<1>6. ASSUME NEW p \in Requests, NEW a \in Accounts,
             \/ UpdateProfile(p, a)
             \/ \E s \in Statuses : UpdateAccountStatus(p, a, s)
             \/ \E n \in Names : BeginRegistration(p, a, n) \/ ChangeWaveAddress(p, a, n)
      PROVE  object' = object
  BY <1>6 DEF UpdateProfile, UpdateAccountStatus, BeginRegistration, ChangeWaveAddress, accountVars, stored
<1>7. ASSUME NEW p \in Requests,
             \/ Register(p) \/ UpsertMailbox(p) \/ Load(p) \/ LoadMailbox(p) \/ ReadPrevious(p)
             \/ UpdateAddress(p) \/ AddProfileAlias(p) \/ FailAccountCall(p)
      PROVE  object' = object
  BY <1>7 DEF Register, UpsertMailbox, Load, LoadMailbox, ReadPrevious, UpdateAddress, AddProfileAlias,
              FailAccountCall, accountVars, stored
<1>8. CrashAccounts => object' = object
  BY DEF CrashAccounts, stored
<1> QED
  BY <1>2, <1>3, <1>4, <1>5, <1>6, <1>7, <1>8 DEF AccountsNext

\* Accounts, whatever registrations, edits and address changes overlap, fail or are cut
\* short: a name leads to the account that has it or last had it, mail for its address is
\* filed in its mailbox, and an administrator's word about it stands.
THEOREM AccountsKeepTheirPromise == AccountsSpec => AccountsPromise
<1>1. AccountsSpec => []AccountsInv
  BY AccountsStart, AccountsKept, PTL DEF AccountsSpec
<1>2. AccountsSpec => [](IndexExact /\ MailReaches /\ LinksLead)
  BY <1>1, AccountsAgree, PTL
<1>3. AccountsSpec => StatusStands
  BY <1>1, StatusSteps, PTL DEF AccountsSpec, StatusStands
<1> QED
  BY <1>2, <1>3 DEF AccountsPromise

-----------------------------------------------------------------------------
(* The services together: the one at work keeps its invariant, and the     *)
(* others what they are at first.                                          *)

AllInv ==
  /\ service \in Services /\ begun \in 0 .. MaxRequests /\ faults \in 0 .. MaxFaults
  /\ IF service = "accounts" THEN AccountsInv ELSE AccountsInit
  /\ IF service = "administration" THEN AdministrationInv ELSE AdministrationInit
  /\ IF service = "mailboxes" THEN MailboxInv ELSE MailboxesInit
  /\ IF service = "votes" THEN VotesInv ELSE VotesInit
  /\ IF service = "patches" THEN PatchesInv ELSE PatchesInit
  /\ IF service = "documents" THEN DocumentsInv ELSE DocumentsInit
  /\ IF service = "community" THEN CommunityInv ELSE CommunityInit
  /\ IF service = "mirrors" THEN MirrorsInv ELSE MirrorsInit
  /\ IF service = "sponsors" THEN SponsorsInv ELSE SponsorsInit
  /\ IF service = "images" THEN ImagesInv ELSE ImagesInit
  /\ IF service = "startup" THEN StartupInv ELSE StartupInit

LEMMA AllStart == Init => AllInv
<1> SUFFICES ASSUME Init
             PROVE  AllInv
  OBVIOUS
<1>1. /\ HandlersInit /\ AccountsInit /\ AdministrationInit /\ MailboxesInit /\ VotesInit /\ PatchesInit
      /\ DocumentsInit /\ CommunityInit /\ MirrorsInit /\ SponsorsInit /\ ImagesInit /\ StartupInit
  BY DEF Init
<1>2. service \in Services /\ begun \in 0 .. MaxRequests /\ faults \in 0 .. MaxFaults
  BY <1>1, HandlersAssumption DEF HandlersInit
<1>3. service = "accounts" => AccountsInv
  BY <1>1, AccountsStart
<1>4. service = "administration" => AdministrationInv
  BY <1>1, AdministrationStart
<1>5. service = "mailboxes" => MailboxInv
  BY <1>1, MailboxesStart
<1>6. service = "votes" => VotesInv
  BY <1>1, VotesStart
<1>7. service = "patches" => PatchesInv
  BY <1>1, PatchesStart
<1>8. service = "documents" => DocumentsInv
  BY <1>1, DocumentsStart
<1>9. service = "community" => CommunityInv
  BY <1>1, CommunityStart
<1>10. service = "mirrors" => MirrorsInv
  BY <1>1, MirrorsStart
<1>11. service = "sponsors" => SponsorsInv
  BY <1>1, SponsorsStart
<1>12. service = "images" => ImagesInv
  BY <1>1, ImagesStart
<1>13. service = "startup" => StartupInv
  BY <1>1, StartupStart
<1> QED
  BY <1>1, <1>2, <1>3, <1>4, <1>5, <1>6, <1>7, <1>8, <1>9, <1>10, <1>11, <1>12, <1>13 DEF AllInv

\* The service at work, and its records' types.
LEMMA InvsTyped ==
  /\ AccountsInv => service = "accounts" /\ AccountsTypeOK
  /\ AdministrationInv => service = "administration" /\ AdministrationTypeOK
  /\ MailboxInv => service = "mailboxes" /\ MailboxesTypeOK
  /\ VotesInv => service = "votes" /\ VotesTypeOK
  /\ PatchesInv => service = "patches" /\ PatchesTypeOK
  /\ DocumentsInv => service = "documents" /\ DocumentsTypeOK
  /\ CommunityInv => service = "community" /\ CommunityTypeOK
  /\ MirrorsInv => service = "mirrors" /\ MirrorsTypeOK
  /\ SponsorsInv => service = "sponsors" /\ SponsorsTypeOK
  /\ ImagesInv => service = "images" /\ ImagesTypeOK
  /\ StartupInv => service = "startup" /\ StartupTypeOK
BY DEF AccountsInv, AdministrationInv, MailboxInv, VotesInv, PatchesInv, DocumentsInv, CommunityInv,
       MirrorsInv, SponsorsInv, ImagesInv, StartupInv

\* A service that is not at work does not change.
LEMMA Idle ==
  /\ UNCHANGED accountVars /\ AccountsInit => AccountsInit'
  /\ UNCHANGED adminVars /\ AdministrationInit => AdministrationInit'
  /\ UNCHANGED mailboxVars /\ MailboxesInit => MailboxesInit'
  /\ UNCHANGED voteVars /\ VotesInit => VotesInit'
  /\ UNCHANGED patchVars /\ PatchesInit => PatchesInit'
  /\ UNCHANGED documentVars /\ DocumentsInit => DocumentsInit'
  /\ UNCHANGED communityVars /\ CommunityInit => CommunityInit'
  /\ UNCHANGED mirrorVars /\ MirrorsInit => MirrorsInit'
  /\ UNCHANGED sponsorVars /\ SponsorsInit => SponsorsInit'
  /\ UNCHANGED imageVars /\ ImagesInit => ImagesInit'
  /\ UNCHANGED startVars /\ StartupInit => StartupInit'
BY DEF accountVars, stored, AccountsInit, adminVars, AdministrationInit, mailboxVars, filed, platform, MailboxesInit,
       voteVars, VotesInit, patchVars, PatchesInit, documentVars, DocumentsInit, communityVars, CommunityInit,
       mirrorVars, MirrorsInit, sponsorVars, SponsorsInit, imageVars, ImagesInit, startVars, admin, StartupInit

\* The records of all services but one stay.
OthersStay(at) ==
  /\ at # "accounts" => UNCHANGED accountVars
  /\ at # "administration" => UNCHANGED adminVars
  /\ at # "mailboxes" => UNCHANGED mailboxVars
  /\ at # "votes" => UNCHANGED voteVars
  /\ at # "patches" => UNCHANGED patchVars
  /\ at # "documents" => UNCHANGED documentVars
  /\ at # "community" => UNCHANGED communityVars
  /\ at # "mirrors" => UNCHANGED mirrorVars
  /\ at # "sponsors" => UNCHANGED sponsorVars
  /\ at # "images" => UNCHANGED imageVars
  /\ at # "startup" => UNCHANGED startVars

\* The services of the instance.
Modelled ==
  {"accounts", "administration", "mailboxes", "votes", "patches", "documents", "community", "mirrors", "sponsors",
   "images", "startup"}

\* A step is one of the service at work.
LEMMA OneWorks ==
  ASSUME [Next \/ Done]_vars
  PROVE  \/ service = "accounts" /\ AccountsNext /\ OthersStay("accounts")
         \/ service = "administration" /\ AdministrationNext /\ OthersStay("administration")
         \/ service = "mailboxes" /\ MailboxesNext /\ OthersStay("mailboxes")
         \/ service = "votes" /\ VotesNext /\ OthersStay("votes")
         \/ service = "patches" /\ PatchesNext /\ OthersStay("patches")
         \/ service = "documents" /\ DocumentsNext /\ OthersStay("documents")
         \/ service = "community" /\ CommunityNext /\ OthersStay("community")
         \/ service = "mirrors" /\ MirrorsNext /\ OthersStay("mirrors")
         \/ service = "sponsors" /\ SponsorsNext /\ OthersStay("sponsors")
         \/ service = "images" /\ ImagesNext /\ OthersStay("images")
         \/ service = "startup" /\ StartupNext /\ OthersStay("startup")
         \/ UNCHANGED <<handlers, accountVars, adminVars, mailboxVars, voteVars, patchVars, documentVars,
                        communityVars, mirrorVars, sponsorVars, imageVars, startVars>>
<1>1. CASE UNCHANGED vars
  BY <1>1 DEF vars
<1>2. CASE /\ service = "accounts" /\ AccountsNext
           /\ UNCHANGED <<adminVars, mailboxVars, voteVars, patchVars, documentVars, communityVars,
                          mirrorVars, sponsorVars, imageVars, startVars>>
  BY <1>2 DEF OthersStay
<1>3. CASE /\ service = "administration" /\ AdministrationNext
           /\ UNCHANGED <<accountVars, mailboxVars, voteVars, patchVars, documentVars,
                          communityVars, mirrorVars, sponsorVars, imageVars, startVars>>
  BY <1>3 DEF OthersStay
<1>4. CASE /\ service = "mailboxes" /\ MailboxesNext
           /\ UNCHANGED <<accountVars, adminVars, voteVars, patchVars, documentVars, communityVars,
                          mirrorVars, sponsorVars, imageVars, startVars>>
  BY <1>4 DEF OthersStay
<1>5. CASE /\ service = "votes" /\ VotesNext
           /\ UNCHANGED <<accountVars, adminVars, mailboxVars, patchVars, documentVars,
                          communityVars, mirrorVars, sponsorVars, imageVars, startVars>>
  BY <1>5 DEF OthersStay
<1>6. CASE /\ service = "patches" /\ PatchesNext
           /\ UNCHANGED <<accountVars, adminVars, mailboxVars, voteVars, documentVars,
                          communityVars, mirrorVars, sponsorVars, imageVars, startVars>>
  BY <1>6 DEF OthersStay
<1>7. CASE /\ service = "documents" /\ DocumentsNext
           /\ UNCHANGED <<accountVars, adminVars, mailboxVars, voteVars, patchVars, communityVars,
                          mirrorVars, sponsorVars, imageVars, startVars>>
  BY <1>7 DEF OthersStay
<1>8. CASE /\ service = "community" /\ CommunityNext
           /\ UNCHANGED <<accountVars, adminVars, mailboxVars, voteVars, patchVars, documentVars,
                          mirrorVars, sponsorVars, imageVars, startVars>>
  BY <1>8 DEF OthersStay
<1>9. CASE /\ service = "mirrors" /\ MirrorsNext
           /\ UNCHANGED <<accountVars, adminVars, mailboxVars, voteVars, patchVars, documentVars,
                          communityVars, sponsorVars, imageVars, startVars>>
  BY <1>9 DEF OthersStay
<1>10. CASE /\ service = "sponsors" /\ SponsorsNext
            /\ UNCHANGED <<accountVars, adminVars, mailboxVars, voteVars, patchVars, documentVars,
                           communityVars, mirrorVars, imageVars, startVars>>
  BY <1>10 DEF OthersStay
<1>11. CASE /\ service = "images" /\ ImagesNext
            /\ UNCHANGED <<accountVars, adminVars, mailboxVars, voteVars, patchVars, documentVars,
                           communityVars, mirrorVars, sponsorVars, startVars>>
  BY <1>11 DEF OthersStay
<1>12. CASE /\ service = "startup" /\ StartupNext
            /\ UNCHANGED <<accountVars, adminVars, mailboxVars, voteVars, patchVars, documentVars,
                           communityVars, mirrorVars, sponsorVars, imageVars>>
  BY <1>12 DEF OthersStay
<1> QED
  BY <1>1, <1>2, <1>3, <1>4, <1>5, <1>6, <1>7, <1>8, <1>9, <1>10, <1>11, <1>12 DEF Next, Done

LEMMA AllKept == AllInv /\ [Next \/ Done]_vars => AllInv' /\ service' = service
<1> SUFFICES ASSUME AllInv, [Next \/ Done]_vars
             PROVE  AllInv' /\ service' = service
  OBVIOUS
<1>1. ASSUME service = "accounts", [AccountsNext]_<<handlers, accountVars>>, OthersStay("accounts")
      PROVE  AllInv' /\ service' = "accounts"
  <2>1. AccountsInv'
    BY <1>1, AccountsKept DEF AllInv
  <2>2. service' = "accounts" /\ AccountsTypeOK'
    BY <2>1 DEF AccountsInv
  <2>3. (service \in Services /\ begun \in 0 .. MaxRequests /\ faults \in 0 .. MaxFaults)'
    BY <2>2 DEF AccountsTypeOK, HandlersIn
  <2> QED
    BY <1>1, <2>1, <2>2, <2>3, Idle DEF AllInv, OthersStay
<1>2. ASSUME service = "administration", [AdministrationNext]_<<handlers, adminVars>>, OthersStay("administration")
      PROVE  AllInv' /\ service' = "administration"
  <2>1. AdministrationInv'
    BY <1>2, AdministrationKept DEF AllInv
  <2>2. service' = "administration" /\ AdministrationTypeOK'
    BY <2>1 DEF AdministrationInv
  <2>3. (service \in Services /\ begun \in 0 .. MaxRequests /\ faults \in 0 .. MaxFaults)'
    BY <2>2 DEF AdministrationTypeOK, HandlersIn
  <2> QED
    BY <1>2, <2>1, <2>2, <2>3, Idle DEF AllInv, OthersStay
<1>3. ASSUME service = "mailboxes", [MailboxesNext]_<<handlers, mailboxVars>>, OthersStay("mailboxes")
      PROVE  AllInv' /\ service' = "mailboxes"
  <2>1. MailboxInv'
    BY <1>3, MailboxesKept DEF AllInv
  <2>2. service' = "mailboxes" /\ MailboxesTypeOK'
    BY <2>1 DEF MailboxInv
  <2>3. (service \in Services /\ begun \in 0 .. MaxRequests /\ faults \in 0 .. MaxFaults)'
    BY <2>2 DEF MailboxesTypeOK, HandlersIn
  <2> QED
    BY <1>3, <2>1, <2>2, <2>3, Idle DEF AllInv, OthersStay
<1>4. ASSUME service = "votes", [VotesNext]_<<handlers, voteVars>>, OthersStay("votes")
      PROVE  AllInv' /\ service' = "votes"
  <2>1. VotesInv'
    BY <1>4, VotesKept DEF AllInv
  <2>2. service' = "votes" /\ VotesTypeOK'
    BY <2>1 DEF VotesInv
  <2>3. (service \in Services /\ begun \in 0 .. MaxRequests /\ faults \in 0 .. MaxFaults)'
    BY <2>2 DEF VotesTypeOK, HandlersIn
  <2> QED
    BY <1>4, <2>1, <2>2, <2>3, Idle DEF AllInv, OthersStay
<1>5. ASSUME service = "patches", [PatchesNext]_<<handlers, patchVars>>, OthersStay("patches")
      PROVE  AllInv' /\ service' = "patches"
  <2>1. PatchesInv'
    BY <1>5, PatchesKept DEF AllInv
  <2>2. service' = "patches" /\ PatchesTypeOK'
    BY <2>1 DEF PatchesInv
  <2>3. (service \in Services /\ begun \in 0 .. MaxRequests /\ faults \in 0 .. MaxFaults)'
    BY <2>2 DEF PatchesTypeOK, HandlersIn
  <2> QED
    BY <1>5, <2>1, <2>2, <2>3, Idle DEF AllInv, OthersStay
<1>6. ASSUME service = "documents", [DocumentsNext]_<<handlers, documentVars>>, OthersStay("documents")
      PROVE  AllInv' /\ service' = "documents"
  <2>1. DocumentsInv'
    BY <1>6, DocumentsKept DEF AllInv
  <2>2. service' = "documents" /\ DocumentsTypeOK'
    BY <2>1 DEF DocumentsInv
  <2>3. (service \in Services /\ begun \in 0 .. MaxRequests /\ faults \in 0 .. MaxFaults)'
    BY <2>2 DEF DocumentsTypeOK, HandlersIn
  <2> QED
    BY <1>6, <2>1, <2>2, <2>3, Idle DEF AllInv, OthersStay
<1>7. ASSUME service = "community", [CommunityNext]_<<handlers, communityVars>>, OthersStay("community")
      PROVE  AllInv' /\ service' = "community"
  <2>1. CommunityInv'
    BY <1>7, CommunityKept DEF AllInv
  <2>2. service' = "community" /\ CommunityTypeOK'
    BY <2>1 DEF CommunityInv
  <2>3. (service \in Services /\ begun \in 0 .. MaxRequests /\ faults \in 0 .. MaxFaults)'
    BY <2>2 DEF CommunityTypeOK, HandlersIn
  <2> QED
    BY <1>7, <2>1, <2>2, <2>3, Idle DEF AllInv, OthersStay
<1>8. ASSUME service = "mirrors", [MirrorsNext]_<<handlers, mirrorVars>>, OthersStay("mirrors")
      PROVE  AllInv' /\ service' = "mirrors"
  <2>1. MirrorsInv'
    BY <1>8, MirrorsKept DEF AllInv
  <2>2. service' = "mirrors" /\ MirrorsTypeOK'
    BY <2>1 DEF MirrorsInv
  <2>3. (service \in Services /\ begun \in 0 .. MaxRequests /\ faults \in 0 .. MaxFaults)'
    BY <2>2 DEF MirrorsTypeOK, HandlersIn
  <2> QED
    BY <1>8, <2>1, <2>2, <2>3, Idle DEF AllInv, OthersStay
<1>9. ASSUME service = "sponsors", [SponsorsNext]_<<handlers, sponsorVars>>, OthersStay("sponsors")
      PROVE  AllInv' /\ service' = "sponsors"
  <2>1. SponsorsInv'
    BY <1>9, SponsorsKept DEF AllInv
  <2>2. service' = "sponsors" /\ SponsorsTypeOK'
    BY <2>1 DEF SponsorsInv
  <2>3. (service \in Services /\ begun \in 0 .. MaxRequests /\ faults \in 0 .. MaxFaults)'
    BY <2>2 DEF SponsorsTypeOK, HandlersIn
  <2> QED
    BY <1>9, <2>1, <2>2, <2>3, Idle DEF AllInv, OthersStay
<1>10. ASSUME service = "images", [ImagesNext]_<<handlers, imageVars>>, OthersStay("images")
      PROVE  AllInv' /\ service' = "images"
  <2>1. ImagesInv'
    BY <1>10, ImagesKept DEF AllInv
  <2>2. service' = "images" /\ ImagesTypeOK'
    BY <2>1 DEF ImagesInv
  <2>3. (service \in Services /\ begun \in 0 .. MaxRequests /\ faults \in 0 .. MaxFaults)'
    BY <2>2 DEF ImagesTypeOK, HandlersIn
  <2> QED
    BY <1>10, <2>1, <2>2, <2>3, Idle DEF AllInv, OthersStay
<1>11. ASSUME service = "startup", [StartupNext]_<<handlers, startVars>>, OthersStay("startup")
      PROVE  AllInv' /\ service' = "startup"
  <2>1. StartupInv'
    BY <1>11, StartupKept DEF AllInv
  <2>2. service' = "startup" /\ StartupTypeOK'
    BY <2>1 DEF StartupInv
  <2>3. (service \in Services /\ begun \in 0 .. MaxRequests /\ faults \in 0 .. MaxFaults)'
    BY <2>2 DEF StartupTypeOK, HandlersIn
  <2> QED
    BY <1>11, <2>1, <2>2, <2>3, Idle DEF AllInv, OthersStay
<1>12. CASE UNCHANGED <<handlers, accountVars, adminVars, mailboxVars, voteVars, patchVars, documentVars,
                       communityVars, mirrorVars, sponsorVars, imageVars, startVars>>
  <2>1. \A at \in Modelled : OthersStay(at)
    BY <1>12 DEF OthersStay
  <2>2. CASE service \in Modelled
    BY <1>1, <1>2, <1>3, <1>4, <1>5, <1>6, <1>7, <1>8, <1>9, <1>10, <1>11, <1>12, <2>1, <2>2 DEF Modelled
  <2>3. CASE service \notin Modelled
    <3>1. UNCHANGED <<service, begun, faults>>
      BY <1>12 DEF handlers
    <3> QED
      BY <1>12, <2>3, <3>1, Idle DEF AllInv, Modelled
  <2> QED
    BY <2>2, <2>3
<1> QED
  BY <1>1, <1>2, <1>3, <1>4, <1>5, <1>6, <1>7, <1>8, <1>9, <1>10, <1>11, <1>12, OneWorks

\* A service that is not at work, with none of its handlers: its variables have their types,
\* and what it promises of its states holds of what it is at first.
Resting(at, CallsOf) == HandlersIn(at, CallsOf) /\ Of(at) = {}

LEMMA NoneAtWork ==
  ASSUME service \in Services, begun \in 0 .. MaxRequests, faults \in 0 .. MaxFaults,
         NEW at, service # at, NEW CallsOf
  PROVE  Resting(at, CallsOf)
BY DEF Resting, HandlersIn, Of

LEMMA RestingAccounts ==
  Resting("accounts", AccountCalls) /\ AccountsInit =>
    AccountsTypeOK /\ IndexExact /\ MailReaches /\ LinksLead
<1> SUFFICES ASSUME Resting("accounts", AccountCalls), AccountsInit
             PROVE  AccountsTypeOK /\ IndexExact /\ MailReaches /\ LinksLead
  OBVIOUS
<1> USE AccountsFirst
<1>1. AccountsTypeOK
  BY DEF Resting, AccountsTypeOK, AccountRecords
<1>2. None \notin Accounts
  BY AccountsAssumption
<1>3. MailReaches
  BY DEF MailReaches, IndexExact
<1>4. LinksLead
  BY <1>2 DEF LinksLead, Resolve
<1> QED
  BY <1>1, <1>3, <1>4

LEMMA RestingAdministration ==
  Resting("administration", AdminCalls) /\ AdministrationInit => AdministrationTypeOK /\ AdministrationPromise
BY AdministrationAssumption
DEF Resting, AdministrationInit, AdministrationTypeOK, AdministrationPromise, OwnerRemains, SuspendedSignedOut,
    People, Roles

LEMMA RestingMailboxes ==
  Resting("mailboxes", MailboxCalls) /\ MailboxesInit => MailboxesTypeOK /\ MailboxesPromise
<1> SUFFICES ASSUME Resting("mailboxes", MailboxCalls), MailboxesInit
             PROVE  MailboxesTypeOK /\ MailboxesPromise
  OBVIOUS
<1>1. /\ blob = {} /\ message = {} /\ thread = {} /\ overwritten = {} /\ opened = {} /\ ensured = FALSE
      /\ platformBox = None /\ addressed \in [Domain -> Ids \cup {None}]
      /\ entry \in [Ids -> Entry \cup {None}] /\ folder \in [Ids -> Folders] /\ flag \in [Ids -> BOOLEAN]
      /\ \A e \in Ids : entry[e] = None
  BY DEF MailboxesInit, Folders
<1>2. MailboxesTypeOK
  BY <1>1 DEF Resting, MailboxesTypeOK
<1>3. ListingsReadable
  <2>1. \A f \in Folders : FolderEntries(f) = {}
    BY <1>1 DEF FolderEntries
  <2>2. \A f \in Folders : FolderEntries(f) \in SUBSET Ids /\ MailboxItems(f) \in [FolderEntries(f) -> Entry]
    BY <2>1 DEF MailboxItems
  <2> QED
    BY <1>1, <2>2, MailboxesAssumption DEF ListingsReadable
<1>4. OnePlatformMailbox
  BY <1>1, FS_EmptySet DEF OnePlatformMailbox
<1> QED
  BY <1>1, <1>2, <1>3, <1>4 DEF MailboxesPromise, EditsKept, AddressesComplete

LEMMA RestingVotes ==
  Resting("votes", VoteCalls) /\ VotesInit => VotesTypeOK /\ VotesPromise
<1> SUFFICES ASSUME Resting("votes", VoteCalls), VotesInit
             PROVE  VotesTypeOK /\ VotesPromise
  OBVIOUS
<1>1. VotesTypeOK
  BY DEF Resting, VotesTypeOK, VotesInit, Values
<1>2. ScoresExact
  <2> SUFFICES ASSUME NEW t \in Targets
               PROVE  score[t] = Cardinality(VotersOf(t, 1)) - Cardinality(VotersOf(t, -1))
    BY DEF ScoresExact
  <2>1. VotersOf(t, 1) = {} /\ VotersOf(t, -1) = {}
    BY DEF VotersOf, VotesInit
  <2> QED
    BY <2>1, FS_EmptySet DEF VotesInit
<1> QED
  BY <1>1, <1>2 DEF VotesPromise, ViewsExact, VotesInit

LEMMA RestingPatches ==
  Resting("patches", PatchCalls) /\ PatchesInit => PatchesTypeOK /\ PatchesPromise
<1> SUFFICES ASSUME Resting("patches", PatchCalls), PatchesInit
             PROVE  PatchesTypeOK /\ PatchesPromise
  OBVIOUS
<1>1. log \in Seq(Mail) /\ Range(log) = {} /\ IsInjective(log) /\ DOMAIN log = {}
  BY DEF PatchesInit, Range, IsInjective
<1>2. {} = 1 .. 0 /\ 0 \in 0 .. MaxRequests
  BY HandlersAssumption
<1>3. PatchesTypeOK
  BY <1>1, <1>2 DEF Resting, PatchesTypeOK, PatchesInit
<1>4. LogComplete
  BY <1>1 DEF LogComplete, PatchesInit
<1> QED
  BY <1>3, <1>4, SeriesAreWhole DEF PatchesPromise

LEMMA RestingDocuments ==
  Resting("documents", DocumentCalls) /\ DocumentsInit => DocumentsTypeOK /\ CatalogueReadable /\ ReleaseServed
BY DocumentsAssumption
DEF Resting, DocumentsInit, DocumentsTypeOK, CatalogueReadable, Summaries, ReleaseServed

LEMMA RestingCommunity ==
  Resting("community", CommunityCalls) /\ CommunityInit => CommunityTypeOK /\ CommunityPromise
<1> SUFFICES ASSUME Resting("community", CommunityCalls), CommunityInit
             PROVE  CommunityTypeOK /\ CommunityPromise
  OBVIOUS
<1>1. CommunityTypeOK
  BY DEF Resting, CommunityInit, CommunityTypeOK
<1>2. RepliesBelong
  BY DEF CommunityInit, RepliesBelong
<1>3. QueryThreads # None
  <2>1. posts = {} /\ {} \in SUBSET LetterIds
    BY DEF CommunityInit
  <2>2. QueryThreads = [t \in {} |-> SummaryOf(t)]
    BY <2>1 DEF QueryThreads
  <2>3. QueryThreads \in [{} -> [id : LetterIds, author : Participants, replyCount : Nat]]
    BY <2>2
  <2> QED
    BY <2>1, <2>3, CommunityAssumption
<1>4. PostsWhole
  BY <1>3 DEF CommunityInit, PostsWhole, CleanupMailboxProjections
<1>5. SubscribersTold
  BY DEF CommunityInit, SubscribersTold
<1> QED
  BY <1>1, <1>2, <1>4, <1>5 DEF CommunityPromise

LEMMA RestingMirrors ==
  Resting("mirrors", MirrorCalls) /\ MirrorsInit => MirrorsTypeOK /\ RecordBacked /\ PagesPinned
<1> SUFFICES ASSUME Resting("mirrors", MirrorCalls), MirrorsInit
             PROVE  MirrorsTypeOK /\ RecordBacked /\ PagesPinned
  OBVIOUS
<1>1. Pending \in Record /\ Pending.head = None /\ Pending.status # "ready" /\ 0 \in Commits
  BY MirrorsAssumption DEF Pending, Record, Commits
<1> QED
  BY <1>1 DEF Resting, MirrorsInit, MirrorsTypeOK, RecordBacked, PagesPinned

LEMMA RestingSponsors ==
  Resting("sponsors", SponsorCalls) /\ SponsorsInit => SponsorsTypeOK /\ SponsorsFresh /\ ThankedOnce
<1> SUFFICES ASSUME Resting("sponsors", SponsorCalls), SponsorsInit
             PROVE  SponsorsTypeOK /\ SponsorsFresh /\ ThankedOnce
  OBVIOUS
<1>1. hour \in Times /\ known \in BOOLEAN
  <2>1. hour = 0 /\ known = FALSE
    BY DEF SponsorsInit
  <2>2. 0 \in Times
    BY SponsorsAssumption DEF Times
  <2> QED
    BY <2>1, <2>2
<1>2. {p \in Of("sponsors") : req[p].at # "lock"} = {mutex} \ {None}
  BY DEF Resting, SponsorsInit
<1> QED
  BY <1>1, <1>2 DEF Resting, SponsorsInit, SponsorsTypeOK, SponsorsFresh, ThankedOnce

LEMMA RestingImages ==
  Resting("images", ImageCalls) /\ ImagesInit => ImagesTypeOK /\ ImagesPromise
<1> SUFFICES ASSUME Resting("images", ImageCalls), ImagesInit
             PROVE  ImagesTypeOK /\ ImagesPromise
  OBVIOUS
<1>1. Converting = {} /\ Cardinality({}) = 0
  BY FS_EmptySet DEF Resting, Converting
<1>2. ImagesTypeOK
  BY ImagesAssumption DEF Resting, ImagesInit, ImagesTypeOK
<1> QED
  BY <1>1, <1>2 DEF ImagesInit, ImagesPromise, PlacesReturned, ServedWhole, Served

LEMMA RestingStartup ==
  Resting("startup", StartCalls) /\ StartupInit =>
    StartupTypeOK /\ StartedWhole /\ NothingLeft /\ RefusedForCause
<1> SUFFICES ASSUME Resting("startup", StartCalls), StartupInit
             PROVE  StartupTypeOK /\ StartedWhole /\ NothingLeft /\ RefusedForCause
  OBVIOUS
<1> USE StartupFirst
<1>1. StartupTypeOK
  BY DEF Resting, StartupTypeOK, StartRecords
<1>2. NothingLeft
  BY StartIds DEF NothingLeft, Remains
<1> QED
  BY <1>1, <1>2

\* The promises about states.
StatesPromise ==
  /\ IndexExact /\ MailReaches /\ LinksLead
  /\ AdministrationPromise
  /\ MailboxesPromise
  /\ VotesPromise
  /\ PatchesPromise
  /\ CatalogueReadable /\ ReleaseServed
  /\ CommunityPromise
  /\ RecordBacked /\ PagesPinned
  /\ SponsorsFresh /\ ThankedOnce
  /\ ImagesPromise
  /\ StartedWhole /\ NothingLeft /\ RefusedForCause

\* What a service's invariant says of its states is what it promises of them.
LEMMA InvsPromise ==
  /\ AccountsInv => IndexExact /\ MailReaches /\ LinksLead
  /\ AdministrationInv => AdministrationPromise
  /\ MailboxInv => MailboxesPromise
  /\ VotesInv => VotesPromise
  /\ PatchesInv => PatchesPromise
  /\ DocumentsInv => CatalogueReadable /\ ReleaseServed
  /\ CommunityInv => CommunityPromise
  /\ MirrorsInv => RecordBacked /\ PagesPinned
  /\ SponsorsInv => SponsorsFresh /\ ThankedOnce
  /\ ImagesInv => ImagesPromise
  /\ StartupInv => StartedWhole /\ NothingLeft /\ RefusedForCause
<1>1. AccountsInv => IndexExact /\ MailReaches /\ LinksLead
  BY AccountsAgree
<1>2. AdministrationInv => AdministrationPromise
  BY DEF AdministrationInv
<1>3. MailboxInv => MailboxesPromise
  BY MailboxesAgree
<1>4. VotesInv => VotesPromise
  BY DEF VotesInv, VotesPromise
<1>5. PatchesInv => PatchesPromise
  BY SeriesAreWhole DEF PatchesInv, PatchesPromise
<1>6. DocumentsInv => CatalogueReadable /\ ReleaseServed
  BY ServedReleases
<1>7. CommunityInv => CommunityPromise
  BY CommunityAgrees
<1>8. MirrorsInv => RecordBacked /\ PagesPinned
  BY DEF MirrorsInv, Backed, RecordBacked
<1>9. SponsorsInv => SponsorsFresh /\ ThankedOnce
  BY DEF SponsorsInv
<1>10. ImagesInv => ImagesPromise
  BY DEF ImagesInv
<1>11. StartupInv => StartedWhole /\ NothingLeft /\ RefusedForCause
  BY StartupAgrees
<1> QED
  BY <1>1, <1>2, <1>3, <1>4, <1>5, <1>6, <1>7, <1>8, <1>9, <1>10, <1>11

\* Every variable has its type, and every promise about states holds, whichever service is at
\* work.
LEMMA AllSafe == AllInv => TypeOK /\ StatesPromise
<1> SUFFICES ASSUME AllInv
             PROVE  TypeOK /\ StatesPromise
  OBVIOUS
<1>1. service \in Services /\ begun \in 0 .. MaxRequests /\ faults \in 0 .. MaxFaults
  BY DEF AllInv
<1>2. AccountsTypeOK /\ IndexExact /\ MailReaches /\ LinksLead
  <2>1. CASE service = "accounts"
    BY <2>1, InvsTyped, InvsPromise DEF AllInv
  <2>2. CASE service # "accounts"
    <3>1. Resting("accounts", AccountCalls)
      BY <1>1, <2>2, NoneAtWork
    <3> QED
      BY <2>2, <3>1, RestingAccounts DEF AllInv
  <2> QED
    BY <2>1, <2>2
<1>3. AdministrationTypeOK /\ AdministrationPromise
  <2>1. CASE service = "administration"
    BY <2>1, InvsTyped, InvsPromise DEF AllInv
  <2>2. CASE service # "administration"
    <3>1. Resting("administration", AdminCalls)
      BY <1>1, <2>2, NoneAtWork
    <3> QED
      BY <2>2, <3>1, RestingAdministration DEF AllInv
  <2> QED
    BY <2>1, <2>2
<1>4. MailboxesTypeOK /\ MailboxesPromise
  <2>1. CASE service = "mailboxes"
    BY <2>1, InvsTyped, InvsPromise DEF AllInv
  <2>2. CASE service # "mailboxes"
    <3>1. Resting("mailboxes", MailboxCalls)
      BY <1>1, <2>2, NoneAtWork
    <3> QED
      BY <2>2, <3>1, RestingMailboxes DEF AllInv
  <2> QED
    BY <2>1, <2>2
<1>5. VotesTypeOK /\ VotesPromise
  <2>1. CASE service = "votes"
    BY <2>1, InvsTyped, InvsPromise DEF AllInv
  <2>2. CASE service # "votes"
    <3>1. Resting("votes", VoteCalls)
      BY <1>1, <2>2, NoneAtWork
    <3> QED
      BY <2>2, <3>1, RestingVotes DEF AllInv
  <2> QED
    BY <2>1, <2>2
<1>6. PatchesTypeOK /\ PatchesPromise
  <2>1. CASE service = "patches"
    BY <2>1, InvsTyped, InvsPromise DEF AllInv
  <2>2. CASE service # "patches"
    <3>1. Resting("patches", PatchCalls)
      BY <1>1, <2>2, NoneAtWork
    <3> QED
      BY <2>2, <3>1, RestingPatches DEF AllInv
  <2> QED
    BY <2>1, <2>2
<1>7. DocumentsTypeOK /\ CatalogueReadable /\ ReleaseServed
  <2>1. CASE service = "documents"
    BY <2>1, InvsTyped, InvsPromise DEF AllInv
  <2>2. CASE service # "documents"
    <3>1. Resting("documents", DocumentCalls)
      BY <1>1, <2>2, NoneAtWork
    <3> QED
      BY <2>2, <3>1, RestingDocuments DEF AllInv
  <2> QED
    BY <2>1, <2>2
<1>8. CommunityTypeOK /\ CommunityPromise
  <2>1. CASE service = "community"
    BY <2>1, InvsTyped, InvsPromise DEF AllInv
  <2>2. CASE service # "community"
    <3>1. Resting("community", CommunityCalls)
      BY <1>1, <2>2, NoneAtWork
    <3> QED
      BY <2>2, <3>1, RestingCommunity DEF AllInv
  <2> QED
    BY <2>1, <2>2
<1>9. MirrorsTypeOK /\ RecordBacked /\ PagesPinned
  <2>1. CASE service = "mirrors"
    BY <2>1, InvsTyped, InvsPromise DEF AllInv
  <2>2. CASE service # "mirrors"
    <3>1. Resting("mirrors", MirrorCalls)
      BY <1>1, <2>2, NoneAtWork
    <3> QED
      BY <2>2, <3>1, RestingMirrors DEF AllInv
  <2> QED
    BY <2>1, <2>2
<1>10. SponsorsTypeOK /\ SponsorsFresh /\ ThankedOnce
  <2>1. CASE service = "sponsors"
    BY <2>1, InvsTyped, InvsPromise DEF AllInv
  <2>2. CASE service # "sponsors"
    <3>1. Resting("sponsors", SponsorCalls)
      BY <1>1, <2>2, NoneAtWork
    <3> QED
      BY <2>2, <3>1, RestingSponsors DEF AllInv
  <2> QED
    BY <2>1, <2>2
<1>11. ImagesTypeOK /\ ImagesPromise
  <2>1. CASE service = "images"
    BY <2>1, InvsTyped, InvsPromise DEF AllInv
  <2>2. CASE service # "images"
    <3>1. Resting("images", ImageCalls)
      BY <1>1, <2>2, NoneAtWork
    <3> QED
      BY <2>2, <3>1, RestingImages DEF AllInv
  <2> QED
    BY <2>1, <2>2
<1>12. StartupTypeOK /\ StartedWhole /\ NothingLeft /\ RefusedForCause
  <2>1. CASE service = "startup"
    BY <2>1, InvsTyped, InvsPromise DEF AllInv
  <2>2. CASE service # "startup"
    <3>1. Resting("startup", StartCalls)
      BY <1>1, <2>2, NoneAtWork
    <3> QED
      BY <2>2, <3>1, RestingStartup DEF AllInv
  <2> QED
    BY <2>1, <2>2
<1> QED
  BY <1>2, <1>3, <1>4, <1>5, <1>6, <1>7, <1>8, <1>9, <1>10, <1>11, <1>12 DEF TypeOK, StatesPromise

\* A step is one of the service at work, or leaves its variables as they are.
LEMMA OneAtWork ==
  ASSUME AllInv, [Next \/ Done]_vars
  PROVE  /\ (AccountsInv /\ [AccountsNext]_<<handlers, accountVars>>) \/ UNCHANGED accountVars
         /\ (DocumentsInv /\ [DocumentsNext]_<<handlers, documentVars>>) \/ UNCHANGED documentVars
         /\ (MirrorsInv /\ [MirrorsNext]_<<handlers, mirrorVars>>) \/ UNCHANGED mirrorVars
         /\ (SponsorsInv /\ [SponsorsNext]_<<handlers, sponsorVars>>) \/ UNCHANGED sponsorVars
         /\ (StartupInv /\ [StartupNext]_<<handlers, startVars>>) \/ UNCHANGED startVars
BY OneWorks DEF AllInv, OthersStay

\* The promises about steps.
LEMMA AllSteps ==
  AllInv /\ [Next \/ Done]_vars =>
    /\ [\A a \in Accounts :
          object[a] # None /\ object'[a] # None /\ object'[a].status # object[a].status =>
            \/ \E p \in Requests : At(p, "commit") /\ req[p].op = "status" /\ req'[p] = None
            \/ a \in disturbed']_<<handlers, accountVars>>
    /\ [\A r \in markers \ misread : touched' = r => touched = r]_documentVars
    /\ [\A i \in Repositories :
          saved[i].head # None => saved'[i].head # None /\ saved'[i].head >= saved[i].head]_mirrorVars
    /\ [cache' \notin {cache, None} => expires = None \/ expires <= cache'.refreshed]_sponsorVars
    /\ [Ended("served") /\ last.config = "admin" =>
          founder' = founder /\ owners \subseteq owners' /\ factored \subseteq factored']_<<handlers, startVars>>
<1> SUFFICES ASSUME AllInv, [Next \/ Done]_vars
             PROVE  /\ [\A a \in Accounts :
                          object[a] # None /\ object'[a] # None /\ object'[a].status # object[a].status =>
                            \/ \E p \in Requests : At(p, "commit") /\ req[p].op = "status" /\ req'[p] = None
                            \/ a \in disturbed']_<<handlers, accountVars>>
                    /\ [\A r \in markers \ misread : touched' = r => touched = r]_documentVars
                    /\ [\A i \in Repositories :
                          saved[i].head # None => saved'[i].head # None /\ saved'[i].head >= saved[i].head]_mirrorVars
                    /\ [cache' \notin {cache, None} => expires = None \/ expires <= cache'.refreshed]_sponsorVars
                    /\ [Ended("served") /\ last.config = "admin" =>
                          /\ founder' = founder
                          /\ owners \subseteq owners' /\ factored \subseteq factored']_<<handlers, startVars>>
  OBVIOUS
<1>1. [\A a \in Accounts :
         object[a] # None /\ object'[a] # None /\ object'[a].status # object[a].status =>
           \/ \E p \in Requests : At(p, "commit") /\ req[p].op = "status" /\ req'[p] = None
           \/ a \in disturbed']_<<handlers, accountVars>>
  <2>1. UNCHANGED accountVars => object' = object
    BY DEF accountVars, stored
  <2> QED
    BY <2>1, OneAtWork, StatusSteps
<1>2. [\A r \in markers \ misread : touched' = r => touched = r]_documentVars
  BY OneAtWork, WritesWanted
<1>3. [\A i \in Repositories :
         saved[i].head # None => saved'[i].head # None /\ saved'[i].head >= saved[i].head]_mirrorVars
  BY OneAtWork, HeadsKept
<1>4. [cache' \notin {cache, None} => expires = None \/ expires <= cache'.refreshed]_sponsorVars
  BY OneAtWork, FetchesHourly
<1>5. [Ended("served") /\ last.config = "admin" =>
         founder' = founder /\ owners \subseteq owners' /\ factored \subseteq factored']_<<handlers, startVars>>
  <2>1. UNCHANGED startVars => founder' = founder /\ owners' = owners /\ factored' = factored
    BY DEF startVars, admin
  <2> QED
    BY <2>1, OneAtWork, FounderKept
<1> QED
  BY <1>1, <1>2, <1>3, <1>4, <1>5

\* In every behaviour that the run explores every variable has its type, and the service at
\* work keeps its promise, whatever its requests, the faults and the crashes.
THEOREM AccountServicesKeepTheirPromises ==
  Spec =>
    /\ []TypeOK
    /\ AccountsPromise /\ OwnersPromise /\ []MailboxesPromise /\ []VotesPromise /\ []PatchesPromise
    /\ DocumentsPromise /\ []CommunityPromise /\ MirrorsPromise /\ SponsorsPromise /\ []ImagesPromise
<1>1. Spec => []AllInv
  BY AllStart, AllKept, PTL DEF Spec
<1>2. Spec => []TypeOK /\ []StatesPromise
  BY <1>1, AllSafe, PTL
<1>3. StatesPromise =>
        /\ IndexExact /\ MailReaches /\ LinksLead
        /\ AdministrationPromise /\ MailboxesPromise /\ VotesPromise /\ PatchesPromise
        /\ CatalogueReadable /\ ReleaseServed
        /\ CommunityPromise /\ RecordBacked /\ PagesPinned /\ SponsorsFresh /\ ThankedOnce /\ ImagesPromise
        /\ StartedWhole /\ NothingLeft /\ RefusedForCause
  BY DEF StatesPromise
<1>4. Spec => /\ [](IndexExact /\ MailReaches /\ LinksLead)
              /\ []AdministrationPromise /\ []MailboxesPromise /\ []VotesPromise /\ []PatchesPromise
              /\ [](CatalogueReadable /\ ReleaseServed)
              /\ []CommunityPromise /\ [](RecordBacked /\ PagesPinned) /\ [](SponsorsFresh /\ ThankedOnce)
              /\ []ImagesPromise /\ [](StartedWhole /\ NothingLeft /\ RefusedForCause)
  BY <1>2, <1>3, PTL
<1>5. Spec => StatusStands
  BY <1>1, AllSteps, PTL DEF Spec, StatusStands
<1>6. Spec => ImportedOnce
  BY <1>1, AllSteps, PTL DEF Spec, ImportedOnce
<1>7. Spec => HeadsForward
  BY <1>1, AllSteps, PTL DEF Spec, HeadsForward
<1>8. Spec => FetchedHourly
  BY <1>1, AllSteps, PTL DEF Spec, FetchedHourly
<1>9. Spec => FounderStays
  BY <1>1, AllSteps, PTL DEF Spec, FounderStays
<1> QED
  BY <1>2, <1>4, <1>5, <1>6, <1>7, <1>8, <1>9
  DEF AccountsPromise, OwnersPromise, StartupPromise, DocumentsPromise, MirrorsPromise, SponsorsPromise

=============================================================================
