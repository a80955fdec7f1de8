----------------------- MODULE ContentServices_proofs -----------------------
(***************************************************************************)
(* Proofs about the services of MCContentServices: first about each of     *)
(* them, with a specification of its own, since a behaviour handles the    *)
(* requests of one service; then about the specification that the run      *)
(* checks, in which any of them is at work.                                *)
(***************************************************************************)
EXTENDS Handlers_proofs, MCContentServices

-----------------------------------------------------------------------------
(* RFCs.                                                                   *)

ProposalsSpec ==
  HandlersInit /\ service = "proposals" /\ ProposalsInit /\ [][ProposalsNext]_<<handlers, proposalVars>>

\* Creations that have not taken their number yet.
Creating == {p \in InFlight : req[p].at \in {"number", "commit"}}

\* Every number that was or may be taken is one request's.
NumbersSuffice == IsFiniteSet(Creating) /\ sequence + Cardinality(Creating) <= begun

\* What handler p read before its next call.
ProposalRead(p) ==
  LET c == req[p] IN
  /\ c.at = "commit" => c.number \in Numbers
  /\ c.at = "storeNew" => c.number \in 1 .. sequence /\ proposal[c.number] = None
  /\ c.at = "store" =>
       /\ proposal[c.number] # None /\ c.copy # None
       /\ c.copy.creation = proposal[c.number].creation
       /\ c.text # None => c.copy.status = "draft"

NumbersApart ==
  \A p, q \in InFlight :
    req[p].at = "storeNew" /\ req[q].at = "storeNew" /\ req[p].number = req[q].number => p = q

\* A number is given out before its proposal is stored, and decided on after that.
NumbersCounted ==
  \A n \in Numbers : IF proposal[n] = None THEN decided[n] = "draft" ELSE n <= sequence

ProposalsInv ==
  /\ service = "proposals" /\ ProposalsTypeOK
  /\ NumbersSuffice /\ NumbersApart /\ NumbersCounted /\ DecisionsStand
  /\ \A p \in InFlight : ProposalRead(p)

NumberCalls ==
  [at : {"number", "commit", "storeNew"}, actor : Authors, creation : Numbers, number : 0 .. MaxRequests]
TextCalls ==
  [at : {"load", "store"}, actor : Authors, number : Numbers, text : Numbers, status : {None},
   copy : Proposal \cup {None}]
StatusCalls ==
  [at : {"load", "store"}, actor : Authors, number : Numbers, text : {None}, status : Statuses,
   copy : Proposal \cup {None}]
RemarkCalls == [at : {"loadDiscussed", "storeRemark"}, number : Numbers, remark : Numbers]

LEMMA ProposalKinds ==
  ASSUME NEW c \in ProposalCalls
  PROVE  /\ c.at \in {"number", "commit", "storeNew"} => c \in NumberCalls
         /\ c.at \in {"load", "store"} => c \in TextCalls \cup StatusCalls
         /\ c.at \in {"loadDiscussed", "storeRemark"} => c \in RemarkCalls
         /\ c.at \in {"number", "commit", "storeNew", "load", "store", "loadDiscussed", "storeRemark", "audit"}
BY DEF ProposalCalls, NumberCalls, TextCalls, StatusCalls, RemarkCalls

LEMMA ProposalForms ==
  /\ NumberCalls \subseteq ProposalCalls /\ TextCalls \subseteq ProposalCalls
  /\ StatusCalls \subseteq ProposalCalls /\ RemarkCalls \subseteq ProposalCalls
  /\ [at |-> "audit"] \in ProposalCalls
BY DEF ProposalCalls, NumberCalls, TextCalls, StatusCalls, RemarkCalls

LEMMA ProposalHandlers ==
  ASSUME ProposalsInv
  PROVE  /\ Handling("proposals", ProposalCalls) /\ None \notin ProposalCalls
         /\ begun \in 0 .. MaxRequests /\ MaxRequests \in Nat
         /\ \A p \in InFlight : p \in Requests /\ req[p] \in ProposalCalls
         /\ sequence \in 0 .. MaxRequests
         /\ proposal \in [Numbers -> Proposal \cup {None}]
         /\ decided \in [Numbers -> Statuses]
         /\ written \in [Numbers -> Numbers \cup {None}]
         /\ remarks \in [Numbers -> SUBSET Numbers]
         /\ crossed \subseteq Numbers
<1>1. Handling("proposals", ProposalCalls)
  BY DEF ProposalsInv, ProposalsTypeOK, Handling
<1> QED
  BY <1>1, HandledCalls, ProposalsAssumption, HandlersAssumption DEF ProposalsInv, ProposalsTypeOK

\* Where nothing is stored, only the handlers have changed.
ProposalsStored == NumbersCounted /\ DecisionsStand

LEMMA ProposalsUntouched ==
  ASSUME ProposalsInv, UNCHANGED <<sequence, proposal, decided, written, crossed>>,
         remarks' \in [Numbers -> SUBSET Numbers], Handling("proposals", ProposalCalls)'
  PROVE  /\ service' = "proposals" /\ ProposalsTypeOK' /\ NumbersCounted' /\ DecisionsStand'
         /\ \A q \in InFlight : q \in InFlight' /\ req'[q] = req[q] => ProposalRead(q)'
<1>1. service' = "proposals" /\ ProposalsTypeOK'
  BY ProposalHandlers DEF ProposalsTypeOK, Handling
<1>2. NumbersCounted' /\ DecisionsStand'
  BY DEF ProposalsInv, NumbersCounted, DecisionsStand
<1>3. ASSUME NEW q \in InFlight, req'[q] = req[q]
      PROVE  ProposalRead(q)'
  BY <1>3 DEF ProposalsInv, ProposalRead
<1> QED
  BY <1>1, <1>2, <1>3

\* The creations without a number are as many as before, or one more, or one less.
LEMMA CreatingSame ==
  ASSUME ProposalsInv, Creating' = Creating, sequence' = sequence, begun' \in {begun, begun + 1}
  PROVE  NumbersSuffice'
<1>1. Cardinality(Creating) \in Nat
  BY FS_CardinalityType DEF ProposalsInv, NumbersSuffice
<1> QED
  BY <1>1, ProposalHandlers DEF ProposalsInv, NumbersSuffice

LEMMA CreatingMore ==
  ASSUME ProposalsInv, NEW p, p \notin Creating, Creating' = Creating \cup {p},
         sequence' = sequence, begun' = begun + 1
  PROVE  NumbersSuffice'
<1>1. IsFiniteSet(Creating \cup {p}) /\ Cardinality(Creating \cup {p}) = Cardinality(Creating) + 1
  BY FS_AddElement DEF ProposalsInv, NumbersSuffice
<1>2. Cardinality(Creating) \in Nat
  BY FS_CardinalityType DEF ProposalsInv, NumbersSuffice
<1> QED
  BY <1>1, <1>2, ProposalHandlers DEF ProposalsInv, NumbersSuffice

LEMMA CreatingLess ==
  ASSUME ProposalsInv, NEW p \in Creating, Creating' = Creating \ {p},
         sequence' \in {sequence, sequence + 1}, begun' = begun
  PROVE  NumbersSuffice'
<1>1. IsFiniteSet(Creating \ {p}) /\ Cardinality(Creating \ {p}) = Cardinality(Creating) - 1
  BY FS_RemoveElement DEF ProposalsInv, NumbersSuffice
<1>2. Cardinality(Creating) \in Nat
  BY FS_CardinalityType DEF ProposalsInv, NumbersSuffice
<1> QED
  BY <1>1, <1>2, ProposalHandlers DEF ProposalsInv, NumbersSuffice

LEMMA CreatingBounded ==
  ASSUME ProposalsInv, NEW p \in Creating
  PROVE  sequence + 1 \in Numbers /\ sequence + 1 \in 0 .. MaxRequests
<1>1. Cardinality(Creating) \in Nat /\ Cardinality(Creating) # 0
  BY FS_CardinalityType, FS_EmptySet DEF ProposalsInv, NumbersSuffice
<1> QED
  BY <1>1, ProposalHandlers DEF ProposalsInv, NumbersSuffice, Numbers

\* Handlers end and others start: what they read stands as nothing is stored.
LEMMA ProposalEnds ==
  ASSUME ProposalsInv, NEW p \in InFlight, Return(p) \/ Fault(p, None), UNCHANGED proposalVars
  PROVE  ProposalsInv'
<1> USE ProposalHandlers
<1>1. /\ Handling("proposals", ProposalCalls)' /\ begun' = begun
      /\ InFlight' = InFlight \ {p} /\ \A q \in Requests \ {p} : req'[q] = req[q]
  BY Ends
<1>2. /\ service' = "proposals" /\ ProposalsTypeOK' /\ NumbersCounted' /\ DecisionsStand'
      /\ \A q \in InFlight : q \in InFlight' /\ req'[q] = req[q] => ProposalRead(q)'
  BY <1>1, ProposalsUntouched DEF proposalVars
<1>3. NumbersSuffice'
  <2>1. CASE p \in Creating
    <3>1. Creating' = Creating \ {p}
      BY <1>1, <2>1 DEF Creating
    <3> QED
      BY <1>1, <2>1, <3>1, CreatingLess DEF proposalVars
  <2>2. CASE p \notin Creating
    <3>1. Creating' = Creating
      BY <1>1, <2>2 DEF Creating
    <3> QED
      BY <1>1, <3>1, CreatingSame DEF proposalVars
  <2> QED
    BY <2>1, <2>2
<1>4. NumbersApart'
  BY <1>1 DEF ProposalsInv, NumbersApart
<1> QED
  BY <1>1, <1>2, <1>3, <1>4 DEF ProposalsInv

\* A handler starts, or goes on, by a call that is of no creation.
LEMMA ProposalGoes ==
  ASSUME ProposalsInv, NEW p \in Requests, NEW c \in ProposalCalls, p \notin Creating,
         c.at \notin {"number", "commit", "storeNew"},
         Begin(p, c) \/ (p \in InFlight /\ Continue(p, c)),
         UNCHANGED <<sequence, proposal, decided, written, crossed>>,
         remarks' \in [Numbers -> SUBSET Numbers],
         c.at = "store" => /\ proposal[c.number] # None /\ c.copy # None
                           /\ c.copy.creation = proposal[c.number].creation
                           /\ c.text # None => c.copy.status = "draft"
  PROVE  ProposalsInv'
<1> USE ProposalHandlers
<1>1. /\ Handling("proposals", ProposalCalls)' /\ begun' \in {begun, begun + 1}
      /\ InFlight' = InFlight \cup {p} /\ req'[p] = c /\ \A q \in Requests \ {p} : req'[q] = req[q]
  <2>1. CASE Begin(p, c)
    BY <2>1, Begins
  <2>2. CASE p \in InFlight /\ Continue(p, c)
    BY <2>2, Goes
  <2> QED
    BY <2>1, <2>2
<1>2. /\ service' = "proposals" /\ ProposalsTypeOK' /\ NumbersCounted' /\ DecisionsStand'
      /\ \A q \in InFlight : q \in InFlight' /\ req'[q] = req[q] => ProposalRead(q)'
  BY <1>1, ProposalsUntouched
<1>3. Creating' = Creating
  BY <1>1 DEF Creating
<1>4. NumbersSuffice'
  BY <1>1, <1>3, CreatingSame
<1>5. NumbersApart'
  BY <1>1 DEF ProposalsInv, NumbersApart
<1>6. ProposalRead(p)'
  BY <1>1 DEF ProposalRead
<1>7. \A q \in InFlight' : ProposalRead(q)'
  BY <1>1, <1>2, <1>6
<1> QED
  BY <1>2, <1>4, <1>5, <1>7 DEF ProposalsInv

LEMMA ProposalsStart == HandlersInit /\ service = "proposals" /\ ProposalsInit => ProposalsInv
<1> SUFFICES ASSUME HandlersInit, service = "proposals", ProposalsInit
             PROVE  ProposalsInv
  OBVIOUS
<1>1. Handling("proposals", ProposalCalls) /\ begun = 0 /\ InFlight = {}
  BY Starts
<1>2. Creating = {} /\ IsFiniteSet(Creating) /\ Cardinality(Creating) = 0
  BY <1>1, FS_EmptySet DEF Creating
<1>3. ProposalsTypeOK
  BY <1>1, HandlersAssumption DEF ProposalsTypeOK, Handling, ProposalsInit, Statuses
<1> QED
  BY <1>1, <1>2, <1>3 DEF ProposalsInv, NumbersSuffice, NumbersApart, NumbersCounted, DecisionsStand, ProposalsInit

LEMMA ProposalsKept == ProposalsInv /\ [ProposalsNext]_<<handlers, proposalVars>> => ProposalsInv'
<1> SUFFICES ASSUME ProposalsInv, [ProposalsNext]_<<handlers, proposalVars>>
             PROVE  ProposalsInv'
  OBVIOUS
<1> USE ProposalHandlers
<1>1. ASSUME NEW p \in Requests, NEW a \in Authors, CreateProposal(p, a)
      PROVE  ProposalsInv'
  <2>1. PICK c : c = [at |-> "number", actor |-> a, creation |-> begun + 1, number |-> 0] /\ Begin(p, c)
    BY <1>1 DEF CreateProposal
  <2>2. c \in ProposalCalls /\ c.at = "number"
    <3>1. begun + 1 \in Numbers
      BY <2>1 DEF Begin, Numbers
    <3> QED
      BY <2>1, <3>1, ProposalForms DEF NumberCalls
  <2>3. /\ Handling("proposals", ProposalCalls)' /\ begun' = begun + 1
        /\ p \notin InFlight /\ InFlight' = InFlight \cup {p} /\ req'[p] = c
        /\ \A q \in Requests \ {p} : req'[q] = req[q]
    BY <2>1, <2>2, Begins
  <2>4. UNCHANGED proposalVars
    BY <1>1 DEF CreateProposal
  <2>5. p \notin Creating /\ Creating' = Creating \cup {p}
    BY <2>2, <2>3 DEF Creating
  <2>6. NumbersSuffice'
    BY <2>3, <2>4, <2>5, CreatingMore DEF proposalVars
  <2>7. /\ service' = "proposals" /\ ProposalsTypeOK' /\ NumbersCounted' /\ DecisionsStand'
        /\ \A q \in InFlight : q \in InFlight' /\ req'[q] = req[q] => ProposalRead(q)'
    BY <2>3, <2>4, ProposalsUntouched DEF proposalVars
  <2>8. NumbersApart'
    BY <2>2, <2>3 DEF ProposalsInv, NumbersApart
  <2>9. ProposalRead(p)'
    BY <2>2, <2>3 DEF ProposalRead
  <2> QED
    BY <2>3, <2>6, <2>7, <2>8, <2>9 DEF ProposalsInv
<1>2. ASSUME NEW p \in Requests, ReadNumber(p)
      PROVE  ProposalsInv'
  <2>1. p \in InFlight /\ req[p].at = "number" /\ req[p] \in NumberCalls /\ p \in Creating
    BY <1>2, ProposalKinds DEF ReadNumber, At, Creating
  <2>2. PICK c : c = [req[p] EXCEPT !.at = "commit", !.number = sequence + 1] /\ Continue(p, c)
    BY <1>2 DEF ReadNumber
  <2>3. sequence + 1 \in Numbers /\ sequence + 1 \in 0 .. MaxRequests
    BY <2>1, CreatingBounded
  <2>4. c \in NumberCalls /\ c.at = "commit" /\ c.number = sequence + 1
    BY <2>1, <2>2, <2>3 DEF NumberCalls
  <2>5. c \in ProposalCalls
    BY <2>4, ProposalForms
  <2>6. /\ Handling("proposals", ProposalCalls)' /\ begun' = begun
        /\ InFlight' = InFlight /\ req'[p] = c /\ \A q \in Requests \ {p} : req'[q] = req[q]
    BY <2>1, <2>2, <2>5, Goes
  <2>7. UNCHANGED proposalVars
    BY <1>2 DEF ReadNumber
  <2>8. Creating' = Creating
    BY <2>1, <2>4, <2>6 DEF Creating
  <2>9. NumbersSuffice'
    BY <2>6, <2>7, <2>8, CreatingSame DEF proposalVars
  <2>10. /\ service' = "proposals" /\ ProposalsTypeOK' /\ NumbersCounted' /\ DecisionsStand'
         /\ \A q \in InFlight : q \in InFlight' /\ req'[q] = req[q] => ProposalRead(q)'
    BY <2>6, <2>7, ProposalsUntouched DEF proposalVars
  <2>11. NumbersApart'
    BY <2>4, <2>6 DEF ProposalsInv, NumbersApart
  <2>12. ProposalRead(p)'
    BY <2>3, <2>4, <2>6 DEF ProposalRead
  <2> QED
    BY <2>6, <2>9, <2>10, <2>11, <2>12 DEF ProposalsInv
<1>3. ASSUME NEW p \in Requests, NextNumber(p)
      PROVE  ProposalsInv'
  <2>1. p \in InFlight /\ req[p].at = "commit" /\ req[p] \in NumberCalls /\ p \in Creating
    BY <1>3, ProposalKinds DEF NextNumber, At, Creating
  <2>2. UNCHANGED <<proposal, remarks, decided, written, crossed>>
    BY <1>3 DEF NextNumber
  <2>3. CASE req[p].number = sequence + 1 /\ sequence' = sequence + 1 /\ Goto(p, "storeNew")
    <3>1. PICK c : c = [req[p] EXCEPT !.at = "storeNew"] /\ Continue(p, c)
      BY <2>3 DEF Goto
    <3>2. c \in NumberCalls /\ c.at = "storeNew" /\ c.number = sequence + 1
      BY <2>1, <2>3, <3>1 DEF NumberCalls
    <3>3. c \in ProposalCalls
      BY <3>2, ProposalForms
    <3>4. /\ Handling("proposals", ProposalCalls)' /\ begun' = begun
          /\ InFlight' = InFlight /\ req'[p] = c /\ \A q \in Requests \ {p} : req'[q] = req[q]
      BY <2>1, <3>1, <3>3, Goes
    <3>5. Creating' = Creating \ {p}
      BY <3>2, <3>4 DEF Creating
    <3>6. NumbersSuffice'
      BY <2>1, <2>3, <3>4, <3>5, CreatingLess
    <3>7. sequence + 1 \in Numbers /\ sequence + 1 \in 0 .. MaxRequests
      BY <2>1, CreatingBounded
    <3>8. proposal[sequence + 1] = None
      BY <3>7 DEF ProposalsInv, NumbersCounted
    <3>9. service' = "proposals" /\ ProposalsTypeOK'
      BY <2>2, <2>3, <3>4, <3>7 DEF ProposalsTypeOK, Handling
    <3>10. NumbersCounted' /\ DecisionsStand'
      BY <2>2, <2>3 DEF ProposalsInv, NumbersCounted, DecisionsStand, Numbers
    <3>11. NumbersApart'
      <4> SUFFICES ASSUME NEW q \in InFlight \ {p}, req[q].at = "storeNew"
                   PROVE  req[q].number # sequence + 1
        BY <3>2, <3>4 DEF ProposalsInv, NumbersApart
      <4> QED
        BY DEF ProposalsInv, ProposalRead
    <3>12. ProposalRead(p)'
      BY <2>2, <2>3, <3>2, <3>4, <3>7, <3>8 DEF ProposalRead, Numbers
    <3>13. ASSUME NEW q \in InFlight \ {p}
           PROVE  ProposalRead(q)'
      BY <2>2, <2>3, <3>4 DEF ProposalsInv, ProposalRead
    <3> QED
      BY <3>4, <3>6, <3>9, <3>10, <3>11, <3>12, <3>13 DEF ProposalsInv
  <2>4. CASE sequence' = sequence /\ Return(p)
    BY <2>1, <2>2, <2>4, ProposalEnds DEF proposalVars
  <2> QED
    BY <1>3, <2>3, <2>4 DEF NextNumber
<1>4. ASSUME NEW p \in Requests, StoreNew(p)
      PROVE  ProposalsInv'
  <2>r. PICK r, n : r = req[p] /\ n = r.number
    OBVIOUS
  <2>1. p \in InFlight /\ r.at = "storeNew" /\ r \in NumberCalls /\ p \notin Creating
    BY <1>4, <2>r, ProposalKinds DEF StoreNew, At, Creating
  <2>2. PICK c : c = [at |-> "audit"] /\ Continue(p, c)
    BY <1>4 DEF StoreNew
  <2>3. c \in ProposalCalls /\ c.at = "audit"
    BY <2>2, ProposalForms
  <2>4. /\ Handling("proposals", ProposalCalls)' /\ begun' = begun
        /\ InFlight' = InFlight /\ req'[p] = c /\ \A q \in Requests \ {p} : req'[q] = req[q]
    BY <2>1, <2>2, <2>3, Goes
  <2>5. PICK item : item = [author |-> r.actor, status |-> "draft", creation |-> r.creation, text |-> r.creation]
    OBVIOUS
  <2>6. item \in Proposal /\ item # None /\ item.status = "draft" /\ item.text = r.creation /\ r.creation \in Numbers
    BY <2>1, <2>5, ProposalsAssumption DEF Proposal, NumberCalls, Statuses
  <2>7. /\ proposal' = [proposal EXCEPT ![n] = item] /\ written' = [written EXCEPT ![n] = r.creation]
        /\ UNCHANGED <<sequence, remarks, decided, crossed>>
    BY <1>4, <2>r, <2>5 DEF StoreNew
  <2>8. n \in 1 .. sequence /\ n \in Numbers /\ proposal[n] = None /\ decided[n] = "draft"
    BY <2>r, <2>1 DEF ProposalsInv, ProposalRead, NumbersCounted, Numbers
  <2>9. /\ proposal' \in [Numbers -> Proposal \cup {None}] /\ proposal'[n] = item
        /\ \A m \in Numbers \ {n} : proposal'[m] = proposal[m]
        /\ written' \in [Numbers -> Numbers \cup {None}] /\ written'[n] = r.creation
        /\ \A m \in Numbers \ {n} : written'[m] = written[m]
    BY <2>6, <2>7, <2>8
  <2>10. service' = "proposals" /\ ProposalsTypeOK'
    BY <2>4, <2>7, <2>9 DEF ProposalsTypeOK, Handling
  <2>11. Creating' = Creating
    BY <2>1, <2>3, <2>4 DEF Creating
  <2>12. NumbersSuffice'
    BY <2>4, <2>7, <2>11, CreatingSame
  <2>13. NumbersCounted'
    BY <2>6, <2>7, <2>8, <2>9 DEF ProposalsInv, NumbersCounted
  <2>14. DecisionsStand'
    BY <2>6, <2>7, <2>8, <2>9 DEF ProposalsInv, DecisionsStand
  <2>15. NumbersApart'
    BY <2>3, <2>4 DEF ProposalsInv, NumbersApart
  <2>16. ProposalRead(p)'
    BY <2>3, <2>4 DEF ProposalRead
  <2>17. ASSUME NEW q \in InFlight \ {p}
         PROVE  ProposalRead(q)'
    <3>1. req[q].at = "storeNew" => req[q].number \in Numbers /\ req[q].number # n
      BY <2>r, <2>1 DEF ProposalsInv, NumbersApart, ProposalRead, Numbers
    <3>2. req[q].at = "store" => req[q].number \in Numbers /\ req[q].number # n
      <4>1. req[q].at = "store" => req[q] \in TextCalls \cup StatusCalls
        BY ProposalKinds
      <4>2. req[q].at = "store" => req[q].number \in Numbers
        BY <4>1 DEF TextCalls, StatusCalls
      <4> QED
        BY <2>8, <4>2 DEF ProposalsInv, ProposalRead
    <3> QED
      BY <2>4, <2>7, <2>9, <3>1, <3>2 DEF ProposalsInv, ProposalRead
  <2> QED
    BY <2>4, <2>10, <2>12, <2>13, <2>14, <2>15, <2>16, <2>17 DEF ProposalsInv
<1>5. ASSUME NEW p \in Requests, NEW a \in Authors, NEW n \in Numbers,
             Update(p, a, n) \/ \E status \in Statuses : UpdateStatus(p, a, n, status)
      PROVE  ProposalsInv'
  <2>1. PICK c : /\ Begin(p, c) /\ c \in ProposalCalls /\ c.at = "load"
    <3>1. CASE Update(p, a, n)
      <4>1. begun + 1 \in Numbers
        BY <3>1 DEF Update, Begin, Numbers
      <4>2. PICK c : /\ c = [at |-> "load", actor |-> a, number |-> n, text |-> begun + 1, status |-> None, copy |-> None]
                     /\ Begin(p, c)
        BY <3>1 DEF Update
      <4>3. c \in TextCalls /\ c.at = "load"
        BY <4>1, <4>2 DEF TextCalls
      <4> QED
        BY <4>2, <4>3, ProposalForms
    <3>2. ASSUME NEW status \in Statuses, UpdateStatus(p, a, n, status)
          PROVE  \E c : Begin(p, c) /\ c \in ProposalCalls /\ c.at = "load"
      <4>1. PICK c : /\ c = [at |-> "load", actor |-> a, number |-> n, text |-> None, status |-> status, copy |-> None]
                     /\ Begin(p, c)
        BY <3>2 DEF UpdateStatus
      <4>2. c \in StatusCalls /\ c.at = "load"
        BY <4>1 DEF StatusCalls
      <4> QED
        BY <4>1, <4>2, ProposalForms
    <3> QED
      BY <1>5, <3>1, <3>2
  <2>2. UNCHANGED proposalVars
    BY <1>5 DEF Update, UpdateStatus
  <2>3. p \notin Creating
    BY <2>1, HandledCalls DEF Begin, Creating
  <2> QED
    BY <2>1, <2>2, <2>3, ProposalGoes DEF proposalVars
<1>6. ASSUME NEW p \in Requests, LoadProposal(p)
      PROVE  ProposalsInv'
  <2>r. PICK r, item : r = req[p] /\ item = proposal[r.number]
    OBVIOUS
  <2>1. p \in InFlight /\ r.at = "load" /\ r \in TextCalls \cup StatusCalls /\ p \notin Creating
    BY <1>6, <2>r, ProposalKinds DEF LoadProposal, At, Creating
  <2>2. UNCHANGED proposalVars
    BY <1>6 DEF LoadProposal
  <2>3. CASE item # None /\ MayStore(r, item) /\ Continue(p, [r EXCEPT !.at = "store", !.copy = item])
    <3>1. PICK c : c = [r EXCEPT !.at = "store", !.copy = item] /\ Continue(p, c)
      BY <2>3
    <3>2. item \in Proposal
      BY <2>r, <2>1, <2>3 DEF TextCalls, StatusCalls
    <3>3. /\ c \in TextCalls \cup StatusCalls /\ c.at = "store" /\ c.copy = item
          /\ c.number = r.number /\ c.text = r.text
      <4>1. CASE r \in TextCalls
        BY <4>1, <3>1, <3>2 DEF TextCalls
      <4>2. CASE r \in StatusCalls
        BY <4>2, <3>1, <3>2 DEF StatusCalls
      <4> QED
        BY <2>1, <4>1, <4>2
    <3>4. c \in ProposalCalls
      BY <3>3, ProposalForms
    <3>5. c.text # None => c.copy.status = "draft"
      BY <2>3, <3>3 DEF MayStore
    <3> QED
      BY <2>r, <2>1, <2>2, <2>3, <3>1, <3>3, <3>4, <3>5, ProposalGoes DEF proposalVars
  <2>4. CASE Return(p)
    BY <2>1, <2>2, <2>4, ProposalEnds
  <2> QED
    BY <1>6, <2>r, <2>3, <2>4 DEF LoadProposal
<1>7. ASSUME NEW p \in Requests, StoreProposal(p)
      PROVE  ProposalsInv'
  <2>r. PICK r, n : r = req[p] /\ n = r.number
    OBVIOUS
  <2>1. p \in InFlight /\ r.at = "store" /\ r \in TextCalls \cup StatusCalls /\ p \notin Creating
    BY <1>7, <2>r, ProposalKinds DEF StoreProposal, At, Creating
  <2>2. PICK c : c = [at |-> "audit"] /\ Continue(p, c)
    BY <1>7 DEF StoreProposal
  <2>3. c \in ProposalCalls /\ c.at = "audit"
    BY <2>2, ProposalForms
  <2>4. /\ Handling("proposals", ProposalCalls)' /\ begun' = begun
        /\ InFlight' = InFlight /\ req'[p] = c /\ \A q \in Requests \ {p} : req'[q] = req[q]
    BY <2>1, <2>2, <2>3, Goes
  <2>5. /\ n \in Numbers /\ proposal[n] # None /\ r.copy \in Proposal /\ r.copy # None
        /\ r.copy.creation = proposal[n].creation
        /\ r.text # None => r.copy.status = "draft"
    <3>1. n \in Numbers /\ r.copy \in Proposal \cup {None}
      BY <2>r, <2>1 DEF TextCalls, StatusCalls
    <3>2. /\ proposal[n] # None /\ r.copy # None /\ r.copy.creation = proposal[n].creation
          /\ r.text # None => r.copy.status = "draft"
      BY <2>r, <2>1 DEF ProposalsInv, ProposalRead
    <3> QED
      BY <3>1, <3>2
  <2>6. PICK item : item = Revised(r)
    OBVIOUS
  <2>7. /\ r \in TextCalls => r.text \in Numbers /\ r.text # None /\ r.status = None
        /\ r \in StatusCalls => r.text = None /\ r.status \in Statuses /\ r.status # None
    BY ProposalsAssumption DEF TextCalls, StatusCalls
  <2>8. /\ item \in Proposal /\ item # None /\ item.creation = r.copy.creation
        /\ item.text = IF r.text # None THEN r.text ELSE r.copy.text
        /\ item.status = IF r.text # None THEN r.copy.status ELSE r.status
    <3>1. CASE r \in TextCalls
      BY <3>1, <2>5, <2>6, <2>7, ProposalsAssumption DEF Revised, Proposal
    <3>2. CASE r \in StatusCalls
      BY <3>2, <2>5, <2>6, <2>7, ProposalsAssumption DEF Revised, Proposal
    <3> QED
      BY <2>1, <3>1, <3>2
  <2>9. /\ proposal' = [proposal EXCEPT ![n] = item]
        /\ written' = (IF r.text # None THEN [written EXCEPT ![n] = r.text] ELSE written)
        /\ decided' = (IF r.status # None THEN [decided EXCEPT ![n] = r.status] ELSE decided)
        /\ crossed' = (IF proposal[n] = r.copy THEN crossed ELSE crossed \cup {n})
        /\ UNCHANGED <<sequence, remarks>>
    BY <1>7, <2>r, <2>6 DEF StoreProposal
  <2>10. /\ proposal' \in [Numbers -> Proposal \cup {None}] /\ proposal'[n] = item
         /\ \A m \in Numbers \ {n} : proposal'[m] = proposal[m]
    BY <2>5, <2>8, <2>9
  <2>11. /\ written' \in [Numbers -> Numbers \cup {None}]
         /\ r.text # None => written'[n] = r.text
         /\ r.text = None => written' = written
         /\ \A m \in Numbers \ {n} : written'[m] = written[m]
    <3>1. r.text # None => r.text \in Numbers
      BY <2>1, <2>7
    <3> QED
      BY <2>5, <2>9, <3>1
  <2>12. /\ decided' \in [Numbers -> Statuses]
         /\ r.status # None => decided'[n] = r.status
         /\ r.status = None => decided' = decided
         /\ \A m \in Numbers \ {n} : decided'[m] = decided[m]
    <3>1. r.status # None => r.status \in Statuses
      BY <2>1, <2>7
    <3> QED
      BY <2>5, <2>9, <3>1
  <2>13. service' = "proposals" /\ ProposalsTypeOK'
    <3>1. crossed' \subseteq Numbers
      BY <2>5, <2>9
    <3> QED
      BY <3>1, <2>4, <2>5, <2>9, <2>10, <2>11, <2>12 DEF ProposalsTypeOK, Handling
  <2>14. Creating' = Creating
    BY <2>1, <2>3, <2>4 DEF Creating
  <2>15. NumbersSuffice'
    BY <2>4, <2>9, <2>14, CreatingSame
  <2>16. NumbersCounted'
    BY <2>5, <2>8, <2>9, <2>10, <2>12 DEF ProposalsInv, NumbersCounted
  <2>17. DecisionsStand'
    <3>1. ASSUME n \notin crossed'
          PROVE  item.status = decided'[n] /\ item.text = written'[n]
      <4>1. proposal[n] = r.copy /\ n \notin crossed
        BY <2>9, <3>1
      <4>2. proposal[n].status = decided[n] /\ proposal[n].text = written[n]
        BY <2>5, <4>1 DEF ProposalsInv, DecisionsStand
      <4>3. CASE r \in TextCalls
        BY <2>7, <2>8, <2>11, <2>12, <4>1, <4>2, <4>3
      <4>4. CASE r \in StatusCalls
        BY <2>7, <2>8, <2>11, <2>12, <4>1, <4>2, <4>4
      <4> QED
        BY <2>1, <4>3, <4>4
    <3> QED
      BY <2>9, <2>10, <2>11, <2>12, <3>1 DEF ProposalsInv, DecisionsStand
  <2>18. NumbersApart'
    BY <2>3, <2>4 DEF ProposalsInv, NumbersApart
  <2>19. ProposalRead(p)'
    BY <2>3, <2>4 DEF ProposalRead
  <2>20. ASSUME NEW q \in InFlight \ {p}
         PROVE  ProposalRead(q)'
    <3>1. req[q].at = "storeNew" => req[q].number \in Numbers /\ req[q].number # n
      BY <2>5 DEF ProposalsInv, ProposalRead, Numbers
    <3>2. req[q].at = "store" => req[q].number \in Numbers
      <4>1. req[q].at = "store" => req[q] \in TextCalls \cup StatusCalls
        BY ProposalKinds
      <4> QED
        BY <4>1 DEF TextCalls, StatusCalls
    <3> QED
      BY <2>4, <2>5, <2>8, <2>9, <2>10, <3>1, <3>2 DEF ProposalsInv, ProposalRead
  <2> QED
    BY <2>4, <2>13, <2>15, <2>16, <2>17, <2>18, <2>19, <2>20 DEF ProposalsInv
<1>8. ASSUME NEW p \in Requests, NEW n \in Numbers, AddRemark(p, n)
      PROVE  ProposalsInv'
  <2>1. PICK c : c = [at |-> "loadDiscussed", number |-> n, remark |-> begun + 1] /\ Begin(p, c)
    BY <1>8 DEF AddRemark
  <2>2. begun + 1 \in Numbers
    BY <2>1 DEF Begin, Numbers
  <2>3. c \in RemarkCalls /\ c.at = "loadDiscussed"
    BY <2>1, <2>2 DEF RemarkCalls
  <2>4. UNCHANGED proposalVars
    BY <1>8 DEF AddRemark
  <2>5. p \notin Creating
    BY <2>1, HandledCalls DEF Begin, Creating
  <2> QED
    BY <2>1, <2>3, <2>4, <2>5, ProposalForms, ProposalGoes DEF proposalVars
<1>9. ASSUME NEW p \in Requests, LoadDiscussed(p)
      PROVE  ProposalsInv'
  <2>1. p \in InFlight /\ req[p].at = "loadDiscussed" /\ req[p] \in RemarkCalls /\ p \notin Creating
    BY <1>9, ProposalKinds DEF LoadDiscussed, At, Creating
  <2>2. UNCHANGED proposalVars
    BY <1>9 DEF LoadDiscussed
  <2>3. CASE Goto(p, "storeRemark")
    <3>1. PICK c : c = [req[p] EXCEPT !.at = "storeRemark"] /\ Continue(p, c)
      BY <2>3 DEF Goto
    <3>2. c \in RemarkCalls /\ c.at = "storeRemark"
      BY <2>1, <3>1 DEF RemarkCalls
    <3> QED
      BY <2>1, <2>2, <3>1, <3>2, ProposalForms, ProposalGoes DEF proposalVars
  <2>4. CASE Return(p)
    BY <2>1, <2>2, <2>4, ProposalEnds
  <2> QED
    BY <1>9, <2>3, <2>4 DEF LoadDiscussed
<1>10. ASSUME NEW p \in Requests, StoreRemark(p)
       PROVE  ProposalsInv'
  <2>1. p \in InFlight /\ req[p].at = "storeRemark" /\ req[p] \in RemarkCalls /\ p \notin Creating
    BY <1>10, ProposalKinds DEF StoreRemark, At, Creating
  <2>2. PICK c : c = [at |-> "audit"] /\ Continue(p, c)
    BY <1>10 DEF StoreRemark
  <2>3. c \in ProposalCalls /\ c.at = "audit"
    BY <2>2, ProposalForms
  <2>4. remarks' = [remarks EXCEPT ![req[p].number] = @ \cup {req[p].remark}]
    BY <1>10 DEF StoreRemark
  <2>5. remarks' \in [Numbers -> SUBSET Numbers]
    BY <2>1, <2>4 DEF RemarkCalls
  <2>6. UNCHANGED <<sequence, proposal, decided, written, crossed>>
    BY <1>10 DEF StoreRemark
  <2> QED
    BY <2>1, <2>2, <2>3, <2>5, <2>6, ProposalGoes
<1>11. ASSUME NEW p \in Requests, AuditProposal(p) \/ FailProposalCall(p)
       PROVE  ProposalsInv'
  <2>1. p \in InFlight /\ (Return(p) \/ Fault(p, None)) /\ UNCHANGED proposalVars
    BY <1>11 DEF AuditProposal, FailProposalCall, At
  <2> QED
    BY <2>1, ProposalEnds
<1>12. CASE CrashProposals
  <2>1. Crash /\ UNCHANGED proposalVars
    BY <1>12 DEF CrashProposals
  <2>2. Handling("proposals", ProposalCalls)' /\ begun' = begun /\ InFlight' = {}
    BY <2>1, Dies
  <2>3. service' = "proposals" /\ ProposalsTypeOK' /\ NumbersCounted' /\ DecisionsStand'
    BY <2>1, <2>2, ProposalsUntouched DEF proposalVars
  <2>4. Creating' = {} /\ IsFiniteSet({}) /\ Cardinality({}) = 0
    BY <2>2, FS_EmptySet DEF Creating
  <2>5. Cardinality(Creating) \in Nat
    BY FS_CardinalityType DEF ProposalsInv, NumbersSuffice
  <2>6. NumbersSuffice'
    BY <2>1, <2>2, <2>4, <2>5 DEF ProposalsInv, NumbersSuffice, proposalVars
  <2> QED
    BY <2>2, <2>3, <2>6 DEF ProposalsInv, NumbersApart
<1>13. CASE UNCHANGED <<handlers, proposalVars>>
  <2>1. UNCHANGED handlers /\ UNCHANGED proposalVars
    BY <1>13
  <2>2. Handling("proposals", ProposalCalls)' /\ begun' = begun /\ InFlight' = InFlight /\ req' = req
    BY <2>1, Rests
  <2>3. /\ service' = "proposals" /\ ProposalsTypeOK' /\ NumbersCounted' /\ DecisionsStand'
        /\ \A q \in InFlight : q \in InFlight' /\ req'[q] = req[q] => ProposalRead(q)'
    BY <2>1, <2>2, ProposalsUntouched DEF proposalVars
  <2>4. Creating' = Creating
    BY <2>2 DEF Creating
  <2>5. NumbersSuffice' /\ NumbersApart'
    BY <2>1, <2>2, <2>4, CreatingSame DEF ProposalsInv, NumbersApart, proposalVars
  <2> QED
    BY <2>2, <2>3, <2>5 DEF ProposalsInv
<1> QED
  BY <1>1, <1>2, <1>3, <1>4, <1>5, <1>6, <1>7, <1>8, <1>9, <1>10, <1>11, <1>12, <1>13 DEF ProposalsNext

\* A step leaves a stored proposal its creation, and its text unless it is a draft.
LEMMA ProposalSteps ==
  ASSUME ProposalsInv, [ProposalsNext]_<<handlers, proposalVars>>, NEW n \in Numbers, proposal[n] # None
  PROVE  /\ proposal'[n] # None /\ proposal'[n].creation = proposal[n].creation
         /\ proposal[n].status # "draft" => proposal'[n].text = proposal[n].text \/ n \in crossed'
<1> USE ProposalHandlers
<1>1. ASSUME NEW p \in Requests, StoreNew(p)
      PROVE  proposal'[n] = proposal[n]
  <2>1. p \in InFlight /\ req[p].at = "storeNew" /\ req[p].number # n
    BY <1>1 DEF StoreNew, At, ProposalsInv, ProposalRead
  <2> QED
    BY <1>1, <2>1 DEF StoreNew
<1>2. ASSUME NEW p \in Requests, StoreProposal(p)
      PROVE  /\ proposal'[n] # None /\ proposal'[n].creation = proposal[n].creation
             /\ proposal[n].status # "draft" => proposal'[n].text = proposal[n].text \/ n \in crossed'
  <2>r. PICK r : r = req[p]
    OBVIOUS
  <2>1. /\ p \in InFlight /\ r.at = "store" /\ r \in TextCalls \cup StatusCalls
    BY <1>2, <2>r, ProposalKinds DEF StoreProposal, At
  <2>2. /\ r.number \in Numbers /\ r.copy \in Proposal \cup {None}
        /\ r \in TextCalls => r.text # None /\ r.text \in Numbers
        /\ r \in StatusCalls => r.text = None /\ r.status \in Statuses
    BY <2>1, ProposalsAssumption DEF TextCalls, StatusCalls
  <2>3. /\ r.copy # None /\ r.copy.creation = proposal[r.number].creation
        /\ r.text # None => r.copy.status = "draft"
    BY <2>r, <2>1 DEF ProposalsInv, ProposalRead
  <2>4. /\ Revised(r) # None /\ Revised(r).creation = r.copy.creation
        /\ r.text = None => Revised(r).text = r.copy.text
    <3>1. CASE r \in TextCalls
      BY <2>2, <2>3, <3>1, ProposalsAssumption DEF Revised, Proposal
    <3>2. CASE r \in StatusCalls
      BY <2>2, <2>3, <3>2, ProposalsAssumption DEF Revised, Proposal
    <3> QED
      BY <2>1, <3>1, <3>2
  <2>5. /\ proposal' = [proposal EXCEPT ![r.number] = Revised(r)]
        /\ crossed' = IF proposal[r.number] = r.copy THEN crossed ELSE crossed \cup {r.number}
    BY <1>2, <2>r DEF StoreProposal
  <2>6. CASE n # r.number
    BY <2>5, <2>6
  <2>7. CASE n = r.number
    BY <2>2, <2>3, <2>4, <2>5, <2>7
  <2> QED
    BY <2>6, <2>7
<1>3. ASSUME NEW p \in Requests,
             \/ \E a \in Authors :
                  \/ CreateProposal(p, a)
                  \/ \E m \in Numbers : Update(p, a, m) \/ \E status \in Statuses : UpdateStatus(p, a, m, status)
             \/ \E m \in Numbers : AddRemark(p, m)
             \/ ReadNumber(p) \/ NextNumber(p) \/ LoadProposal(p) \/ LoadDiscussed(p) \/ StoreRemark(p)
             \/ AuditProposal(p) \/ FailProposalCall(p)
      PROVE  proposal' = proposal
  BY <1>3 DEF CreateProposal, Update, UpdateStatus, AddRemark, ReadNumber, NextNumber, LoadProposal,
              LoadDiscussed, StoreRemark, AuditProposal, FailProposalCall, proposalVars
<1>4. CASE CrashProposals \/ UNCHANGED <<handlers, proposalVars>>
  BY <1>4 DEF CrashProposals, proposalVars
<1> QED
  BY <1>1, <1>2, <1>3, <1>4 DEF ProposalsNext

\* RFCs, however their creations, edits, decisions and remarks interleave, fail and die: no
\* proposal takes another's number, one that has left its draft status keeps its text, and
\* each reads and stands as it was last written and decided, where no handlers crossed.
THEOREM DecisionsKept == ProposalsSpec => ProposalsPromise
<1>1. ProposalsInv => DecisionsStand
  BY DEF ProposalsInv
<1>2. ProposalsInv /\ [ProposalsNext]_<<handlers, proposalVars>> =>
        /\ [\A n \in Numbers : proposal[n] # None =>
              proposal'[n] # None /\ proposal'[n].creation = proposal[n].creation]_proposalVars
        /\ [\A n \in Numbers :
              proposal[n] # None /\ proposal[n].status # "draft" =>
                proposal'[n].text = proposal[n].text \/ n \in crossed']_proposalVars
  BY ProposalSteps
<1>3. ProposalsSpec => []ProposalsInv
  BY ProposalsStart, ProposalsKept, PTL DEF ProposalsSpec
<1> QED
  BY <1>1, <1>2, <1>3, PTL DEF ProposalsSpec, ProposalsPromise, CreationsStand, DraftsOnlyEdited

-----------------------------------------------------------------------------
(* Questions.                                                              *)

QuestionsSpec ==
  HandlersInit /\ service = "questions" /\ QuestionsInit /\ [][QuestionsNext]_<<handlers, questionVars>>

\* What question x says of itself agrees with answers A.
Sound(x, A) ==
  /\ x.status = "resolved" <=> x.accepted # None
  /\ x.accepted \in A \cup {None}
  /\ x.status # "open" => A # {}

Asks(p) == req[p].at \in {"message", "question"}

\* What handler p read or stored before its next call.
QuestionRead(p) ==
  LET c == req[p] IN
  /\ c.at \in {"message", "question"} => question[c.id] = None /\ c.id <= begun
  /\ c.at = "question" => c.id \in root
  /\ c.at \notin {"message", "question"} => question[c.question] # None
  /\ c.at \in {"reply", "mark", "save", "page"} => c.copy # None /\ Sound(c.copy, answers[c.question])
  /\ c.at = "mark" => c.copy.status = "open" /\ answers[c.question] # {}
  /\ c.at = "tellAccepted" => c.choice # None

\* Every question that is asked has an item of its own.
AsksApart ==
  \A p, q \in InFlight : Asks(p) /\ Asks(q) /\ req[p].id = req[q].id => p = q

QuestionsSound ==
  /\ \A i \in Items : question[i] # None => i \in root /\ i <= begun /\ Sound(question[i], answers[i])
  /\ AcceptedShown

QuestionsTyped ==
  /\ question \in [Items -> Question \cup {None}]
  /\ root \subseteq Items /\ answers \in [Items -> SUBSET Items]
  /\ told \subseteq {"answer", "accepted"} \X Items
  /\ rewritten \subseteq Items /\ unmarked \subseteq Items
  /\ shown \in [question : Question, answers : SUBSET Items] \cup {None}

QuestionsInv ==
  /\ Handling("questions", QuestionCalls) /\ QuestionsTyped /\ QuestionsSound /\ AsksApart
  /\ \A p \in InFlight : QuestionRead(p)

AskCalls == [at : {"message", "question"}, id : Items]
AnswerCalls ==
  [at : {"answer", "reply", "mark", "tell"}, id : Items, question : Items, copy : Question \cup {None}]
AcceptCalls ==
  [at : {"accept", "count", "save", "tellAccepted"}, question : Items, choice : Items \cup {None},
   copy : Question \cup {None}]
PageCalls == [at : {"page"}, question : Items, copy : Question]

LEMMA QuestionKinds ==
  ASSUME NEW c \in QuestionCalls
  PROVE  /\ c.at \in {"message", "question"} <=> c \in AskCalls
         /\ c.at \in {"answer", "reply", "mark", "tell"} => c \in AnswerCalls
         /\ c.at \in {"accept", "count", "save", "tellAccepted"} => c \in AcceptCalls
         /\ c.at = "page" => c \in PageCalls
         /\ c.at \in {"message", "question", "answer", "reply", "mark", "tell", "accept", "count", "save",
                      "tellAccepted", "page"}
         /\ c.at \notin {"message", "question"} => c.question \in Items
BY DEF QuestionCalls, AskCalls, AnswerCalls, AcceptCalls, PageCalls

LEMMA QuestionForms ==
  /\ AskCalls \subseteq QuestionCalls /\ AnswerCalls \subseteq QuestionCalls
  /\ AcceptCalls \subseteq QuestionCalls /\ PageCalls \subseteq QuestionCalls
BY DEF QuestionCalls, AskCalls, AnswerCalls, AcceptCalls, PageCalls

LEMMA QuestionHandlers ==
  ASSUME QuestionsInv
  PROVE  /\ Handling("questions", QuestionCalls) /\ None \notin QuestionCalls
         /\ begun \in 0 .. MaxRequests /\ MaxRequests \in Nat
         /\ \A p \in InFlight : p \in Requests /\ req[p] \in QuestionCalls /\ QuestionRead(p)
         /\ question \in [Items -> Question \cup {None}]
         /\ root \subseteq Items /\ answers \in [Items -> SUBSET Items]
         /\ told \subseteq {"answer", "accepted"} \X Items
         /\ rewritten \subseteq Items /\ unmarked \subseteq Items
         /\ shown \in [question : Question, answers : SUBSET Items] \cup {None}
BY HandledCalls, QuestionsAssumption, HandlersAssumption DEF QuestionsInv, QuestionsTyped

\* Answers are never taken back, nor are questions: what a handler read stays sound.
LEMMA QuestionStep ==
  ASSUME QuestionsInv, Handling("questions", QuestionCalls)', NEW p \in Requests,
         InFlight' \subseteq InFlight \cup {p}, \A q \in Requests \ {p} : req'[q] = req[q],
         begun' \in {begun, begun + 1}, QuestionsTyped', QuestionsSound', root \subseteq root',
         \A i \in Items : answers[i] \subseteq answers'[i],
         \A i \in Items : question[i] # None => question'[i] # None,
         p \in InFlight' => QuestionRead(p)',
         \A q \in InFlight \ {p} : Asks(q) =>
           /\ question'[req[q].id] = None
           /\ p \in InFlight' /\ Asks(p)' => req'[p].id # req[q].id
  PROVE  QuestionsInv'
<1> USE QuestionHandlers
<1>1. ASSUME NEW q \in InFlight \ {p}
      PROVE  QuestionRead(q)'
  <2>1. req'[q] = req[q] /\ req[q] \in QuestionCalls /\ QuestionRead(q)
    OBVIOUS
  <2>2. Asks(q) => question'[req[q].id] = None
    OBVIOUS
  <2>3. ~ Asks(q) => req[q].question \in Items
    BY <2>1, QuestionKinds DEF Asks
  <2>4. Asks(q) => req[q].id \in Items
    BY <2>1, QuestionKinds DEF Asks, AskCalls
  <2>5. \A x, i : i \in Items /\ Sound(x, answers[i]) => Sound(x, answers'[i])
    BY DEF Sound
  <2>6. Asks(q) => QuestionRead(q)'
    <3>1. begun' \in Nat /\ begun \in Nat /\ begun <= begun'
      OBVIOUS
    <3> QED
      BY <2>1, <2>2, <2>4, <3>1 DEF QuestionRead, Asks, Items
  <2>7. ~ Asks(q) => QuestionRead(q)'
    BY <2>1, <2>3, <2>5 DEF QuestionRead, Asks
  <2> QED
    BY <2>6, <2>7
<1>2. \A q \in InFlight' : QuestionRead(q)'
  BY <1>1
<1>3. AsksApart'
  <2> SUFFICES ASSUME NEW q \in InFlight', NEW s \in InFlight', Asks(q)', Asks(s)', req'[q].id = req'[s].id
               PROVE  q = s
    BY DEF AsksApart
  <2>1. CASE q # p /\ s # p
    BY <2>1 DEF QuestionsInv, AsksApart, Asks
  <2>2. CASE q = p \/ s = p
    BY <2>2 DEF Asks
  <2> QED
    BY <2>1, <2>2
<1> QED
  BY <1>2, <1>3 DEF QuestionsInv

\* A step that stores no question, message or answer.
LEMMA QuestionsStand ==
  ASSUME QuestionsInv, UNCHANGED <<question, root, answers>>, begun' \in {begun, begun + 1}, AcceptedShown'
  PROVE  QuestionsSound'
<1>1. ASSUME NEW i \in Items, question[i] # None
      PROVE  i \in root' /\ i <= begun' /\ Sound(question[i], answers[i])
  BY <1>1, QuestionHandlers DEF QuestionsInv, QuestionsSound, Items
<1> QED
  BY <1>1 DEF QuestionsSound

\* Handlers end, however, and what they told or showed is recorded.
LEMMA QuestionEnds ==
  ASSUME QuestionsInv, NEW p \in InFlight, Return(p) \/ Fault(p, None),
         UNCHANGED <<question, root, answers>>, QuestionsTyped', AcceptedShown'
  PROVE  QuestionsInv'
<1> USE QuestionHandlers
<1>1. /\ Handling("questions", QuestionCalls)' /\ begun' = begun
      /\ InFlight' = InFlight \ {p} /\ \A q \in Requests \ {p} : req'[q] = req[q]
  BY Ends
<1>2. QuestionsSound'
  BY <1>1, QuestionsStand
<1>3. \A q \in InFlight \ {p} : Asks(q) =>
        /\ question'[req[q].id] = None
        /\ p \in InFlight' /\ Asks(p)' => req'[p].id # req[q].id
  BY <1>1 DEF QuestionRead, Asks
<1> QED
  BY <1>1, <1>2, <1>3, QuestionStep

\* Handlers start or go on, by calls that ask no question, and nothing is stored.
LEMMA QuestionGoes ==
  ASSUME QuestionsInv, NEW p \in Requests, NEW c \in QuestionCalls, c.at \notin {"message", "question"},
         Begin(p, c) \/ (p \in InFlight /\ Continue(p, c)), UNCHANGED questionVars,
         question[c.question] # None,
         c.at \in {"reply", "mark", "save", "page"} => c.copy # None /\ Sound(c.copy, answers[c.question]),
         c.at \notin {"mark", "tellAccepted"}
  PROVE  QuestionsInv'
<1> USE QuestionHandlers
<1>1. /\ Handling("questions", QuestionCalls)' /\ begun' \in {begun, begun + 1}
      /\ InFlight' = InFlight \cup {p} /\ req'[p] = c /\ \A q \in Requests \ {p} : req'[q] = req[q]
  <2>1. CASE Begin(p, c)
    BY <2>1, Begins
  <2>2. CASE p \in InFlight /\ Continue(p, c)
    BY <2>2, Goes
  <2> QED
    BY <2>1, <2>2
<1>2. QuestionsTyped' /\ AcceptedShown'
  BY DEF QuestionsInv, QuestionsTyped, QuestionsSound, AcceptedShown, questionVars
<1>3. QuestionsSound'
  BY <1>1, <1>2, QuestionsStand DEF questionVars
<1>4. QuestionRead(p)'
  BY <1>1 DEF QuestionRead, questionVars
<1>5. \A q \in InFlight \ {p} : Asks(q) =>
        /\ question'[req[q].id] = None
        /\ p \in InFlight' /\ Asks(p)' => req'[p].id # req[q].id
  BY <1>1 DEF QuestionRead, Asks, questionVars
<1> QED
  BY <1>1, <1>2, <1>3, <1>4, <1>5, QuestionStep DEF questionVars

LEMMA QuestionsStart == HandlersInit /\ service = "questions" /\ QuestionsInit => QuestionsInv
<1> SUFFICES ASSUME HandlersInit, service = "questions", QuestionsInit
             PROVE  QuestionsInv
  OBVIOUS
<1>1. Handling("questions", QuestionCalls) /\ begun = 0 /\ InFlight = {}
  BY Starts
<1>2. QuestionsTyped
  BY DEF QuestionsTyped, QuestionsInit
<1> QED
  BY <1>1, <1>2 DEF QuestionsInv, QuestionsSound, AcceptedShown, AsksApart, QuestionsInit

\* The question that handler p stores is sound, and nobody asks one of its name.
LEMMA QuestionStored ==
  ASSUME QuestionsInv, NEW p \in InFlight, ~ Asks(p), NEW item \in Question,
         Sound(item, answers[req[p].question]),
         question' = [question EXCEPT ![req[p].question] = item],
         UNCHANGED <<root, answers, begun, shown>>
  PROVE  /\ QuestionsSound' /\ question' \in [Items -> Question \cup {None}]
         /\ question'[req[p].question] = item /\ item # None /\ req[p].question \in Items
         /\ \A i \in Items : question[i] # None => question'[i] # None
         /\ \A q \in InFlight \ {p} : Asks(q) => question'[req[q].id] = None
<1> USE QuestionHandlers
<1>1. req[p].question \in Items /\ question[req[p].question] # None
  BY QuestionKinds DEF Asks, QuestionRead
<1>2. item # None
  BY QuestionsAssumption
<1>3. /\ question' \in [Items -> Question \cup {None}] /\ question'[req[p].question] = item
      /\ \A i \in Items \ {req[p].question} : question'[i] = question[i]
  BY <1>1
<1>4. QuestionsSound'
  <2>1. AcceptedShown'
    BY DEF QuestionsInv, QuestionsSound, AcceptedShown
  <2>2. ASSUME NEW i \in Items, question'[i] # None
        PROVE  i \in root /\ i <= begun /\ Sound(question'[i], answers[i])
    BY <1>1, <1>3, <2>2 DEF QuestionsInv, QuestionsSound
  <2> QED
    BY <2>1, <2>2 DEF QuestionsSound
<1>5. ASSUME NEW q \in InFlight \ {p}, Asks(q)
      PROVE  question'[req[q].id] = None
  <2>1. question[req[q].id] = None /\ req[q].id \in Items
    BY <1>5, QuestionKinds DEF Asks, QuestionRead, AskCalls
  <2> QED
    BY <1>1, <1>3, <2>1
<1> QED
  BY <1>1, <1>2, <1>3, <1>4, <1>5

LEMMA QuestionsKept == QuestionsInv /\ [QuestionsNext]_<<handlers, questionVars>> => QuestionsInv'
<1> SUFFICES ASSUME QuestionsInv, [QuestionsNext]_<<handlers, questionVars>>
             PROVE  QuestionsInv'
  OBVIOUS
<1> USE QuestionHandlers
<1>1. ASSUME NEW p \in Requests, Ask(p)
      PROVE  QuestionsInv'
  <2>1. PICK c : c = [at |-> "message", id |-> begun + 1] /\ Begin(p, c)
    BY <1>1 DEF Ask
  <2>2. c \in QuestionCalls /\ c.at = "message" /\ c.id = begun + 1 /\ begun + 1 \in Items
    <3>1. begun + 1 \in Items
      BY <2>1 DEF Begin, Items
    <3> QED
      BY <2>1, <3>1, QuestionForms DEF AskCalls
  <2>3. /\ Handling("questions", QuestionCalls)' /\ begun' = begun + 1
        /\ p \notin InFlight /\ InFlight' = InFlight \cup {p} /\ req'[p] = c
        /\ \A q \in Requests \ {p} : req'[q] = req[q]
    BY <2>1, <2>2, Begins
  <2>4. UNCHANGED questionVars
    BY <1>1 DEF Ask
  <2>5. QuestionsTyped' /\ AcceptedShown'
    BY <2>4 DEF QuestionsInv, QuestionsTyped, QuestionsSound, AcceptedShown, questionVars
  <2>6. QuestionsSound'
    BY <2>3, <2>4, <2>5, QuestionsStand DEF questionVars
  <2>7. question[begun + 1] = None
    BY <2>2 DEF QuestionsInv, QuestionsSound
  <2>8. QuestionRead(p)'
    BY <2>2, <2>3, <2>4, <2>7 DEF QuestionRead, questionVars
  <2>9. \A q \in InFlight \ {p} : Asks(q) =>
          /\ question'[req[q].id] = None
          /\ p \in InFlight' /\ Asks(p)' => req'[p].id # req[q].id
    <3> SUFFICES ASSUME NEW q \in InFlight \ {p}, Asks(q)
                 PROVE  question'[req[q].id] = None /\ req'[p].id # req[q].id
      OBVIOUS
    <3>1. req[q].id <= begun /\ req[q].id \in Items /\ question[req[q].id] = None
      BY QuestionKinds DEF QuestionRead, Asks, AskCalls
    <3> QED
      BY <2>2, <2>3, <2>4, <3>1 DEF Items, questionVars
  <2> QED
    BY <2>3, <2>4, <2>5, <2>6, <2>8, <2>9, QuestionStep DEF questionVars
<1>2. ASSUME NEW p \in Requests, StoreRoot(p)
      PROVE  QuestionsInv'
  <2>1. p \in InFlight /\ req[p].at = "message" /\ req[p] \in AskCalls
    BY <1>2, QuestionKinds DEF StoreRoot, At
  <2>2. PICK c : c = [req[p] EXCEPT !.at = "question"] /\ Continue(p, c)
    BY <1>2 DEF StoreRoot, Goto
  <2>3. c \in AskCalls /\ c.at = "question" /\ c.id = req[p].id /\ req[p].id \in Items
    BY <2>1, <2>2 DEF AskCalls
  <2>4. c \in QuestionCalls
    BY <2>3, QuestionForms
  <2>5. /\ Handling("questions", QuestionCalls)' /\ begun' = begun
        /\ InFlight' = InFlight /\ req'[p] = c /\ \A q \in Requests \ {p} : req'[q] = req[q]
    BY <2>1, <2>2, <2>4, Goes
  <2>6. root' = root \cup {req[p].id} /\ UNCHANGED <<question, answers, told, rewritten, unmarked, shown>>
    BY <1>2 DEF StoreRoot
  <2>7. QuestionsTyped' /\ AcceptedShown'
    BY <2>3, <2>6 DEF QuestionsInv, QuestionsTyped, QuestionsSound, AcceptedShown
  <2>8. QuestionsSound'
    BY <2>5, <2>6, <2>7 DEF QuestionsInv, QuestionsSound
  <2>9. QuestionRead(p)'
    <3>1. question[req[p].id] = None /\ req[p].id <= begun
      BY <2>1 DEF QuestionRead
    <3> QED
      BY <2>3, <2>5, <2>6, <3>1 DEF QuestionRead
  <2>10. \A q \in InFlight \ {p} : Asks(q) =>
           /\ question'[req[q].id] = None
           /\ p \in InFlight' /\ Asks(p)' => req'[p].id # req[q].id
    BY <2>1, <2>3, <2>5, <2>6 DEF QuestionsInv, AsksApart, QuestionRead, Asks
  <2> QED
    BY <2>5, <2>6, <2>7, <2>8, <2>9, <2>10, QuestionStep
<1>3. ASSUME NEW p \in Requests, StoreQuestion(p)
      PROVE  QuestionsInv'
  <2>r. PICK i : i = req[p].id
    OBVIOUS
  <2>1. p \in InFlight /\ req[p].at = "question" /\ i \in Items
    BY <1>3, <2>r, QuestionKinds DEF StoreQuestion, At, AskCalls
  <2>2. PICK item : item = [status |-> "open", accepted |-> None]
    OBVIOUS
  <2>3. question' = [question EXCEPT ![i] = item] /\ Return(p) /\ UNCHANGED <<root, answers, told, rewritten, unmarked, shown>>
    BY <1>3, <2>r, <2>2 DEF StoreQuestion
  <2>4. item \in Question /\ item # None /\ item.status = "open" /\ item.accepted = None
    BY <2>2, QuestionsAssumption DEF Question
  <2>5. /\ Handling("questions", QuestionCalls)' /\ begun' = begun
        /\ InFlight' = InFlight \ {p} /\ \A q \in Requests \ {p} : req'[q] = req[q]
    BY <2>1, <2>3, Ends
  <2>6. /\ question' \in [Items -> Question \cup {None}] /\ question'[i] = item
        /\ \A j \in Items \ {i} : question'[j] = question[j]
    BY <2>1, <2>3, <2>4
  <2>7. QuestionsTyped' /\ AcceptedShown'
    BY <2>3, <2>6 DEF QuestionsInv, QuestionsTyped, QuestionsSound, AcceptedShown
  <2>8. i \in root /\ i <= begun
    BY <2>r, <2>1 DEF QuestionRead
  <2>9. QuestionsSound'
    <3>1. Sound(item, answers[i])
      BY <2>4 DEF Sound
    <3> QED
      BY <2>3, <2>5, <2>6, <2>7, <2>8, <3>1 DEF QuestionsInv, QuestionsSound
  <2>10. \A q \in InFlight \ {p} : Asks(q) =>
           /\ question'[req[q].id] = None
           /\ p \in InFlight' /\ Asks(p)' => req'[p].id # req[q].id
    <3> SUFFICES ASSUME NEW q \in InFlight \ {p}, Asks(q)
                 PROVE  question'[req[q].id] = None
      BY <2>5
    <3>1. question[req[q].id] = None /\ req[q].id \in Items
      BY QuestionKinds DEF QuestionRead, Asks, AskCalls
    <3>2. req[q].id # i
      BY <2>r, <2>1 DEF QuestionsInv, AsksApart, Asks
    <3> QED
      BY <2>6, <3>1, <3>2
  <2> QED
    BY <2>3, <2>4, <2>5, <2>6, <2>7, <2>9, <2>10, QuestionStep
<1>4. ASSUME NEW p \in Requests, NEW q \in Items,
             Answer(p, q) \/ View(p, q) \/ \E choice \in Items \cup {None} : Accept(p, q, choice)
      PROVE  QuestionsInv'
  <2>1. question[q] # None /\ UNCHANGED questionVars
    BY <1>4 DEF Answer, View, Accept
  <2>2. CASE Answer(p, q)
    <3>1. PICK c : c = [at |-> "answer", id |-> begun + 1, question |-> q, copy |-> None] /\ Begin(p, c)
      BY <2>2 DEF Answer
    <3>2. begun + 1 \in Items
      BY <3>1 DEF Begin, Items
    <3>3. c \in AnswerCalls /\ c.at = "answer" /\ c.question = q
      BY <3>1, <3>2 DEF AnswerCalls
    <3> QED
      BY <2>1, <3>1, <3>3, QuestionForms, QuestionGoes
  <2>3. CASE View(p, q)
    <3>1. PICK c, item : item = question[q] /\ c = [at |-> "page", question |-> q, copy |-> item] /\ Begin(p, c)
      BY <2>3 DEF View
    <3>2. item \in Question
      BY <2>1, <3>1
    <3>3. c \in PageCalls /\ c.at = "page" /\ c.question = q /\ c.copy = item
      BY <3>1, <3>2 DEF PageCalls
    <3>4. Sound(item, answers[q])
      BY <2>1, <3>1 DEF QuestionsInv, QuestionsSound
    <3> QED
      BY <2>1, <3>1, <3>3, <3>4, QuestionForms, QuestionGoes
  <2>4. ASSUME NEW choice \in Items \cup {None}, Accept(p, q, choice)
        PROVE  QuestionsInv'
    <3>1. PICK c : c = [at |-> "accept", question |-> q, choice |-> choice, copy |-> None] /\ Begin(p, c)
      BY <2>4 DEF Accept
    <3>2. c \in AcceptCalls /\ c.at = "accept" /\ c.question = q
      BY <3>1 DEF AcceptCalls
    <3> QED
      BY <2>1, <3>1, <3>2, QuestionForms, QuestionGoes
  <2> QED
    BY <1>4, <2>2, <2>3, <2>4
<1>5. ASSUME NEW p \in Requests, LoadForAnswer(p)
      PROVE  QuestionsInv'
  <2>1. p \in InFlight /\ req[p].at = "answer" /\ req[p] \in AnswerCalls /\ UNCHANGED questionVars
    BY <1>5, QuestionKinds DEF LoadForAnswer, At
  <2>2. PICK item : item = question[req[p].question]
    OBVIOUS
  <2>3. PICK c : c = [req[p] EXCEPT !.at = "reply", !.copy = item] /\ Continue(p, c)
    BY <1>5, <2>2 DEF LoadForAnswer
  <2>4. item # None /\ item \in Question /\ Sound(item, answers[req[p].question])
    BY <2>1, <2>2 DEF QuestionRead, AnswerCalls, QuestionsInv, QuestionsSound
  <2>5. c \in AnswerCalls /\ c.at = "reply" /\ c.question = req[p].question /\ c.copy = item
    BY <2>1, <2>3, <2>4 DEF AnswerCalls
  <2> QED
    BY <2>1, <2>2, <2>3, <2>4, <2>5, QuestionForms, QuestionGoes
<1>6. ASSUME NEW p \in Requests, StoreAnswer(p)
      PROVE  QuestionsInv'
  <2>r. PICK r, q, place : r = req[p] /\ q = r.question /\ place = IF r.copy.status = "open" THEN "mark" ELSE "tell"
    OBVIOUS
  <2>1. p \in InFlight /\ r.at = "reply" /\ r \in AnswerCalls /\ q \in Items /\ r.id \in Items
    BY <1>6, <2>r, QuestionKinds DEF StoreAnswer, At, AnswerCalls
  <2>2. PICK c : c = [r EXCEPT !.at = place] /\ Continue(p, c)
    BY <1>6, <2>r DEF StoreAnswer, Goto
  <2>3. c \in AnswerCalls /\ c.at = place /\ c.question = q /\ c.copy = r.copy /\ place \in {"mark", "tell"}
    BY <2>r, <2>1, <2>2 DEF AnswerCalls
  <2>4. c \in QuestionCalls
    BY <2>3, QuestionForms
  <2>5. /\ Handling("questions", QuestionCalls)' /\ begun' = begun
        /\ InFlight' = InFlight /\ req'[p] = c /\ \A s \in Requests \ {p} : req'[s] = req[s]
    BY <2>1, <2>2, <2>4, Goes
  <2>6. answers' = [answers EXCEPT ![q] = @ \cup {r.id}] /\ UNCHANGED <<question, root, told, rewritten, unmarked, shown>>
    BY <1>6, <2>r DEF StoreAnswer
  <2>7. /\ answers' \in [Items -> SUBSET Items] /\ answers'[q] = answers[q] \cup {r.id}
        /\ \A i \in Items : answers[i] \subseteq answers'[i]
    BY <2>1, <2>6
  <2>8. QuestionsTyped' /\ AcceptedShown'
    BY <2>6, <2>7 DEF QuestionsInv, QuestionsTyped, QuestionsSound, AcceptedShown
  <2>9. \A x, i : i \in Items /\ Sound(x, answers[i]) => Sound(x, answers'[i])
    BY <2>7 DEF Sound
  <2>10. QuestionsSound'
    BY <2>5, <2>6, <2>8, <2>9 DEF QuestionsInv, QuestionsSound
  <2>11. r.copy # None /\ Sound(r.copy, answers[q]) /\ question[q] # None
    BY <2>r, <2>1 DEF QuestionRead
  <2>12. QuestionRead(p)'
    <3>1. c.at = "mark" => r.copy.status = "open"
      BY <2>r, <2>3
    <3>2. answers'[q] # {} /\ Sound(r.copy, answers'[q])
      BY <2>1, <2>7, <2>9, <2>11
    <3> QED
      BY <2>3, <2>5, <2>6, <2>11, <3>1, <3>2 DEF QuestionRead
  <2>13. \A s \in InFlight \ {p} : Asks(s) =>
           /\ question'[req[s].id] = None
           /\ p \in InFlight' /\ Asks(p)' => req'[p].id # req[s].id
    BY <2>3, <2>5, <2>6 DEF QuestionRead, Asks
  <2> QED
    BY <2>5, <2>6, <2>7, <2>8, <2>10, <2>12, <2>13, QuestionStep
<1>7. ASSUME NEW p \in Requests, MarkAnswered(p)
      PROVE  QuestionsInv'
  <2>r. PICK r, q : r = req[p] /\ q = r.question
    OBVIOUS
  <2>1. p \in InFlight /\ r.at = "mark" /\ r \in AnswerCalls /\ ~ Asks(p) /\ q \in Items
    BY <1>7, <2>r, QuestionKinds DEF MarkAnswered, At, Asks, AnswerCalls
  <2>2. PICK c : c = [r EXCEPT !.at = "tell"] /\ Continue(p, c)
    BY <1>7, <2>r DEF MarkAnswered, Goto
  <2>3. c \in AnswerCalls /\ c.at = "tell" /\ c.question = q
    BY <2>r, <2>1, <2>2 DEF AnswerCalls
  <2>4. c \in QuestionCalls
    BY <2>3, QuestionForms
  <2>5. /\ Handling("questions", QuestionCalls)' /\ begun' = begun
        /\ InFlight' = InFlight /\ req'[p] = c /\ \A s \in Requests \ {p} : req'[s] = req[s]
    BY <2>1, <2>2, <2>4, Goes
  <2>6. PICK item : item = [r.copy EXCEPT !.status = "answered"]
    OBVIOUS
  <2>7. /\ question' = [question EXCEPT ![q] = item]
        /\ rewritten' = (IF question[q] = r.copy THEN rewritten ELSE rewritten \cup {q})
        /\ UNCHANGED <<root, answers, told, unmarked, shown>>
    BY <1>7, <2>r, <2>6 DEF MarkAnswered, Stored
  <2>8. r.copy \in Question /\ r.copy.status = "open" /\ Sound(r.copy, answers[q]) /\ answers[q] # {}
    <3>1. r.copy # None /\ r.copy.status = "open" /\ Sound(r.copy, answers[q]) /\ answers[q] # {}
      BY <2>r, <2>1 DEF QuestionRead
    <3> QED
      BY <2>1, <3>1 DEF AnswerCalls
  <2>9. item \in Question /\ item.status = "answered" /\ item.accepted = r.copy.accepted
    BY <2>6, <2>8 DEF Question
  <2>10. Sound(item, answers[q])
    BY <2>8, <2>9 DEF Sound
  <2>11. /\ QuestionsSound' /\ question' \in [Items -> Question \cup {None}]
         /\ question'[q] = item /\ item # None
         /\ \A i \in Items : question[i] # None => question'[i] # None
         /\ \A s \in InFlight \ {p} : Asks(s) => question'[req[s].id] = None
    BY <2>r, <2>1, <2>5, <2>7, <2>9, <2>10, QuestionStored
  <2>12. QuestionsTyped'
    <3>1. rewritten' \subseteq Items
      BY <2>1, <2>7
    <3> QED
      BY <2>7, <2>11, <3>1 DEF QuestionsTyped
  <2>13. QuestionRead(p)' /\ ~ Asks(p)'
    BY <2>3, <2>5, <2>11 DEF QuestionRead, Asks
  <2> QED
    BY <2>5, <2>7, <2>11, <2>12, <2>13, QuestionStep
<1>8. ASSUME NEW p \in Requests, TellAsker(p) \/ TellAuthor(p)
      PROVE  QuestionsInv'
  <2>1. p \in InFlight /\ Return(p) /\ UNCHANGED <<question, root, answers, rewritten, unmarked, shown>>
    BY <1>8 DEF TellAsker, TellAuthor, At
  <2>2. told' \subseteq {"answer", "accepted"} \X Items
    <3>1. CASE TellAsker(p)
      <4>1. req[p].id \in Items
        BY <2>1, <3>1, QuestionKinds DEF TellAsker, At, AnswerCalls
      <4> QED
        BY <3>1, <4>1 DEF TellAsker
    <3>2. CASE TellAuthor(p)
      <4>1. req[p].choice \in Items
        BY <2>1, <3>2, QuestionKinds DEF TellAuthor, At, AcceptCalls, QuestionRead
      <4> QED
        BY <3>2, <4>1 DEF TellAuthor
    <3> QED
      BY <1>8, <3>1, <3>2
  <2>3. QuestionsTyped' /\ AcceptedShown'
    BY <2>1, <2>2 DEF QuestionsInv, QuestionsTyped, QuestionsSound, AcceptedShown
  <2> QED
    BY <2>1, <2>3, QuestionEnds
<1>9. ASSUME NEW p \in Requests, LoadForAccept(p)
      PROVE  QuestionsInv'
  <2>1. p \in InFlight /\ req[p].at = "accept" /\ req[p] \in AcceptCalls /\ UNCHANGED questionVars
    BY <1>9, QuestionKinds DEF LoadForAccept, At
  <2>2. PICK item : item = question[req[p].question]
    OBVIOUS
  <2>3. PICK c : c = [req[p] EXCEPT !.at = "count", !.copy = item] /\ Continue(p, c)
    BY <1>9, <2>2 DEF LoadForAccept
  <2>4. item # None /\ item \in Question
    BY <2>1, <2>2 DEF QuestionRead, AcceptCalls
  <2>5. c \in AcceptCalls /\ c.at = "count" /\ c.question = req[p].question
    BY <2>1, <2>3, <2>4 DEF AcceptCalls
  <2> QED
    BY <2>1, <2>2, <2>3, <2>4, <2>5, QuestionForms, QuestionGoes
<1>10. ASSUME NEW p \in Requests, ChooseAnswer(p)
       PROVE  QuestionsInv'
  <2>r. PICK r, q : r = req[p] /\ q = r.question
    OBVIOUS
  <2>1. /\ p \in InFlight /\ r.at = "count" /\ r \in AcceptCalls /\ UNCHANGED questionVars
        /\ q \in Items /\ question[q] # None
    <3>1. p \in InFlight /\ r.at = "count" /\ r \in AcceptCalls /\ UNCHANGED questionVars
      BY <1>10, <2>r, QuestionKinds DEF ChooseAnswer, At
    <3> QED
      BY <2>r, <3>1 DEF AcceptCalls, QuestionRead
  <2>2. CASE r.choice \in answers[q] \cup {None} /\ Continue(p, [r EXCEPT !.at = "save", !.copy = Reconsidered(r)])
    <3>1. PICK item : item = Reconsidered(r)
      OBVIOUS
    <3>2. PICK c : c = [r EXCEPT !.at = "save", !.copy = item] /\ Continue(p, c)
      BY <2>2, <3>1
    <3>3. /\ item.accepted = r.choice
          /\ item.status = IF r.choice # None THEN "resolved" ELSE IF answers[q] = {} THEN "open" ELSE "answered"
          /\ item \in Question
      <4>1. r.choice \in Items \cup {None}
        BY <2>1 DEF AcceptCalls
      <4> QED
        BY <2>r, <3>1, <4>1 DEF Reconsidered, Question
    <3>4. item # None /\ Sound(item, answers[q])
      BY <2>2, <3>3, QuestionsAssumption DEF Sound
    <3>5. c \in AcceptCalls /\ c.at = "save" /\ c.question = q /\ c.copy = item
      BY <2>r, <2>1, <3>2, <3>3 DEF AcceptCalls
    <3> QED
      BY <2>1, <3>2, <3>4, <3>5, QuestionForms, QuestionGoes
  <2>3. CASE Return(p)
    <3>1. QuestionsTyped' /\ AcceptedShown'
      BY <2>1 DEF QuestionsInv, QuestionsTyped, QuestionsSound, AcceptedShown, questionVars
    <3> QED
      BY <2>1, <2>3, <3>1, QuestionEnds DEF questionVars
  <2> QED
    BY <1>10, <2>r, <2>2, <2>3 DEF ChooseAnswer
<1>11. ASSUME NEW p \in Requests, SaveAcceptance(p)
       PROVE  QuestionsInv'
  <2>r. PICK r, q, item : r = req[p] /\ q = r.question /\ item = r.copy
    OBVIOUS
  <2>1. p \in InFlight /\ r.at = "save" /\ r \in AcceptCalls /\ ~ Asks(p) /\ q \in Items
    BY <1>11, <2>r, QuestionKinds DEF SaveAcceptance, At, Asks, AcceptCalls
  <2>2. item \in Question /\ Sound(item, answers[q])
    <3>1. item # None /\ Sound(item, answers[q])
      BY <2>r, <2>1 DEF QuestionRead
    <3> QED
      BY <2>r, <2>1, <3>1 DEF AcceptCalls
  <2>3. /\ question' = [question EXCEPT ![q] = item] /\ rewritten' = rewritten
        /\ UNCHANGED <<root, answers, told, unmarked, shown>>
    BY <1>11, <2>r DEF SaveAcceptance, Stored
  <2>4. /\ Handling("questions", QuestionCalls)' /\ begun' = begun
        /\ InFlight' \subseteq InFlight /\ \A s \in Requests \ {p} : req'[s] = req[s]
        /\ p \in InFlight' => /\ req'[p].at = "tellAccepted" /\ req'[p].question = q
                              /\ req'[p].choice # None
    <3>1. CASE Return(p)
      BY <2>1, <3>1, Ends
    <3>2. CASE r.choice # None /\ Goto(p, "tellAccepted")
      <4>1. PICK c : c = [r EXCEPT !.at = "tellAccepted"] /\ Continue(p, c)
        BY <2>r, <3>2 DEF Goto
      <4>2. c \in AcceptCalls /\ c.at = "tellAccepted" /\ c.question = q /\ c.choice = r.choice
        BY <2>r, <2>1, <4>1 DEF AcceptCalls
      <4>3. c \in QuestionCalls
        BY <4>2, QuestionForms
      <4>4. /\ Handling("questions", QuestionCalls)' /\ begun' = begun
            /\ InFlight' = InFlight /\ req'[p] = c
            /\ \A s \in Requests \ {p} : req'[s] = req[s]
        BY <2>1, <4>1, <4>3, Goes
      <4> QED
        BY <3>2, <4>2, <4>4
    <3>3. Return(p) \/ (r.choice # None /\ Goto(p, "tellAccepted"))
      BY <1>11, <2>r DEF SaveAcceptance
    <3> QED
      BY <3>1, <3>2, <3>3
  <2>5. /\ QuestionsSound' /\ question' \in [Items -> Question \cup {None}]
        /\ question'[q] = item /\ item # None
        /\ \A i \in Items : question[i] # None => question'[i] # None
        /\ \A s \in InFlight \ {p} : Asks(s) => question'[req[s].id] = None
    BY <2>r, <2>1, <2>2, <2>3, <2>4, QuestionStored
  <2>6. QuestionsTyped'
    BY <2>3, <2>5 DEF QuestionsTyped
  <2>7. p \in InFlight' => QuestionRead(p)' /\ ~ Asks(p)'
    BY <2>4, <2>5 DEF QuestionRead, Asks
  <2> QED
    BY <2>3, <2>4, <2>5, <2>6, <2>7, QuestionStep
<1>12. ASSUME NEW p \in Requests, ReadMessages(p)
       PROVE  QuestionsInv'
  <2>r. PICK r, q : r = req[p] /\ q = r.question
    OBVIOUS
  <2>1. p \in InFlight /\ r.at = "page" /\ r \in PageCalls /\ q \in Items
    BY <1>12, <2>r, QuestionKinds DEF ReadMessages, At, PageCalls
  <2>2. /\ shown' = [question |-> r.copy, answers |-> answers[q]] /\ Return(p)
        /\ UNCHANGED <<question, root, answers, told, rewritten, unmarked>>
    BY <1>12, <2>r DEF ReadMessages
  <2>3. r.copy \in Question /\ answers[q] \subseteq Items /\ Sound(r.copy, answers[q])
    BY <2>r, <2>1 DEF PageCalls, QuestionRead
  <2>4. QuestionsTyped'
    BY <2>2, <2>3 DEF QuestionsTyped
  <2>5. AcceptedShown'
    BY <2>2, <2>3 DEF AcceptedShown, Sound
  <2> QED
    BY <2>1, <2>2, <2>4, <2>5, QuestionEnds
<1>13. ASSUME NEW p \in Requests, FailQuestionCall(p)
       PROVE  QuestionsInv'
  <2>1. p \in InFlight /\ Fault(p, None) /\ UNCHANGED <<question, root, answers, told, rewritten, shown>>
    BY <1>13 DEF FailQuestionCall
  <2>2. unmarked' \subseteq Items
    <3>1. \A q \in Unmarked : req[q].question \in Items
      BY QuestionKinds DEF Unmarked, AnswerCalls
    <3> QED
      BY <1>13, <3>1 DEF FailQuestionCall
  <2>3. QuestionsTyped' /\ AcceptedShown'
    BY <2>1, <2>2 DEF QuestionsInv, QuestionsTyped, QuestionsSound, AcceptedShown
  <2> QED
    BY <2>1, <2>3, QuestionEnds
<1>14. CASE CrashQuestions
  <2>1. Crash /\ UNCHANGED <<question, root, answers, told, rewritten, shown>>
    BY <1>14 DEF CrashQuestions
  <2>2. unmarked' \subseteq Items
    <3>1. \A q \in Unmarked : req[q].question \in Items
      BY QuestionKinds DEF Unmarked, AnswerCalls
    <3> QED
      BY <1>14, <3>1 DEF CrashQuestions
  <2>3. Handling("questions", QuestionCalls)' /\ begun' = begun /\ InFlight' = {}
    BY <2>1, Dies
  <2>4. QuestionsTyped' /\ AcceptedShown'
    BY <2>1, <2>2 DEF QuestionsInv, QuestionsTyped, QuestionsSound, AcceptedShown
  <2>5. QuestionsSound'
    BY <2>1, <2>3, <2>4, QuestionsStand
  <2> QED
    BY <2>3, <2>4, <2>5 DEF QuestionsInv, AsksApart
<1>15. CASE UNCHANGED <<handlers, questionVars>>
  <2>1. UNCHANGED handlers /\ UNCHANGED questionVars
    BY <1>15
  <2>2. Handling("questions", QuestionCalls)' /\ begun' = begun /\ InFlight' = InFlight /\ req' = req
    BY <2>1, Rests
  <2>3. QuestionsTyped' /\ AcceptedShown'
    BY <2>1 DEF QuestionsInv, QuestionsTyped, QuestionsSound, AcceptedShown, questionVars
  <2>4. QuestionsSound'
    BY <2>1, <2>2, <2>3, QuestionsStand DEF questionVars
  <2>5. AsksApart' /\ \A p \in InFlight' : QuestionRead(p)'
    BY <2>1, <2>2 DEF QuestionsInv, AsksApart, Asks, QuestionRead, Sound, questionVars
  <2> QED
    BY <2>2, <2>3, <2>4, <2>5 DEF QuestionsInv
<1> QED
  BY <1>1, <1>2, <1>3, <1>4, <1>5, <1>6, <1>7, <1>8, <1>9, <1>10, <1>11, <1>12, <1>13, <1>14, <1>15 DEF QuestionsNext

\* An acceptance changes by a save, or by an answer that stores an older copy.
LEMMA AcceptanceSteps ==
  ASSUME QuestionsInv, [QuestionsNext]_<<handlers, questionVars>>, NEW q \in Items, question[q] # None,
         question'[q].accepted # question[q].accepted
  PROVE  \/ \E p \in Requests : At(p, "save") /\ req[p].question = q /\ req'[p] # req[p]
         \/ q \in rewritten'
<1> USE QuestionHandlers
<1>1. ASSUME NEW p \in Requests, StoreQuestion(p)
      PROVE  FALSE
  <2>1. p \in InFlight /\ req[p].at = "question" /\ question[req[p].id] = None
    BY <1>1 DEF StoreQuestion, At, QuestionRead
  <2> QED
    BY <1>1, <2>1 DEF StoreQuestion
<1>2. ASSUME NEW p \in Requests, MarkAnswered(p)
      PROVE  q \in rewritten'
  <2>r. PICK r : r = req[p]
    OBVIOUS
  <2>1. p \in InFlight /\ r.at = "mark" /\ r \in AnswerCalls /\ r.copy # None
    BY <1>2, <2>r, QuestionKinds DEF MarkAnswered, At, QuestionRead
  <2>2. r.copy \in Question /\ r.question \in Items
    BY <2>1 DEF AnswerCalls
  <2>3. [r.copy EXCEPT !.status = "answered"].accepted = r.copy.accepted
    BY <2>2 DEF Question
  <2>4. /\ question' = [question EXCEPT ![r.question] = [r.copy EXCEPT !.status = "answered"]]
        /\ rewritten' = (IF question[r.question] = r.copy THEN rewritten ELSE rewritten \cup {r.question})
    BY <1>2, <2>r DEF MarkAnswered, Stored
  <2>5. r.question = q
    BY <2>4
  <2> QED
    BY <2>2, <2>3, <2>4, <2>5
<1>3. ASSUME NEW p \in Requests, SaveAcceptance(p)
      PROVE  At(p, "save") /\ req[p].question = q /\ req'[p] # req[p]
  <2>1. p \in InFlight /\ req[p].at = "save" /\ req[p] \in AcceptCalls /\ At(p, "save")
    BY <1>3, QuestionKinds DEF SaveAcceptance, At
  <2>2. req[p].question = q
    BY <1>3 DEF SaveAcceptance, Stored
  <2>3. CASE Return(p)
    BY <2>1, <2>2, <2>3, Ends DEF InFlight
  <2>4. CASE Goto(p, "tellAccepted")
    <3>1. PICK c : c = [req[p] EXCEPT !.at = "tellAccepted"] /\ Continue(p, c)
      BY <2>4 DEF Goto
    <3>2. c \in AcceptCalls /\ c.at = "tellAccepted"
      BY <2>1, <3>1 DEF AcceptCalls
    <3>3. c \in QuestionCalls
      BY <3>2, QuestionForms
    <3>4. req'[p] = c
      BY <2>1, <3>1, <3>3, Goes
    <3> QED
      BY <2>1, <2>2, <3>2, <3>4
  <2> QED
    BY <1>3, <2>3, <2>4 DEF SaveAcceptance
<1>4. ASSUME NEW p \in Requests,
             \/ Ask(p)
             \/ \E s \in Items : Answer(p, s) \/ View(p, s) \/ \E choice \in Items \cup {None} : Accept(p, s, choice)
             \/ StoreRoot(p) \/ LoadForAnswer(p) \/ StoreAnswer(p) \/ TellAsker(p)
             \/ LoadForAccept(p) \/ ChooseAnswer(p) \/ TellAuthor(p) \/ ReadMessages(p) \/ FailQuestionCall(p)
      PROVE  question' = question
  BY <1>4 DEF Ask, Answer, View, Accept, StoreRoot, LoadForAnswer, StoreAnswer, TellAsker, LoadForAccept,
              ChooseAnswer, TellAuthor, ReadMessages, FailQuestionCall, questionVars
<1>5. CASE CrashQuestions \/ UNCHANGED <<handlers, questionVars>>
  BY <1>5 DEF CrashQuestions, questionVars
<1> QED
  BY <1>1, <1>2, <1>3, <1>4, <1>5 DEF QuestionsNext

LEMMA QuestionsAgree ==
  ASSUME QuestionsInv
  PROVE  StatusAgrees /\ AcceptedShown
<1> USE QuestionHandlers
<1>1. AcceptedShown
  BY DEF QuestionsInv, QuestionsSound
<1>2. ASSUME NEW q \in Items, question[q] # None
      PROVE  /\ q \in root
             /\ question[q].status = "resolved" <=> question[q].accepted # None
             /\ question[q].accepted \in answers[q] \cup {None}
             /\ Cardinality(answers[q]) = 0 => question[q].status = "open"
  <2>1. IsFiniteSet(Items)
    BY FS_Interval DEF Items
  <2>2. IsFiniteSet(answers[q])
    BY <2>1, FS_Subset
  <2>3. Cardinality(answers[q]) = 0 => answers[q] = {}
    BY <2>2, FS_EmptySet
  <2> QED
    BY <1>2, <2>3 DEF QuestionsInv, QuestionsSound, Sound
<1> QED
  BY <1>1, <1>2 DEF StatusAgrees, Query, Summary

\* Questions, whatever answers, acceptances and views overlap, fail or die: what a question
\* says of its answers agrees with those that are stored and with what a page shows, and an
\* acceptance is undone by another one only, or by an answer that was begun before it.
THEOREM AnswersAccepted == QuestionsSpec => QuestionsPromise
<1>1. QuestionsInv => StatusAgrees /\ AcceptedShown
  BY QuestionsAgree
<1>2. QuestionsInv /\ [QuestionsNext]_<<handlers, questionVars>> =>
        [\A q \in Items : question[q] # None /\ question'[q].accepted # question[q].accepted =>
           \/ \E p \in Requests : At(p, "save") /\ req[p].question = q /\ req'[p] # req[p]
           \/ q \in rewritten']_<<handlers, questionVars>>
  BY AcceptanceSteps
<1>3. QuestionsSpec => []QuestionsInv
  BY QuestionsStart, QuestionsKept, PTL DEF QuestionsSpec
<1> QED
  BY <1>1, <1>2, <1>3, PTL DEF QuestionsSpec, QuestionsPromise, AcceptanceStands
-----------------------------------------------------------------------------
(* Notifications.                                                          *)

NotificationsSpec ==
  /\ HandlersInit /\ service = "notifications" /\ NotificationsInit
  /\ [][NotificationsNext]_<<handlers, noticeVars>>

\* An item is one request's, and is stored once before it can be marked or deleted.
NoticesApart ==
  /\ notice \cup deleted \cup marked \subseteq 1 .. begun
  /\ \A p \in InFlight : req[p].at = "store" =>
       req[p].id <= begun /\ req[p].id \notin notice \cup deleted \cup marked
  /\ \A p, q \in InFlight :
       req[p].at = "store" /\ req[q].at = "store" /\ req[p].id = req[q].id => p = q

NewerThan(i, items) == Cardinality({j \in items : j > i})

\* What handler p listed is or was stored, and what it will delete is old.
NoticesListed(p) ==
  /\ req[p].at \in {"delete", "mark"} =>
       req[p].rest # {} /\ req[p].rest \subseteq notice \cup deleted
  /\ req[p].at = "delete" =>
       \A i \in req[p].rest : NewerThan(i, notice \cup deleted) >= MaxStored

\* Handler p will delete item i if it is old, or has listed it already.
WillDelete(p, i) == req[p].at = "list" \/ (req[p].at = "delete" /\ i \in req[p].rest)

\* Each item is among the newest, or a handler will delete it.
OldPruned ==
  \A i \in notice \ deleted :
    \/ NewerThan(i, notice \ deleted) < MaxStored
    \/ behind # {}
    \/ \E p \in InFlight : WillDelete(p, i)

NoticesInv ==
  /\ service = "notifications" /\ NotificationsTypeOK
  /\ NoticesApart /\ OldPruned /\ ReadStays
  /\ \A p \in InFlight : NoticesListed(p)

LEMMA NoticeKinds ==
  ASSUME NEW c \in NoticeCalls
  PROVE  /\ c.at \in {"store", "list"} => c \in [at : {"store", "list"}, id : Notices]
         /\ c.at \in {"delete", "mark"} => c \in [at : {"delete", "mark"}, rest : SUBSET Notices]
BY DEF NoticeCalls

LEMMA NoticeForms ==
  /\ [at : {"store", "list"}, id : Notices] \subseteq NoticeCalls
  /\ [at : {"delete", "mark"}, rest : SUBSET Notices] \subseteq NoticeCalls
  /\ [at |-> "listUnread"] \in NoticeCalls
BY DEF NoticeCalls

LEMMA NoticeHandlers ==
  ASSUME NoticesInv
  PROVE  /\ Handling("notifications", NoticeCalls) /\ None \notin NoticeCalls
         /\ begun \in 0 .. MaxRequests /\ MaxRequests \in Nat /\ MaxStored \in Nat /\ MaxStored > 0
         /\ \A p \in InFlight : p \in Requests /\ req[p] \in NoticeCalls
         /\ notice \subseteq Notices /\ read \subseteq notice
         /\ marked \subseteq Notices /\ deleted \subseteq Notices /\ behind \subseteq Notices
<1>1. Handling("notifications", NoticeCalls)
  BY DEF NoticesInv, NotificationsTypeOK, Handling
<1> QED
  BY <1>1, HandledCalls, NotificationsAssumption, HandlersAssumption DEF NoticesInv, NotificationsTypeOK

\* Of more items, as many are newer.
LEMMA NewerMore ==
  ASSUME NEW items \in SUBSET Notices, NEW more \in SUBSET Notices, items \subseteq more, NEW i
  PROVE  /\ NewerThan(i, items) \in Nat /\ NewerThan(i, more) \in Nat
         /\ NewerThan(i, items) <= NewerThan(i, more)
<1>1. IsFiniteSet(Notices)
  BY HandlersAssumption, FS_Interval DEF Notices
<1>2. IsFiniteSet({j \in items : j > i}) /\ IsFiniteSet({j \in more : j > i})
  BY <1>1, FS_Subset
<1>3. {j \in items : j > i} \in SUBSET {j \in more : j > i}
  OBVIOUS
<1> QED
  BY <1>2, <1>3, FS_Subset, FS_CardinalityType DEF NewerThan

\* A handler's work goes on as long as there is some.
LEMMA NoticeWork ==
  ASSUME NoticesInv, NEW p \in InFlight, NEW place \in {"delete", "mark"}, NEW rest \in SUBSET Notices,
         Work(p, place, rest)
  PROVE  /\ Handling("notifications", NoticeCalls)' /\ begun' = begun
         /\ InFlight' = IF rest = {} THEN InFlight \ {p} ELSE InFlight
         /\ rest # {} => req'[p].at = place /\ req'[p].rest = rest
         /\ \A q \in Requests \ {p} : req'[q] = req[q]
<1> USE NoticeHandlers
<1>1. CASE rest = {}
  <2>1. Return(p)
    BY <1>1 DEF Work
  <2> QED
    BY <1>1, <2>1, Ends
<1>2. CASE rest # {}
  <2>1. PICK c : c = [at |-> place, rest |-> rest] /\ Continue(p, c)
    BY <1>2 DEF Work
  <2>2. c \in NoticeCalls /\ c.at = place /\ c.rest = rest
    BY <2>1, NoticeForms
  <2>3. /\ Handling("notifications", NoticeCalls)' /\ begun' = begun
        /\ InFlight' = InFlight /\ req'[p] = c
        /\ \A q \in Requests \ {p} : req'[q] = req[q]
    BY <2>1, <2>2, Goes
  <2> QED
    BY <1>2, <2>2, <2>3
<1> QED
  BY <1>1, <1>2

\* A request starts that stores nothing new, or a handler goes on to list.
LEMMA NoticeStarts ==
  ASSUME NoticesInv, NEW p \in Requests, NEW c \in NoticeCalls, Begin(p, c), UNCHANGED noticeVars,
         c.at = "mark" => c.rest # {} /\ c.rest \subseteq notice,
         c.at # "delete", c.at = "store" => c.id = begun + 1
  PROVE  NoticesInv'
<1> USE NoticeHandlers
<1>1. /\ Handling("notifications", NoticeCalls)' /\ begun + 1 \in 1 .. MaxRequests /\ begun' = begun + 1
      /\ p \notin InFlight /\ InFlight' = InFlight \cup {p} /\ req'[p] = c
      /\ \A q \in Requests \ {p} : req'[q] = req[q]
  BY Begins
<1>2. service' = "notifications" /\ NotificationsTypeOK'
  BY <1>1 DEF NotificationsTypeOK, Handling, noticeVars
<1>3. notice \cup deleted \cup marked \subseteq 1 .. begun
  BY DEF NoticesInv, NoticesApart
<1>4. begun + 1 \notin notice \cup deleted \cup marked
  BY <1>3
<1>5. NoticesApart'
  <2>1. (notice \cup deleted \cup marked \subseteq 1 .. begun)'
    BY <1>1, <1>3 DEF noticeVars
  <2>2. \A q \in InFlight : req[q].at = "store" => req[q].id <= begun /\ req[q].id \in Notices
    BY NoticeKinds DEF NoticesInv, NoticesApart
  <2>3. \A q \in InFlight' : req'[q].at = "store" =>
          req'[q].id <= begun' /\ req'[q].id \notin (notice \cup deleted \cup marked)'
    BY <1>1, <1>4, <2>2 DEF NoticesInv, NoticesApart, noticeVars, Notices
  <2>4. \A q \in InFlight : req[q].at = "store" => req[q].id # begun + 1
    BY <2>2 DEF Notices
  <2>5. \A q1, q2 \in InFlight' :
          req'[q1].at = "store" /\ req'[q2].at = "store" /\ req'[q1].id = req'[q2].id => q1 = q2
    BY <1>1, <2>4 DEF NoticesInv, NoticesApart
  <2> QED
    BY <2>1, <2>3, <2>5 DEF NoticesApart
<1>6. OldPruned'
  BY <1>1 DEF NoticesInv, OldPruned, WillDelete, noticeVars
<1>7. ReadStays'
  BY DEF NoticesInv, ReadStays, noticeVars
<1>8. \A q \in InFlight' : NoticesListed(q)'
  <2>1. NoticesListed(p)'
    BY <1>1 DEF NoticesListed, noticeVars
  <2>2. ASSUME NEW q \in InFlight
        PROVE  NoticesListed(q)'
    BY <1>1 DEF NoticesInv, NoticesListed, noticeVars
  <2> QED
    BY <1>1, <2>1, <2>2
<1> QED
  BY <1>2, <1>5, <1>6, <1>7, <1>8 DEF NoticesInv

\* What was listed stays or was deleted.
LEMMA NoticesListedStay ==
  ASSUME NoticesInv, NEW q \in InFlight, req'[q] = req[q],
         notice \cup deleted \subseteq notice' \cup deleted', notice' \cup deleted' \subseteq Notices
  PROVE  NoticesListed(q)'
<1>1. NoticesListed(q)
  BY DEF NoticesInv
<1>2. \A i : /\ NewerThan(i, notice \cup deleted) <= NewerThan(i, notice' \cup deleted')
             /\ NewerThan(i, notice \cup deleted) \in Nat /\ NewerThan(i, notice' \cup deleted') \in Nat
  BY NewerMore
<1>3. \A i : NewerThan(i, notice \cup deleted) >= MaxStored => NewerThan(i, notice' \cup deleted') >= MaxStored
  BY <1>2, NoticeHandlers
<1> QED
  BY <1>1, <1>3 DEF NoticesListed, NewerThan

LEMMA NotificationsStart ==
  HandlersInit /\ service = "notifications" /\ NotificationsInit => NoticesInv
<1> SUFFICES ASSUME HandlersInit, service = "notifications", NotificationsInit
             PROVE  NoticesInv
  OBVIOUS
<1>1. Handling("notifications", NoticeCalls) /\ begun = 0 /\ InFlight = {}
  BY Starts
<1>2. NotificationsTypeOK
  BY <1>1 DEF NotificationsTypeOK, Handling, NotificationsInit
<1> QED
  BY <1>1, <1>2 DEF NoticesInv, NoticesApart, OldPruned, ReadStays, NotificationsInit

LEMMA NotificationsKept ==
  NoticesInv /\ [NotificationsNext]_<<handlers, noticeVars>> => NoticesInv'
<1> SUFFICES ASSUME NoticesInv, [NotificationsNext]_<<handlers, noticeVars>>
             PROVE  NoticesInv'
  OBVIOUS
<1> USE NoticeHandlers
<1>1. ASSUME NEW p \in Requests, Notify(p)
      PROVE  NoticesInv'
  <2>1. PICK c : c = [at |-> "store", id |-> begun + 1] /\ Begin(p, c) /\ UNCHANGED noticeVars
    BY <1>1 DEF Notify
  <2>2. begun + 1 \in Notices
    BY <2>1 DEF Begin, Notices
  <2>3. c \in NoticeCalls /\ c.at = "store" /\ c.id = begun + 1
    BY <2>1, <2>2, NoticeForms
  <2> QED
    BY <2>1, <2>3, NoticeStarts
<1>2. ASSUME NEW p \in Requests, MarkAllRead(p)
      PROVE  NoticesInv'
  <2>1. PICK c : c = [at |-> "listUnread"] /\ Begin(p, c) /\ UNCHANGED noticeVars
    BY <1>2 DEF MarkAllRead
  <2>2. c \in NoticeCalls /\ c.at = "listUnread"
    BY <2>1, NoticeForms
  <2> QED
    BY <2>1, <2>2, NoticeStarts
<1>3. ASSUME NEW p \in Requests, NEW i \in Notices, MarkRead(p, i)
      PROVE  NoticesInv'
  <2>1. PICK c : c = [at |-> "mark", rest |-> {i}] /\ Begin(p, c) /\ UNCHANGED noticeVars /\ i \in notice
    BY <1>3 DEF MarkRead
  <2>2. c \in NoticeCalls /\ c.at = "mark" /\ c.rest = {i}
    BY <2>1, NoticeForms
  <2> QED
    BY <2>1, <2>2, NoticeStarts
<1>4. ASSUME NEW p \in Requests, StoreNotice(p)
      PROVE  NoticesInv'
  <2>r. PICK r, i : r = req[p] /\ i = r.id
    OBVIOUS
  <2>1. p \in InFlight /\ r.at = "store" /\ r \in [at : {"store", "list"}, id : Notices] /\ i \in Notices
    BY <1>4, <2>r, NoticeKinds DEF StoreNotice, At
  <2>2. PICK c : c = [r EXCEPT !.at = "list"] /\ Continue(p, c)
    BY <1>4, <2>r DEF StoreNotice, Goto
  <2>3. c \in NoticeCalls /\ c.at = "list"
    <3>1. c \in [at : {"store", "list"}, id : Notices] /\ c.at = "list"
      BY <2>1, <2>2
    <3> QED
      BY <3>1, NoticeForms
  <2>4. /\ Handling("notifications", NoticeCalls)' /\ begun' = begun
        /\ InFlight' = InFlight /\ req'[p] = c
        /\ \A q \in Requests \ {p} : req'[q] = req[q]
    BY <2>1, <2>2, <2>3, Goes
  <2>5. notice' = notice \cup {i} /\ UNCHANGED <<read, marked, deleted, behind>>
    BY <1>4, <2>r DEF StoreNotice
  <2>6. service' = "notifications" /\ NotificationsTypeOK'
    BY <2>1, <2>4, <2>5 DEF NotificationsTypeOK, Handling
  <2>7. i <= begun /\ i \notin notice \cup deleted \cup marked
    BY <2>r, <2>1 DEF NoticesInv, NoticesApart
  <2>8. NoticesApart'
    <3>1. \A q \in InFlight \ {p} : req[q].at = "store" => req[q].id # i
      BY <2>r, <2>1 DEF NoticesInv, NoticesApart
    <3> QED
      BY <2>1, <2>3, <2>4, <2>5, <2>7, <3>1 DEF NoticesInv, NoticesApart, Notices
  <2>9. OldPruned'
    BY <2>3, <2>4, <2>1 DEF OldPruned, WillDelete
  <2>10. ReadStays'
    BY <2>5, <2>7 DEF NoticesInv, ReadStays
  <2>11. NoticesListed(p)'
    BY <2>3, <2>4 DEF NoticesListed
  <2>12. \A q \in InFlight \ {p} : NoticesListed(q)'
    BY <2>1, <2>4, <2>5, NoticesListedStay
  <2> QED
    BY <2>4, <2>6, <2>8, <2>9, <2>10, <2>11, <2>12 DEF NoticesInv
<1>5. ASSUME NEW p \in Requests, ListPrunable(p)
      PROVE  NoticesInv'
  <2>1. /\ p \in InFlight /\ req[p].at = "list" /\ Work(p, "delete", Prunable)
        /\ behind' = {} /\ UNCHANGED <<notice, read, marked, deleted>> /\ Prunable \in SUBSET Notices
    BY <1>5 DEF ListPrunable, At, Prunable
  <2>2. /\ Handling("notifications", NoticeCalls)' /\ begun' = begun
        /\ InFlight' = IF Prunable = {} THEN InFlight \ {p} ELSE InFlight
        /\ Prunable # {} => req'[p].at = "delete" /\ req'[p].rest = Prunable
        /\ \A q \in Requests \ {p} : req'[q] = req[q]
    BY <2>1, NoticeWork
  <2>3. service' = "notifications" /\ NotificationsTypeOK'
    BY <2>1, <2>2 DEF NotificationsTypeOK, Handling
  <2>4. NoticesApart'
    BY <2>1, <2>2 DEF NoticesInv, NoticesApart
  <2>5. OldPruned'
    <3> SUFFICES ASSUME NEW i \in notice \ deleted, ~ (NewerThan(i, notice \ deleted) < MaxStored)
                 PROVE  p \in InFlight' /\ req'[p].at = "delete" /\ i \in req'[p].rest
      BY <2>1 DEF OldPruned, WillDelete, NewerThan
    <3>1. NewerThan(i, notice \ deleted) <= NewerThan(i, notice) /\ NewerThan(i, notice) \in Nat
          /\ NewerThan(i, notice \ deleted) \in Nat
      BY NewerMore
    <3>2. NewerThan(i, notice) >= MaxStored
      BY <3>1
    <3>3. i \in Prunable
      BY <3>2 DEF NewerThan, Prunable, Newer
    <3> QED
      BY <2>1, <2>2, <3>3
  <2>6. ReadStays'
    BY <2>1 DEF NoticesInv, ReadStays
  <2>7. p \in InFlight' => NoticesListed(p)'
    <3> SUFFICES ASSUME Prunable # {}
                 PROVE  NoticesListed(p)'
      BY <2>1, <2>2
    <3>1. Prunable \subseteq notice
      BY DEF Prunable
    <3>2. ASSUME NEW i \in Prunable
          PROVE  NewerThan(i, notice \cup deleted) >= MaxStored
      <4>1. NewerThan(i, notice) >= MaxStored
        BY DEF NewerThan, Prunable, Newer
      <4>2. NewerThan(i, notice) <= NewerThan(i, notice \cup deleted) /\ NewerThan(i, notice) \in Nat
            /\ NewerThan(i, notice \cup deleted) \in Nat
        BY NewerMore
      <4> QED
        BY <4>1, <4>2
    <3> QED
      BY <2>1, <2>2, <3>1, <3>2 DEF NoticesListed, NewerThan
  <2>8. \A q \in InFlight \ {p} : NoticesListed(q)'
    BY <2>1, <2>2, NoticesListedStay
  <2> QED
    BY <2>2, <2>3, <2>4, <2>5, <2>6, <2>7, <2>8 DEF NoticesInv
<1>6. ASSUME NEW p \in Requests, DeleteNotice(p) \/ StoreMarked(p)
      PROVE  NoticesInv'
  <2>1. PICK i, rest, place :
          /\ p \in InFlight /\ req[p].at = place /\ place \in {"delete", "mark"} /\ i = Max(req[p].rest)
          /\ rest = req[p].rest \ {i} /\ Work(p, place, rest)
          /\ place = "delete" => /\ notice' = notice \ {i} /\ read' = read \ {i} /\ deleted' = deleted \cup {i}
                                 /\ UNCHANGED <<marked, behind>>
          /\ place = "mark" => /\ notice' = notice \cup {i} /\ read' = read \cup {i} /\ marked' = marked \cup {i}
                               /\ UNCHANGED <<deleted, behind>>
    BY <1>6 DEF DeleteNotice, StoreMarked, At
  <2>2. /\ req[p].rest # {} /\ req[p].rest \subseteq notice \cup deleted /\ req[p].rest \subseteq Notices
    BY <2>1, NoticeKinds DEF NoticesInv, NoticesListed
  <2>3. i \in req[p].rest
    <3>1. \E x \in req[p].rest : \A y \in req[p].rest : x >= y
      BY <2>2, Greatest DEF Notices
    <3> QED
      BY <2>1, <3>1 DEF Max
  <2>4. i \in Notices /\ i \in notice \cup deleted /\ i \in 1 .. begun /\ rest \in SUBSET Notices
    BY <2>1, <2>2, <2>3 DEF NoticesInv, NoticesApart
  <2>5. /\ Handling("notifications", NoticeCalls)' /\ begun' = begun
        /\ InFlight' = IF rest = {} THEN InFlight \ {p} ELSE InFlight
        /\ rest # {} => req'[p].at = place /\ req'[p].rest = rest
        /\ \A q \in Requests \ {p} : req'[q] = req[q]
    <3>1. p \in InFlight /\ place \in {"delete", "mark"} /\ Work(p, place, rest) /\ rest \in SUBSET Notices
      BY <2>1, <2>4
    <3> HIDE <2>1
    <3> QED
      BY <3>1, NoticeWork
  <2>6. service' = "notifications" /\ NotificationsTypeOK'
    BY ZenonT(60), <2>1, <2>4, <2>5 DEF NotificationsTypeOK, Handling
  <2>7. notice' \cup deleted' = notice \cup deleted /\ notice' \ deleted' \subseteq notice \ deleted
    BY <2>1, <2>4
  <2>8. NoticesApart'
    <3>1. (notice \cup deleted \cup marked)' = notice \cup deleted \cup marked
      BY <2>1, <2>4
    <3>2. \A q \in InFlight' : req'[q].at = "store" => q \in InFlight \ {p}
      BY <2>1, <2>5
    <3> QED
      BY <2>5, <3>1, <3>2 DEF NoticesInv, NoticesApart
  <2>9. OldPruned'
    <3> SUFFICES ASSUME NEW k \in notice' \ deleted', ~ (NewerThan(k, notice' \ deleted') < MaxStored), behind = {}
                 PROVE  \E q \in InFlight' : WillDelete(q, k)'
      BY <2>1 DEF OldPruned, NewerThan
    <3>1. NewerThan(k, notice' \ deleted') <= NewerThan(k, notice \ deleted)
          /\ NewerThan(k, notice' \ deleted') \in Nat /\ NewerThan(k, notice \ deleted) \in Nat
      BY <2>7, NewerMore
    <3>2. PICK q \in InFlight : WillDelete(q, k)
      BY <2>7, <3>1 DEF NoticesInv, OldPruned
    <3>3. CASE q = p
      <4>1. req[p].at = "delete" /\ place = "delete" /\ k \in req[p].rest /\ k # i
        BY <2>1, <3>2, <3>3 DEF WillDelete
      <4> QED
        BY <2>1, <2>5, <3>3, <4>1 DEF WillDelete
    <3>4. CASE q # p
      BY <2>5, <3>2, <3>4 DEF WillDelete
    <3> QED
      BY <3>3, <3>4
  <2>10. ReadStays'
    BY <2>1 DEF NoticesInv, ReadStays
  <2>11. rest # {} => NoticesListed(p)'
    <3>1. NoticesListed(p)
      BY <2>1 DEF NoticesInv
    <3> QED
      BY <2>1, <2>5, <2>7, <3>1 DEF NoticesListed, NewerThan
  <2>12. \A q \in InFlight \ {p} : NoticesListed(q)'
    BY <2>5, <2>7, NoticesListedStay
  <2> QED
    BY <2>5, <2>6, <2>8, <2>9, <2>10, <2>11, <2>12 DEF NoticesInv
<1>7. ASSUME NEW p \in Requests, ListUnread(p)
      PROVE  NoticesInv'
  <2>1. /\ p \in InFlight /\ req[p].at = "listUnread" /\ Work(p, "mark", notice \ read) /\ UNCHANGED noticeVars
        /\ notice \ read \in SUBSET Notices
    BY <1>7 DEF ListUnread, At
  <2>2. /\ Handling("notifications", NoticeCalls)' /\ begun' = begun
        /\ InFlight' = IF notice \ read = {} THEN InFlight \ {p} ELSE InFlight
        /\ notice \ read # {} => req'[p].at = "mark" /\ req'[p].rest = notice \ read
        /\ \A q \in Requests \ {p} : req'[q] = req[q]
    BY <2>1, NoticeWork
  <2>3. service' = "notifications" /\ NotificationsTypeOK'
    BY <2>1, <2>2 DEF NotificationsTypeOK, Handling, noticeVars
  <2>4. NoticesApart'
    BY <2>1, <2>2 DEF NoticesInv, NoticesApart, noticeVars
  <2>5. OldPruned'
    BY ZenonT(60), <2>1, <2>2 DEF NoticesInv, OldPruned, WillDelete, noticeVars
  <2>6. ReadStays'
    BY <2>1 DEF NoticesInv, ReadStays, noticeVars
  <2>7. p \in InFlight' => NoticesListed(p)'
    BY <2>1, <2>2 DEF NoticesListed, noticeVars
  <2>8. \A q \in InFlight \ {p} : NoticesListed(q)'
    BY <2>1, <2>2, NoticesListedStay DEF noticeVars
  <2> QED
    BY <2>2, <2>3, <2>4, <2>5, <2>6, <2>7, <2>8 DEF NoticesInv
<1>8. ASSUME NEW p \in Requests, FailNotice(p)
      PROVE  NoticesInv'
  <2>1. /\ p \in InFlight /\ Fault(p, None) /\ behind' = behind \cup Uncounted({p})
        /\ UNCHANGED <<notice, read, marked, deleted>>
    BY <1>8 DEF FailNotice
  <2>2. /\ Handling("notifications", NoticeCalls)' /\ begun' = begun
        /\ InFlight' = InFlight \ {p}
        /\ \A q \in Requests \ {p} : req'[q] = req[q]
    BY <2>1, Ends
  <2>3. service' = "notifications" /\ NotificationsTypeOK'
    BY <2>1, <2>2 DEF NotificationsTypeOK, Handling, Uncounted
  <2>4. NoticesApart'
    BY <2>1, <2>2 DEF NoticesInv, NoticesApart
  <2>5. OldPruned'
    <3>1. ASSUME NEW i \in notice, WillDelete(p, i)
          PROVE  behind' # {}
      BY <2>1, <3>1 DEF WillDelete, Uncounted
    <3> QED
      BY <2>1, <2>2, <3>1 DEF NoticesInv, OldPruned, WillDelete
  <2>6. ReadStays'
    BY <2>1 DEF NoticesInv, ReadStays
  <2>7. \A q \in InFlight \ {p} : NoticesListed(q)'
    BY <2>1, <2>2, NoticesListedStay
  <2> QED
    BY <2>2, <2>3, <2>4, <2>5, <2>6, <2>7 DEF NoticesInv
<1>9. ASSUME CrashNotices
      PROVE  NoticesInv'
  <2>1. Crash /\ behind' = behind \cup Uncounted(InFlight) /\ UNCHANGED <<notice, read, marked, deleted>>
    BY <1>9 DEF CrashNotices
  <2>2. Handling("notifications", NoticeCalls)' /\ begun' = begun /\ InFlight' = {}
    BY <2>1, Dies
  <2>3. service' = "notifications" /\ NotificationsTypeOK'
    BY <2>1, <2>2 DEF NotificationsTypeOK, Handling, Uncounted
  <2>4. NoticesApart'
    BY <2>1, <2>2 DEF NoticesInv, NoticesApart
  <2>5. OldPruned'
    <3>1. ASSUME NEW i \in notice, NEW p \in InFlight, WillDelete(p, i)
          PROVE  behind' # {}
      BY <2>1, <3>1 DEF WillDelete, Uncounted
    <3> QED
      BY <2>1, <3>1 DEF NoticesInv, OldPruned
  <2>6. ReadStays'
    BY <2>1 DEF NoticesInv, ReadStays
  <2> QED
    BY <2>2, <2>3, <2>4, <2>5, <2>6 DEF NoticesInv
<1>10. ASSUME UNCHANGED <<handlers, noticeVars>>
       PROVE  NoticesInv'
  <2>1. Handling("notifications", NoticeCalls)' /\ begun' = begun /\ InFlight' = InFlight /\ req' = req
    BY <1>10, Rests
  <2>2. service' = "notifications" /\ NotificationsTypeOK'
    BY <1>10, <2>1 DEF NotificationsTypeOK, Handling, noticeVars
  <2>3. NoticesApart' /\ OldPruned' /\ ReadStays'
    BY ZenonT(60), <1>10, <2>1 DEF NoticesInv, NoticesApart, OldPruned, WillDelete, ReadStays, noticeVars
  <2>4. \A q \in InFlight : NoticesListed(q)'
    BY <1>10, <2>1, NoticesListedStay DEF noticeVars
  <2> QED
    BY <2>1, <2>2, <2>3, <2>4 DEF NoticesInv
<1> QED
  BY <1>1, <1>2, <1>3, <1>4, <1>5, <1>6, <1>7, <1>8, <1>9, <1>10 DEF NotificationsNext

\* Once nobody prunes any more, there is nothing to prune.
LEMMA NoticesBounded == NoticesInv => StoredBounded
<1> SUFFICES ASSUME NoticesInv, ~ Pruning, behind = {}
             PROVE  Cardinality(notice \ deleted) <= MaxStored
  BY DEF StoredBounded
<1> USE NoticeHandlers
<1>1. PICK items : items = notice \ deleted
  OBVIOUS
<1>2. items \subseteq Notices /\ items \subseteq Nat /\ IsFiniteSet(items) /\ Cardinality(items) \in Nat
  <2>1. items \subseteq Notices
    BY <1>1
  <2>2. items \subseteq Nat
    BY <2>1 DEF Notices
  <2>3. IsFiniteSet(Notices)
    BY FS_Interval DEF Notices
  <2>4. IsFiniteSet(items)
    BY <2>1, <2>3, FS_Subset
  <2> QED
    BY <2>1, <2>2, <2>4, FS_CardinalityType
<1> SUFFICES ASSUME Cardinality(items) > MaxStored
             PROVE  FALSE
  BY <1>1, <1>2
<1>3. items # {}
  BY <1>2, FS_EmptySet
<1>4. PICK i \in items : \A j \in items : i <= j
  BY <1>2, <1>3, Least
<1>5. {j \in items : j > i} = items \ {i}
  <2>1. \A j \in items : j > i <=> j # i
    BY <1>2, <1>4
  <2> QED
    BY <2>1
<1>6. Cardinality(items \ {i}) = Cardinality(items) - 1
  BY <1>2, FS_RemoveElement
<1>7. ~ (NewerThan(i, items) < MaxStored)
  BY <1>2, <1>5, <1>6 DEF NewerThan
<1>8. PICK p \in InFlight : WillDelete(p, i)
  BY <1>1, <1>7 DEF NoticesInv, OldPruned
<1> QED
  BY <1>8 DEF WillDelete, Pruning

\* What pruning deletes had MaxStored newer items.
LEMMA NoticesStep ==
  NoticesInv /\ [NotificationsNext]_<<handlers, noticeVars>> =>
    [\A i \in deleted' \ deleted :
       Cardinality({j \in notice \cup deleted : j > i}) >= MaxStored]_<<handlers, noticeVars>>
<1> SUFFICES ASSUME NoticesInv, NotificationsNext, NEW i \in deleted' \ deleted
             PROVE  Cardinality({j \in notice \cup deleted : j > i}) >= MaxStored
  OBVIOUS
<1>1. PICK p \in Requests : DeleteNotice(p)
  BY DEF NotificationsNext, Notify, MarkAllRead, MarkRead, StoreNotice, ListPrunable, ListUnread, StoreMarked,
         FailNotice, CrashNotices, noticeVars
<1>2. p \in InFlight /\ req[p].at = "delete" /\ i = Max(req[p].rest)
  BY <1>1 DEF DeleteNotice, At
<1>3. req[p].rest # {} /\ req[p].rest \subseteq Notices
  BY <1>2, NoticeHandlers, NoticeKinds DEF NoticesInv, NoticesListed
<1>4. i \in req[p].rest
  <2>1. \E x \in req[p].rest : \A y \in req[p].rest : x >= y
    BY <1>3, Greatest, HandlersAssumption DEF Notices
  <2> QED
    BY <1>2, <2>1 DEF Max
<1> QED
  BY <1>2, <1>4 DEF NoticesInv, NoticesListed, NewerThan

\* The newest items are kept and no more of them, and what was read stays read.
THEOREM NotificationsKeepTheirPromise == NotificationsSpec => NotificationsPromise
<1>1. NotificationsSpec => []NoticesInv
  BY NotificationsStart, NotificationsKept, PTL DEF NotificationsSpec
<1>2. NoticesInv => StoredBounded /\ ReadStays
  BY NoticesBounded DEF NoticesInv
<1>3. NotificationsSpec => [](StoredBounded /\ ReadStays)
  BY <1>1, <1>2, PTL
<1>4. NotificationsSpec => NewestKept
  BY <1>1, NoticesStep, PTL DEF NotificationsSpec, NewestKept
<1> QED
  BY <1>3, <1>4 DEF NotificationsPromise
-----------------------------------------------------------------------------
(* The blog.                                                               *)

BlogSpec == HandlersInit /\ service = "blog" /\ BlogInit /\ [][BlogNext]_<<handlers, blogVars>>

\* Handler p has stored the first publication of s, and not announced it.
Announces(p, s) ==
  p \in InFlight /\ req[p].at \in {"audit", "publish"} /\ req[p].slug = s /\ ToAnnounce(req[p])

\* One save at most has stored the first publication of a post and not announced it.
AnnouncedOf(s) ==
  /\ announced[s] <= 1 /\ (announced[s] = 1 => Published(post[s]))
  /\ \A p \in Requests : Announces(p, s) => announced[s] = 0 /\ Published(post[s])
  /\ \A p, q \in Requests : Announces(p, s) /\ Announces(q, s) => p = q
  /\ Published(post[s]) =>
       announced[s] = 1 \/ (\E p \in Requests : Announces(p, s)) \/ s \in unannounced \cup brought

PostsHold ==
  /\ \A p \in InFlight : req[p].at = "publish" => ToAnnounce(req[p])
  /\ \A s \in Slugs \ resaved : AnnouncedOf(s)

\* The comments agree on what the rate limit reads.
SameComment(x, y) ==
  x.slug = y.slug /\ x.author = y.author /\ x.time = y.time /\ x.since = y.since

Commenting(p) == req[p].at \in {"post", "comments", "comment"}

\* What handler p read before its next call.
CommentRead(p) ==
  LET r == req[p] IN
  /\ Commenting(p) => r.id <= begun /\ comment[r.id] = None /\ r.since \subseteq StoredComments
  /\ r.at = "comment" => r.since \cap Own(r.slug, r.author, r.now) = {}
  /\ r.at \in {"loadComment", "setStatus"} => comment[r.id] # None
  /\ r.at = "setStatus" => r.copy # None /\ SameComment(r.copy, comment[r.id])

CommentsApart ==
  \A p, q \in InFlight : Commenting(p) /\ Commenting(q) /\ req[p].id = req[q].id => p = q

CommentsHold ==
  /\ CommentsApart /\ RateOvershoot
  /\ \A c \in StoredComments : c <= begun /\ comment[c].since \subseteq StoredComments
  /\ \A p \in InFlight : CommentRead(p)

BlogInv == service = "blog" /\ BlogTypeOK /\ PostsHold /\ CommentsHold

ImportCalls == [at : {"marker", "import"}, build : Builds, todo : SUBSET Slugs, id : 1 .. MaxRequests]
SaveCalls == [at : Stages, slug : Slugs, input : Posts, copy : Posts \cup {None}]
CommentCalls ==
  [at : {"post", "comments", "comment", "auditComment"}, slug : Slugs, author : Readers, id : Comments,
   now : 0 .. MaxTicks, since : SUBSET Comments]
ModerationCalls ==
  [at : {"loadComment", "setStatus"}, id : Comments, status : {"visible", "hidden"}, copy : Comment \cup {None}]

LEMMA BlogKinds ==
  ASSUME NEW c \in BlogCalls
  PROVE  /\ c.at \in {"marker", "import"} => c \in ImportCalls
         /\ c.at \in {"load", "store", "audit", "publish"} => c \in SaveCalls
         /\ c.at \in {"post", "comments", "comment", "auditComment"} => c \in CommentCalls
         /\ c.at \in {"loadComment", "setStatus"} => c \in ModerationCalls
BY DEF BlogCalls, ImportCalls, SaveCalls, CommentCalls, ModerationCalls, Stages

LEMMA BlogForms ==
  /\ ImportCalls \subseteq BlogCalls /\ SaveCalls \subseteq BlogCalls
  /\ CommentCalls \subseteq BlogCalls /\ ModerationCalls \subseteq BlogCalls
BY DEF BlogCalls, ImportCalls, SaveCalls, CommentCalls, ModerationCalls

LEMMA BlogHandlers ==
  ASSUME BlogInv
  PROVE  /\ Handling("blog", BlogCalls) /\ None \notin BlogCalls
         /\ begun \in 0 .. MaxRequests /\ MaxRequests \in Nat
         /\ \A p \in InFlight : p \in Requests /\ req[p] \in BlogCalls
         /\ post \in [Slugs -> Posts \cup {None}]
         /\ imported \subseteq Builds /\ serving \in BOOLEAN
         /\ comment \in [Comments -> Comment \cup {None}]
         /\ clock \in 0 .. MaxTicks /\ MaxTicks \in Nat
         /\ announced \in [Slugs -> Nat]
         /\ resaved \subseteq Slugs /\ unannounced \subseteq Slugs /\ brought \subseteq Slugs
<1>1. Handling("blog", BlogCalls)
  BY DEF BlogInv, BlogTypeOK, Handling
<1> QED
  BY <1>1, HandledCalls, BlogAssumption, HandlersAssumption DEF BlogInv, BlogTypeOK

\* Handler p made a step: it is at call c or has ended, and the others are where they were.
BlogMoved(p) ==
  /\ Handling("blog", BlogCalls)' /\ begun' \in {begun, begun + 1}
  /\ InFlight' \subseteq InFlight \cup {p} /\ InFlight \ {p} \subseteq InFlight'
  /\ \A q \in Requests \ {p} : req'[q] = req[q]

LEMMA BlogGoes ==
  ASSUME BlogInv, NEW p \in Requests, NEW c \in BlogCalls, Begin(p, c) \/ (p \in InFlight /\ Continue(p, c))
  PROVE  /\ BlogMoved(p) /\ InFlight' = InFlight \cup {p} /\ req'[p] = c
         /\ Begin(p, c) => p \notin InFlight /\ begun + 1 \in Comments /\ begun' = begun + 1
<1> USE BlogHandlers
<1>1. CASE Begin(p, c)
  <2>1. /\ Handling("blog", BlogCalls)' /\ begun + 1 \in 1 .. MaxRequests /\ begun' = begun + 1
        /\ p \notin InFlight /\ InFlight' = InFlight \cup {p} /\ req'[p] = c
        /\ \A q \in Requests \ {p} : req'[q] = req[q]
    BY <1>1, Begins
  <2> QED
    BY <2>1 DEF BlogMoved, Comments
<1>2. CASE p \in InFlight /\ Continue(p, c)
  <2>1. /\ Handling("blog", BlogCalls)' /\ begun' = begun
        /\ InFlight' = InFlight /\ req'[p] = c
        /\ \A q \in Requests \ {p} : req'[q] = req[q]
    BY <1>2, Goes
  <2>2. ~ Begin(p, c)
    BY <1>2, HandledCalls DEF Begin
  <2> QED
    BY <1>2, <2>1, <2>2 DEF BlogMoved
<1> QED
  BY <1>1, <1>2

LEMMA BlogEnds ==
  ASSUME BlogInv, NEW p \in InFlight, Return(p) \/ Fault(p, None)
  PROVE  BlogMoved(p) /\ InFlight' = InFlight \ {p}
<1> USE BlogHandlers
<1>1. /\ Handling("blog", BlogCalls)' /\ begun' = begun
      /\ InFlight' = InFlight \ {p}
      /\ \A q \in Requests \ {p} : req'[q] = req[q]
  BY Ends
<1> QED
  BY <1>1 DEF BlogMoved

\* A step that is of no save leaves the saves as they are.
LEMMA PostsAside ==
  ASSUME BlogInv, NEW p \in Requests, BlogMoved(p), UNCHANGED <<post, announced, resaved, brought>>,
         unannounced \subseteq unannounced',
         p \in InFlight => req[p].at \notin {"audit", "publish"} \/ req[p].slug \in unannounced'
                             \/ ~ ToAnnounce(req[p]),
         p \in InFlight' => req'[p].at \notin {"audit", "publish"}
  PROVE  PostsHold'
<1> USE BlogHandlers
<1>1. \A q \in InFlight' : req'[q].at = "publish" => ToAnnounce(req'[q])
  BY DEF BlogInv, PostsHold, BlogMoved
<1>2. ASSUME NEW s \in Slugs \ resaved
      PROVE  AnnouncedOf(s)'
  <2>1. AnnouncedOf(s)
    BY <1>2 DEF BlogInv, PostsHold
  <2>2. \A q \in Requests : Announces(q, s)' => q # p /\ Announces(q, s)
    BY DEF BlogMoved, Announces
  <2>3. \A q \in Requests \ {p} : Announces(q, s) => Announces(q, s)'
    BY DEF BlogMoved, Announces
  <2>4. Announces(p, s) => s \in unannounced'
    BY DEF Announces
  <2> QED
    BY <2>1, <2>2, <2>3, <2>4 DEF AnnouncedOf
<1> QED
  BY <1>1, <1>2 DEF PostsHold

\* A step that stores no comment leaves them as they are.
LEMMA CommentsAside ==
  ASSUME BlogInv, NEW p \in Requests, BlogMoved(p), comment' = comment,
         p \in InFlight' =>
           /\ CommentRead(p)'
           /\ Commenting(p)' =>
                \/ begun' = begun + 1 /\ req'[p].id = begun + 1
                \/ p \in InFlight /\ Commenting(p) /\ req'[p].id = req[p].id
  PROVE  CommentsHold'
<1> USE BlogHandlers
<1>1. StoredComments' = StoredComments /\ begun <= begun'
      /\ \A s, a, t : Own(s, a, t)' = Own(s, a, t)
  BY DEF StoredComments, Own, BlogMoved
<1>2. \A q \in InFlight : Commenting(q) => req[q].id \in Nat /\ req[q].id <= begun /\ req[q].id # begun + 1
  <2> SUFFICES ASSUME NEW q \in InFlight, Commenting(q)
               PROVE  req[q].id \in Nat /\ req[q].id <= begun /\ req[q].id # begun + 1
    OBVIOUS
  <2>1. req[q] \in CommentCalls
    BY BlogKinds DEF Commenting
  <2>2. req[q].id \in Nat /\ req[q].id <= begun
    BY <2>1 DEF BlogInv, CommentsHold, CommentRead, CommentCalls, Comments
  <2> QED
    BY <2>2
<1>3. ASSUME NEW q \in InFlight', q # p
      PROVE  CommentRead(q)'
  <2>1. q \in InFlight /\ q \in Requests /\ req'[q] = req[q] /\ CommentRead(q)
    BY <1>3 DEF BlogMoved, BlogInv, CommentsHold
  <2>2. Commenting(q) => req[q].id <= begun'
    BY <1>2, <2>1 DEF BlogMoved
  <2> QED
    BY <1>1, <2>1, <2>2 DEF CommentRead, Commenting
<1>4. CommentsApart'
  <2>1. \A q \in InFlight' \ {p} : q \in InFlight /\ q \in Requests /\ req'[q] = req[q]
    BY DEF BlogMoved
  <2>2. \A q1, q2 \in InFlight : Commenting(q1) /\ Commenting(q2) /\ req[q1].id = req[q2].id => q1 = q2
    BY DEF BlogInv, CommentsHold, CommentsApart
  <2> QED
    BY <1>2, <2>1, <2>2 DEF CommentsApart, Commenting
<1>5. RateOvershoot'
  BY <1>1 DEF BlogInv, CommentsHold, RateOvershoot
<1>6. \A c \in StoredComments' : c <= begun' /\ comment'[c].since \subseteq StoredComments'
  <2>1. \A c \in StoredComments : c \in Nat /\ c <= begun /\ comment[c].since \subseteq StoredComments
    BY DEF BlogInv, CommentsHold, StoredComments, Comments
  <2> QED
    BY <1>1, <2>1 DEF BlogMoved
<1> QED
  BY <1>3, <1>4, <1>5, <1>6 DEF CommentsHold

\* A comment is stored: a new one that the rate allowed, or a copy with another status.
LEMMA CommentsGrow ==
  ASSUME BlogInv, NEW p \in InFlight, BlogMoved(p), begun' = begun,
         p \in InFlight' => req'[p].at = "auditComment",
         NEW i \in Comments, NEW x \in Comment, x # None, comment' = [comment EXCEPT ![i] = x],
         \/ comment[i] # None /\ SameComment(x, comment[i])
         \/ /\ comment[i] = None /\ i = req[p].id /\ Commenting(p)
            /\ x.since \subseteq StoredComments /\ x.since \cap Own(x.slug, x.author, x.time) = {}
  PROVE  CommentsHold'
<1> USE BlogHandlers
<1>1. comment'[i] = x /\ (\A c \in Comments \ {i} : comment'[c] = comment[c])
      /\ StoredComments' = StoredComments \cup {i}
  BY DEF StoredComments
<1>2. \A s, a, t : Own(s, a, t)' \subseteq Own(s, a, t) \cup {i}
  <2>1. comment[i] # None => x.slug = comment[i].slug /\ x.author = comment[i].author /\ x.time = comment[i].time
    BY DEF SameComment
  <2> QED
    BY <1>1, <2>1 DEF Own
<1>3. comment[i] # None => \A s, a, t : Own(s, a, t)' = Own(s, a, t)
  <2> SUFFICES ASSUME comment[i] # None, NEW s, NEW a, NEW t
               PROVE  Own(s, a, t)' = Own(s, a, t)
    OBVIOUS
  <2>1. x.slug = comment[i].slug /\ x.author = comment[i].author /\ x.time = comment[i].time
    BY DEF SameComment
  <2>2. StoredComments' = StoredComments /\ i \in StoredComments
    BY <1>1 DEF StoredComments
  <2>3. \A c \in StoredComments : /\ comment'[c].slug = comment[c].slug /\ comment'[c].author = comment[c].author
                                  /\ comment'[c].time = comment[c].time
    BY <1>1, <2>1 DEF StoredComments
  <2> QED
    BY <2>2, <2>3 DEF Own
<1>4. \A c \in StoredComments : comment[c].since \subseteq StoredComments /\ c <= begun
  BY DEF BlogInv, CommentsHold
<1>5. i <= begun
  <2>1. CASE comment[i] # None
    BY <1>4, <2>1 DEF StoredComments
  <2>2. CASE i = req[p].id /\ Commenting(p)
    BY <2>2 DEF BlogInv, CommentsHold, CommentRead
  <2> QED
    BY <2>1, <2>2
<1>6. /\ x.since \subseteq StoredComments
      /\ x.since \cap Own(x.slug, x.author, x.time) = {}
  <2>1. CASE comment[i] # None /\ SameComment(x, comment[i])
    <3>1. i \in StoredComments /\ x.slug = comment[i].slug /\ x.author = comment[i].author
          /\ x.time = comment[i].time /\ x.since = comment[i].since
      BY <2>1 DEF StoredComments, SameComment
    <3> QED
      BY <1>4, <3>1 DEF BlogInv, CommentsHold, RateOvershoot
  <2> QED
    BY <2>1
<1>7. \A c \in StoredComments' : c <= begun' /\ comment'[c].since \subseteq StoredComments'
  BY <1>1, <1>4, <1>5, <1>6 DEF StoredComments
<1>8. RateOvershoot'
  <2>1. ASSUME NEW c \in StoredComments', NEW y, y = comment'[c]
        PROVE  y.since \cap Own(y.slug, y.author, y.time)' = {}
    <3>1. y.since \subseteq StoredComments /\ y.since \cap Own(y.slug, y.author, y.time) = {}
      BY <1>1, <1>4, <1>6, <2>1 DEF BlogInv, CommentsHold, RateOvershoot, StoredComments
    <3>2. comment[i] = None => i \notin y.since
      BY <3>1 DEF StoredComments
    <3> QED
      BY <1>2, <1>3, <3>1, <3>2
  <2> QED
    BY <2>1 DEF RateOvershoot, Own
<1>9. ASSUME NEW q \in InFlight', q # p
      PROVE  CommentRead(q)'
  <2>r. PICK r : r = req[q]
    OBVIOUS
  <2>1. q \in InFlight /\ q \in Requests /\ req'[q] = r /\ CommentRead(q) /\ r \in BlogCalls
    BY <1>9, <2>r DEF BlogMoved, BlogInv, CommentsHold
  <2>2. CASE Commenting(q)
    <3>1. r \in CommentCalls /\ r.at \in {"post", "comments", "comment"}
      BY <2>1, <2>2, <2>r, BlogKinds DEF Commenting
    <3>2. r.id \in Comments /\ r.id <= begun /\ comment[r.id] = None /\ r.since \subseteq StoredComments
      BY <2>1, <2>2, <2>r, <3>1 DEF CommentRead, CommentCalls
    <3>3. r.id # i
      <4>1. CASE i = req[p].id /\ Commenting(p)
        BY <1>9, <2>1, <2>2, <2>r, <4>1 DEF BlogInv, CommentsHold, CommentsApart
      <4> QED
        BY <3>2, <4>1
    <3>4. comment[i] = None => i \notin r.since
      BY <3>2 DEF StoredComments
    <3>5. r.at = "comment" => r.since \cap Own(r.slug, r.author, r.now)' = {}
      <4>1. r.at = "comment" => r.since \cap Own(r.slug, r.author, r.now) = {}
        BY <2>1, <2>r DEF CommentRead
      <4> QED
        BY <1>2, <1>3, <3>4, <4>1
    <3> QED
      BY <1>1, <2>1, <3>1, <3>2, <3>3, <3>5 DEF CommentRead, Commenting
  <2>3. CASE r.at \in {"loadComment", "setStatus"}
    <3>1. r \in ModerationCalls /\ comment[r.id] # None /\ r.id \in Comments
      BY <2>1, <2>3, <2>r, BlogKinds DEF CommentRead, ModerationCalls
    <3>2. comment'[r.id] # None /\ SameComment(comment'[r.id], comment[r.id])
      BY <1>1, <3>1 DEF SameComment
    <3>3. r.at = "setStatus" => r.copy # None /\ SameComment(r.copy, comment[r.id])
      BY <2>1, <2>r DEF CommentRead
    <3> QED
      BY <2>1, <2>3, <3>2, <3>3 DEF CommentRead, Commenting, SameComment
  <2>4. CASE r.at \notin {"post", "comments", "comment", "loadComment", "setStatus"}
    BY <2>1, <2>4 DEF CommentRead, Commenting
  <2> QED
    BY <2>2, <2>3, <2>4, <2>r DEF Commenting
<1>10. p \in InFlight' => CommentRead(p)' /\ ~ Commenting(p)'
  BY DEF CommentRead, Commenting
<1>11. CommentsApart'
  BY <1>10 DEF BlogInv, CommentsHold, CommentsApart, Commenting, BlogMoved
<1> QED
  BY <1>7, <1>8, <1>9, <1>10, <1>11 DEF CommentsHold

LEMMA BlogStart == HandlersInit /\ service = "blog" /\ BlogInit => BlogInv
<1> SUFFICES ASSUME HandlersInit, service = "blog", BlogInit
             PROVE  BlogInv
  OBVIOUS
<1>1. Handling("blog", BlogCalls) /\ InFlight = {}
  BY Starts
<1>2. BlogTypeOK
  BY <1>1, BlogAssumption DEF BlogTypeOK, Handling, BlogInit
<1>3. StoredComments = {}
  BY DEF StoredComments, BlogInit
<1>4. PostsHold
  BY <1>1 DEF PostsHold, AnnouncedOf, Announces, Published, BlogInit
<1>5. CommentsHold
  BY <1>1, <1>3 DEF CommentsHold, CommentsApart, RateOvershoot
<1> QED
  BY <1>2, <1>4, <1>5 DEF BlogInv

\* A step of p that stores no post and no comment.
LEMMA BlogAside ==
  ASSUME BlogInv, NEW p \in Requests, BlogMoved(p),
         UNCHANGED <<post, comment, clock, announced, resaved, unannounced, brought>>,
         imported' \subseteq Builds, serving' \in BOOLEAN,
         p \in InFlight => req[p].at \notin {"audit", "publish"} \/ ~ ToAnnounce(req[p]),
         p \in InFlight' =>
           /\ req'[p].at \notin {"audit", "publish"} /\ CommentRead(p)'
           /\ Commenting(p)' =>
                \/ begun' = begun + 1 /\ req'[p].id = begun + 1
                \/ p \in InFlight /\ Commenting(p) /\ req'[p].id = req[p].id
  PROVE  BlogInv'
<1>1. service' = "blog" /\ BlogTypeOK'
  BY DEF BlogMoved, Handling, BlogInv, BlogTypeOK
<1>2. PostsHold'
  BY PostsAside
<1>3. CommentsHold'
  BY CommentsAside
<1> QED
  BY <1>1, <1>2, <1>3 DEF BlogInv

LEMMA BlogReturns ==
  ASSUME BlogInv, NEW p \in InFlight, Return(p),
         UNCHANGED <<post, comment, clock, announced, resaved, unannounced, brought>>,
         imported' \subseteq Builds, serving' \in BOOLEAN,
         req[p].at \notin {"audit", "publish"} \/ ~ ToAnnounce(req[p])
  PROVE  BlogInv'
<1>1. BlogMoved(p) /\ InFlight' = InFlight \ {p} /\ p \in Requests
  BY BlogEnds, BlogHandlers
<1> QED
  BY <1>1, BlogAside

LEMMA BlogKept == BlogInv /\ [BlogNext]_<<handlers, blogVars>> => BlogInv'
<1> SUFFICES ASSUME BlogInv, [BlogNext]_<<handlers, blogVars>>
             PROVE  BlogInv'
  OBVIOUS
<1> USE BlogHandlers
<1>1. ASSUME Tick \/ UNCHANGED <<handlers, blogVars>>
      PROVE  BlogInv'
  <2>1. /\ UNCHANGED <<handlers, post, imported, serving, comment, announced, resaved, unannounced, brought>>
        /\ clock' \in 0 .. MaxTicks
    BY <1>1 DEF Tick, blogVars
  <2>2. Handling("blog", BlogCalls)' /\ begun' = begun /\ InFlight' = InFlight /\ req' = req
    BY <2>1, Rests
  <2>3. service' = "blog" /\ BlogTypeOK'
    BY <2>1, <2>2 DEF Handling, BlogInv, BlogTypeOK
  <2>4. PostsHold'
    BY <2>1, <2>2 DEF BlogInv, PostsHold, AnnouncedOf, Announces
  <2>5. CommentsHold'
    BY <2>1, <2>2
    DEF BlogInv, CommentsHold, CommentsApart, Commenting, CommentRead, RateOvershoot, StoredComments, Own
  <2> QED
    BY <2>3, <2>4, <2>5 DEF BlogInv
<1>2. ASSUME NEW p \in Requests, NEW s \in Slugs, NEW status \in {"draft", "published"}, NEW policy \in Policies,
             SavePost(p, s, status, policy)
      PROVE  BlogInv'
  <2>1. PICK x : x = [status |-> status, first |-> FALSE, policy |-> policy, save |-> begun + 1]
    OBVIOUS
  <2>2. PICK c : c = [at |-> "load", slug |-> s, copy |-> None, input |-> x] /\ Begin(p, c) /\ UNCHANGED blogVars
    BY <1>2, <2>1 DEF SavePost
  <2>3. c \in BlogCalls /\ c.at = "load"
    <3>1. begun + 1 \in 1 .. MaxRequests
      BY <2>2 DEF Begin
    <3>2. x \in Posts
      BY <2>1, <3>1 DEF Posts
    <3>3. c \in SaveCalls /\ c.at = "load"
      BY <2>2, <3>2 DEF SaveCalls, Stages
    <3> QED
      BY <3>3, BlogForms
  <2>4. BlogMoved(p) /\ InFlight' = InFlight \cup {p} /\ req'[p] = c /\ p \notin InFlight
    BY <2>2, <2>3, BlogGoes
  <2>5. CommentRead(p)' /\ ~ Commenting(p)'
    BY <2>3, <2>4 DEF CommentRead, Commenting
  <2> QED
    BY <2>2, <2>3, <2>4, <2>5, BlogAside DEF blogVars
<1>3. ASSUME NEW p \in Requests, NEW s \in Slugs, NEW a \in Readers, AddComment(p, s, a)
      PROVE  BlogInv'
  <2>1. PICK c : /\ c = [at |-> "post", slug |-> s, author |-> a, id |-> begun + 1, now |-> 0, since |-> StoredComments]
                 /\ Begin(p, c) /\ UNCHANGED blogVars
    BY <1>3 DEF AddComment
  <2>2. c \in BlogCalls /\ c.at = "post" /\ c.id = begun + 1 /\ c.since = StoredComments
    <3>1. begun + 1 \in Comments
      BY <2>1 DEF Begin, Comments
    <3>2. StoredComments \subseteq Comments
      BY DEF StoredComments
    <3>3. c \in CommentCalls /\ c.at = "post" /\ c.id = begun + 1 /\ c.since = StoredComments
      BY <2>1, <3>1, <3>2 DEF CommentCalls
    <3> QED
      BY <3>3, BlogForms
  <2>3. /\ BlogMoved(p) /\ InFlight' = InFlight \cup {p} /\ req'[p] = c /\ p \notin InFlight
        /\ begun + 1 \in Comments /\ begun' = begun + 1
    BY <2>1, <2>2, BlogGoes
  <2>4. comment[begun + 1] = None
    <3>1. \A d \in StoredComments : d <= begun
      BY DEF BlogInv, CommentsHold
    <3> QED
      BY <2>3, <3>1 DEF StoredComments, Comments
  <2>5. CommentRead(p)'
    BY <2>1, <2>2, <2>3, <2>4 DEF CommentRead, Commenting, StoredComments, blogVars
  <2> QED
    BY <2>1, <2>2, <2>3, <2>5, BlogAside DEF blogVars
<1>4. ASSUME NEW p \in Requests, NEW i \in Comments, NEW status \in {"visible", "hidden"},
             SetCommentStatus(p, i, status)
      PROVE  BlogInv'
  <2>1. PICK c : /\ c = [at |-> "loadComment", id |-> i, status |-> status, copy |-> None]
                 /\ Begin(p, c) /\ UNCHANGED blogVars /\ comment[i] # None
    BY <1>4 DEF SetCommentStatus
  <2>2. c \in BlogCalls /\ c.at = "loadComment" /\ c.id = i
    <3>1. c \in ModerationCalls /\ c.at = "loadComment" /\ c.id = i
      BY <2>1 DEF ModerationCalls
    <3> QED
      BY <3>1, BlogForms
  <2>3. BlogMoved(p) /\ InFlight' = InFlight \cup {p} /\ req'[p] = c /\ p \notin InFlight
    BY <2>1, <2>2, BlogGoes
  <2>4. CommentRead(p)' /\ ~ Commenting(p)'
    BY <2>1, <2>2, <2>3 DEF CommentRead, Commenting, blogVars
  <2> QED
    BY <2>1, <2>2, <2>3, <2>4, BlogAside DEF blogVars
<1>5. ASSUME NEW p \in Requests, NEW b \in Builds, StartBuild(p, b)
      PROVE  BlogInv'
  <2>1. PICK c : c = [at |-> "marker", build |-> b, todo |-> Released[b], id |-> begun + 1] /\ Begin(p, c)
    BY <1>5 DEF StartBuild
  <2>2. c \in BlogCalls /\ c.at = "marker"
    <3>1. begun + 1 \in 1 .. MaxRequests /\ Released[b] \in SUBSET Slugs
      BY <2>1, BlogAssumption DEF Begin
    <3>2. c \in ImportCalls /\ c.at = "marker"
      BY <2>1, <3>1 DEF ImportCalls
    <3> QED
      BY <3>2, BlogForms
  <2>3. BlogMoved(p) /\ InFlight' = InFlight \cup {p} /\ req'[p] = c /\ p \notin InFlight
    BY <2>1, <2>2, BlogGoes
  <2>4. CommentRead(p)' /\ ~ Commenting(p)'
    BY <2>2, <2>3 DEF CommentRead, Commenting
  <2>5. /\ UNCHANGED <<post, imported, comment, clock, announced, resaved, unannounced, brought>>
        /\ serving' \in BOOLEAN
    BY <1>5 DEF StartBuild
  <2> QED
    BY <2>2, <2>3, <2>4, <2>5, BlogAside
<1>6. ASSUME NEW p \in Requests, CheckImport(p)
      PROVE  BlogInv'
  <2>1. /\ p \in InFlight /\ req[p].at = "marker" /\ req[p] \in ImportCalls
        /\ UNCHANGED <<post, imported, comment, clock, announced, resaved, unannounced, brought>>
        /\ serving' \in BOOLEAN
    BY <1>6, BlogKinds DEF CheckImport, At
  <2>2. CASE Goto(p, "import")
    <3>1. PICK c : c = [req[p] EXCEPT !.at = "import"] /\ Continue(p, c)
      BY <2>2 DEF Goto
    <3>2. c \in ImportCalls /\ c.at = "import"
      BY <2>1, <3>1 DEF ImportCalls
    <3>3. c \in BlogCalls
      BY <3>2, BlogForms
    <3>4. BlogMoved(p) /\ InFlight' = InFlight \cup {p} /\ req'[p] = c
      BY <2>1, <3>1, <3>3, BlogGoes
    <3>5. CommentRead(p)' /\ ~ Commenting(p)'
      BY <3>2, <3>4 DEF CommentRead, Commenting
    <3> QED
      BY <2>1, <3>2, <3>4, <3>5, BlogAside
  <2>3. CASE Return(p)
    BY <2>1, <2>3, BlogReturns
  <2> QED
    BY <1>6, <2>2, <2>3 DEF CheckImport
<1>7. ASSUME NEW p \in Requests, ImportPost(p)
      PROVE  BlogInv'
  <2>1. /\ p \in InFlight /\ req[p].at = "import" /\ req[p] \in ImportCalls
        /\ UNCHANGED <<imported, serving, comment, clock, announced, resaved, unannounced>>
    BY <1>7, BlogKinds DEF ImportPost, At
  <2>2. PICK s, c, x :
          /\ s \in req[p].todo
          /\ c = [req[p] EXCEPT !.todo = @ \ {s}] /\ Continue(p, c) /\ x = Release(req[p].id)
          /\ IF post[s] = None
             THEN post' = [post EXCEPT ![s] = x] /\ brought' = brought \cup {s}
             ELSE UNCHANGED <<post, brought>>
    BY <1>7 DEF ImportPost
  <2>3. c \in ImportCalls /\ c.at = "import" /\ s \in Slugs
    BY <2>1, <2>2 DEF ImportCalls
  <2>4. c \in BlogCalls
    BY <2>3, BlogForms
  <2>5. BlogMoved(p) /\ InFlight' = InFlight \cup {p} /\ req'[p] = c
    BY <2>1, <2>2, <2>4, BlogGoes
  <2>6. CommentRead(p)' /\ ~ Commenting(p)'
    BY <2>3, <2>5 DEF CommentRead, Commenting
  <2>7. CASE post[s] # None
    BY <2>1, <2>2, <2>3, <2>5, <2>6, <2>7, BlogAside
  <2>8. CASE post[s] = None
    <3>1. x \in Posts /\ Published(x)
      <4>1. req[p].id \in 1 .. MaxRequests
        BY <2>1 DEF ImportCalls
      <4>2. x = [status |-> "published", first |-> TRUE, policy |-> "locked", save |-> req[p].id]
        BY <2>2 DEF Release
      <4>3. x \in Posts /\ x.first
        BY <4>1, <4>2 DEF Posts, Policies
      <4> QED
        BY <4>3, BlogAssumption DEF Published
    <3>2. post' \in [Slugs -> Posts \cup {None}] /\ brought' = brought \cup {s} /\ post'[s] = x
          /\ \A t \in Slugs \ {s} : post'[t] = post[t]
      BY <2>2, <2>3, <2>8, <3>1
    <3>3. service' = "blog" /\ BlogTypeOK'
      BY <2>1, <2>3, <2>5, <3>2 DEF BlogMoved, Handling, BlogInv, BlogTypeOK
    <3>4. CommentsHold'
      BY <2>1, <2>5, <2>6, CommentsAside
    <3>5. \A t : \A q \in Requests : Announces(q, t)' <=> Announces(q, t)
      BY <2>1, <2>3, <2>5 DEF Announces, BlogMoved
    <3>6. \A t \in Slugs \ resaved : AnnouncedOf(t)'
      <4> SUFFICES ASSUME NEW t \in Slugs \ resaved
                   PROVE  AnnouncedOf(t)'
        OBVIOUS
      <4>1. AnnouncedOf(t)
        BY DEF BlogInv, PostsHold
      <4>2. CASE t = s
        BY <2>1, <2>8, <3>1, <3>2, <3>5, <4>1, <4>2 DEF AnnouncedOf
      <4>3. CASE t # s
        BY <2>1, <3>2, <3>5, <4>1, <4>3 DEF AnnouncedOf
      <4> QED
        BY <4>2, <4>3
    <3>7. PostsHold'
      BY <2>1, <2>3, <2>5, <3>6 DEF BlogInv, PostsHold, BlogMoved
    <3> QED
      BY <3>3, <3>4, <3>7 DEF BlogInv
  <2> QED
    BY <2>7, <2>8
<1>8. ASSUME NEW p \in Requests, SetImported(p)
      PROVE  BlogInv'
  <2>1. /\ p \in InFlight /\ req[p].at = "import" /\ req[p] \in ImportCalls /\ Return(p)
        /\ UNCHANGED <<post, comment, clock, announced, resaved, unannounced, brought>>
        /\ imported' = imported \cup {req[p].build} /\ serving' \in BOOLEAN
    BY <1>8, BlogKinds DEF SetImported, At
  <2>2. imported' \subseteq Builds
    BY <2>1 DEF ImportCalls
  <2> QED
    BY <2>1, <2>2, BlogReturns
<1>9. ASSUME NEW p \in Requests, LoadPost(p)
      PROVE  BlogInv'
  <2>1. p \in InFlight /\ req[p].at = "load" /\ req[p] \in SaveCalls /\ UNCHANGED blogVars
    BY <1>9, BlogKinds DEF LoadPost, At
  <2>2. PICK c, x : x = post[req[p].slug] /\ c = [req[p] EXCEPT !.at = "store", !.copy = x] /\ Continue(p, c)
    BY <1>9 DEF LoadPost
  <2>3. c \in SaveCalls /\ c.at = "store"
    <3>1. x \in Posts \cup {None}
      BY <2>1, <2>2 DEF SaveCalls
    <3> QED
      BY <2>1, <2>2, <3>1 DEF SaveCalls, Stages
  <2>4. c \in BlogCalls
    BY <2>3, BlogForms
  <2>5. BlogMoved(p) /\ InFlight' = InFlight \cup {p} /\ req'[p] = c
    BY <2>1, <2>2, <2>4, BlogGoes
  <2>6. CommentRead(p)' /\ ~ Commenting(p)'
    BY <2>3, <2>5 DEF CommentRead, Commenting
  <2> QED
    BY <2>1, <2>3, <2>5, <2>6, BlogAside DEF blogVars
<1>10. ASSUME NEW p \in Requests, StorePost(p)
       PROVE  BlogInv'
  <2>1. PICK r, s, x : r = req[p] /\ s = r.slug /\ x = ToStore(r)
    OBVIOUS
  <2>2. /\ p \in InFlight /\ r.at = "store" /\ r \in SaveCalls /\ s \in Slugs
        /\ post' = [post EXCEPT ![s] = x] /\ resaved' = IF post[s] = r.copy THEN resaved ELSE resaved \cup {s}
        /\ UNCHANGED <<imported, serving, comment, clock, announced, unannounced, brought>>
    BY <1>10, <2>1, BlogKinds DEF StorePost, At, SaveCalls
  <2>3. PICK c : c = [r EXCEPT !.at = "audit"] /\ Continue(p, c)
    BY <1>10, <2>1 DEF StorePost, Goto
  <2>4. /\ c \in SaveCalls /\ c.at = "audit" /\ c.slug = s
        /\ ToAnnounce(c) = (r.input.status = "published" /\ ~ Published(r.copy))
    BY <2>1, <2>2, <2>3 DEF SaveCalls, Stages, ToAnnounce
  <2>5. c \in BlogCalls
    BY <2>4, BlogForms
  <2>6. BlogMoved(p) /\ InFlight' = InFlight \cup {p} /\ req'[p] = c
    BY <2>2, <2>3, <2>5, BlogGoes
  <2>7. x \in Posts /\ x # None /\ (Published(x) <=> Published(r.copy) \/ r.input.status = "published")
    <3>1. PICK y, f : y = r.input /\ f = (Published(r.copy) \/ y.status = "published") /\ x = [y EXCEPT !.first = f]
      BY <2>1 DEF ToStore
    <3>2. y \in Posts /\ f \in BOOLEAN
      <4>1. Published(r.copy) \in BOOLEAN
        BY <2>2 DEF Published, SaveCalls, Posts
      <4> QED
        BY <2>2, <3>1, <4>1 DEF SaveCalls
    <3>3. x \in Posts /\ x.first = f
      BY <3>1, <3>2 DEF Posts
    <3>4. x # None
      BY <3>3, BlogAssumption
    <3> QED
      BY <3>1, <3>3, <3>4 DEF Published
  <2>8. /\ post' \in [Slugs -> Posts \cup {None}] /\ post'[s] = x /\ \A t \in Slugs \ {s} : post'[t] = post[t]
        /\ resaved' \subseteq Slugs /\ resaved \subseteq resaved'
    BY <2>2, <2>7
  <2>9. service' = "blog" /\ BlogTypeOK'
    BY <2>2, <2>6, <2>8 DEF BlogMoved, Handling, BlogInv, BlogTypeOK
  <2>10. CommentRead(p)' /\ ~ Commenting(p)'
    BY <2>4, <2>6 DEF CommentRead, Commenting
  <2>11. CommentsHold'
    BY <2>2, <2>6, <2>10, CommentsAside
  <2>12. /\ \A t : \A q \in Requests \ {p} : Announces(q, t)' <=> Announces(q, t)
         /\ \A t : Announces(p, t)' <=> t = s /\ ToAnnounce(c)
         /\ \A t : ~ Announces(p, t)
    BY <2>1, <2>2, <2>4, <2>6 DEF Announces, BlogMoved
  <2>13. ASSUME NEW t \in Slugs \ resaved'
         PROVE  AnnouncedOf(t)'
    <3>1. AnnouncedOf(t)
      BY <2>8 DEF BlogInv, PostsHold
    <3>2. CASE t # s
      BY <2>2, <2>8, <2>12, <3>1, <3>2 DEF AnnouncedOf
    <3>3. CASE t = s
      <4>1. post[s] = r.copy
        BY <2>2, <2>13, <3>3
      <4>2. CASE ToAnnounce(c)
        <5>1. ~ Published(post[s]) /\ Published(x)
          BY <2>4, <2>7, <4>1, <4>2
        <5>2. announced[s] = 0 /\ \A q \in Requests : ~ Announces(q, s)
          <6>1. announced[s] \in Nat /\ announced[s] <= 1
            BY <2>2, <3>1, <3>3 DEF AnnouncedOf
          <6> QED
            BY <3>1, <3>3, <5>1, <6>1 DEF AnnouncedOf
        <5> QED
          BY <2>2, <2>8, <2>12, <3>3, <4>2, <5>1, <5>2 DEF AnnouncedOf
      <4>3. CASE ~ ToAnnounce(c)
        <5>1. Published(x) <=> Published(post[s])
          BY <2>4, <2>7, <4>1, <4>3
        <5> QED
          BY <2>2, <2>8, <2>12, <3>1, <3>3, <4>3, <5>1 DEF AnnouncedOf
      <4> QED
        BY <4>2, <4>3
    <3> QED
      BY <3>2, <3>3
  <2>14. PostsHold'
    BY <2>4, <2>6, <2>13 DEF BlogInv, PostsHold, BlogMoved
  <2> QED
    BY <2>9, <2>11, <2>14 DEF BlogInv
<1>11. ASSUME NEW p \in Requests, AuditSave(p)
       PROVE  BlogInv'
  <2>1. PICK r, s : r = req[p] /\ s = r.slug
    OBVIOUS
  <2>2. /\ p \in InFlight /\ r.at = "audit" /\ r \in SaveCalls /\ s \in Slugs
        /\ UNCHANGED <<post, imported, serving, comment, clock, announced, resaved, brought>>
    BY <1>11, <2>1, BlogKinds DEF AuditSave, At, SaveCalls
  <2>3. CASE ToAnnounce(r) /\ Goto(p, "publish") /\ UNCHANGED unannounced
    <3>1. PICK c : c = [r EXCEPT !.at = "publish"] /\ Continue(p, c)
      BY <2>1, <2>3 DEF Goto
    <3>2. c \in SaveCalls /\ c.at = "publish" /\ c.slug = s /\ ToAnnounce(c)
      BY <2>1, <2>2, <2>3, <3>1 DEF SaveCalls, Stages, ToAnnounce
    <3>3. c \in BlogCalls
      BY <3>2, BlogForms
    <3>4. BlogMoved(p) /\ InFlight' = InFlight \cup {p} /\ req'[p] = c
      BY <2>2, <3>1, <3>3, BlogGoes
    <3>5. service' = "blog" /\ BlogTypeOK'
      BY <2>2, <2>3, <3>4 DEF BlogMoved, Handling, BlogInv, BlogTypeOK
    <3>6. CommentRead(p)' /\ ~ Commenting(p)'
      BY <3>2, <3>4 DEF CommentRead, Commenting
    <3>7. CommentsHold'
      BY <2>2, <3>4, <3>6, CommentsAside
    <3>8. \A t : \A q \in Requests : Announces(q, t)' <=> Announces(q, t)
      BY <2>1, <2>2, <2>3, <3>2, <3>4 DEF Announces, BlogMoved
    <3>9. PostsHold'
      BY <2>2, <2>3, <3>2, <3>4, <3>8 DEF BlogInv, PostsHold, AnnouncedOf, BlogMoved
    <3> QED
      BY <3>5, <3>7, <3>9 DEF BlogInv
  <2>4. CASE ~ ToAnnounce(r) /\ Return(p) /\ UNCHANGED unannounced
    BY <2>1, <2>2, <2>4, BlogReturns
  <2>5. CASE Return(p) /\ unannounced' = unannounced \cup {s}
    <3>1. BlogMoved(p) /\ InFlight' = InFlight \ {p}
      BY <2>2, <2>5, BlogEnds
    <3>2. service' = "blog" /\ BlogTypeOK'
      BY <2>2, <2>5, <3>1 DEF BlogMoved, Handling, BlogInv, BlogTypeOK
    <3>3. PostsHold'
      BY <2>1, <2>2, <2>5, <3>1, PostsAside
    <3>4. CommentsHold'
      BY <2>2, <3>1, CommentsAside
    <3> QED
      BY <3>2, <3>3, <3>4 DEF BlogInv
  <2> QED
    BY <1>11, <2>1, <2>3, <2>4, <2>5 DEF AuditSave
<1>12. ASSUME NEW p \in Requests, PublishEvent(p)
       PROVE  BlogInv'
  <2>1. PICK r, s : r = req[p] /\ s = r.slug
    OBVIOUS
  <2>2. /\ p \in InFlight /\ r.at = "publish" /\ r \in SaveCalls /\ s \in Slugs /\ Return(p)
        /\ announced' = [announced EXCEPT ![s] = @ + 1]
        /\ UNCHANGED <<post, imported, serving, comment, clock, resaved, unannounced, brought>>
    BY <1>12, <2>1, BlogKinds DEF PublishEvent, At, SaveCalls
  <2>3. BlogMoved(p) /\ InFlight' = InFlight \ {p}
    BY <2>2, BlogEnds
  <2>4. /\ announced' \in [Slugs -> Nat] /\ announced'[s] = announced[s] + 1
        /\ \A t \in Slugs \ {s} : announced'[t] = announced[t]
    BY <2>2
  <2>5. service' = "blog" /\ BlogTypeOK'
    BY <2>2, <2>3, <2>4 DEF BlogMoved, Handling, BlogInv, BlogTypeOK
  <2>6. CommentsHold'
    BY <2>2, <2>3, CommentsAside
  <2>7. Announces(p, s) /\ \A t : t # s => ~ Announces(p, t)
    BY <2>1, <2>2 DEF BlogInv, PostsHold, Announces
  <2>8. /\ \A t : \A q \in Requests \ {p} : Announces(q, t)' <=> Announces(q, t)
        /\ \A t : ~ Announces(p, t)'
    BY <2>3 DEF Announces, BlogMoved
  <2>9. ASSUME NEW t \in Slugs \ resaved
        PROVE  AnnouncedOf(t)'
    <3>1. AnnouncedOf(t)
      BY DEF BlogInv, PostsHold
    <3>2. CASE t = s
      <4>1. announced[s] = 0 /\ Published(post[s]) /\ \A q \in Requests \ {p} : ~ Announces(q, s)
        BY <2>7, <3>1, <3>2 DEF AnnouncedOf
      <4> QED
        BY <2>2, <2>4, <2>8, <3>2, <4>1 DEF AnnouncedOf
    <3>3. CASE t # s
      BY <2>2, <2>4, <2>7, <2>8, <3>1, <3>3 DEF AnnouncedOf
    <3> QED
      BY <3>2, <3>3
  <2>10. PostsHold'
    BY <2>2, <2>3, <2>9 DEF BlogInv, PostsHold, BlogMoved
  <2> QED
    BY <2>5, <2>6, <2>10 DEF BlogInv
<1>13. ASSUME NEW p \in Requests, LoadCommented(p)
       PROVE  BlogInv'
  <2>1. p \in InFlight /\ req[p].at = "post" /\ req[p] \in CommentCalls /\ UNCHANGED blogVars
    BY <1>13, BlogKinds DEF LoadCommented, At
  <2>2. CASE Goto(p, "comments")
    <3>1. PICK c : c = [req[p] EXCEPT !.at = "comments"] /\ Continue(p, c)
      BY <2>2 DEF Goto
    <3>2. c \in CommentCalls /\ c.at = "comments" /\ c.id = req[p].id /\ c.since = req[p].since
      BY <2>1, <3>1 DEF CommentCalls
    <3>3. c \in BlogCalls
      BY <3>2, BlogForms
    <3>4. BlogMoved(p) /\ InFlight' = InFlight \cup {p} /\ req'[p] = c /\ begun' >= begun
      BY <2>1, <3>1, <3>3, BlogGoes DEF BlogMoved
    <3>5. Commenting(p) /\ CommentRead(p)
      BY <2>1 DEF Commenting, BlogInv, CommentsHold
    <3>6. CommentRead(p)'
      <4>1. req[p].id <= begun'
        BY <2>1, <3>4, <3>5 DEF CommentRead, CommentCalls, Comments, BlogMoved
      <4> QED
        BY <2>1, <3>2, <3>4, <3>5, <4>1 DEF CommentRead, Commenting, StoredComments, blogVars
    <3> QED
      BY <2>1, <3>2, <3>4, <3>5, <3>6, BlogAside DEF blogVars
  <2>3. CASE Return(p)
    BY <2>1, <2>3, BlogReturns DEF blogVars
  <2> QED
    BY <1>13, <2>2, <2>3 DEF LoadCommented
<1>14. ASSUME NEW p \in Requests, CheckRate(p)
       PROVE  BlogInv'
  <2>1. PICK r : r = req[p]
    OBVIOUS
  <2>2. p \in InFlight /\ r.at = "comments" /\ r \in CommentCalls /\ UNCHANGED blogVars
    BY <1>14, <2>1, BlogKinds DEF CheckRate, At
  <2>3. CASE Own(r.slug, r.author, clock) = {} /\ Continue(p, [r EXCEPT !.at = "comment", !.now = clock])
    <3>1. PICK c, now : now = clock /\ c = [r EXCEPT !.at = "comment", !.now = now] /\ Continue(p, c)
      BY <2>3
    <3>2. /\ c \in CommentCalls /\ c.at = "comment" /\ c.id = r.id /\ c.since = r.since
          /\ c.slug = r.slug /\ c.author = r.author /\ c.now = now
      BY <2>2, <3>1 DEF CommentCalls
    <3>3. c \in BlogCalls
      BY <3>2, BlogForms
    <3>4. BlogMoved(p) /\ InFlight' = InFlight \cup {p} /\ req'[p] = c /\ begun' >= begun
      BY <2>2, <3>1, <3>3, BlogGoes DEF BlogMoved
    <3>5. Commenting(p) /\ CommentRead(p)
      BY <2>1, <2>2 DEF Commenting, BlogInv, CommentsHold
    <3>6. CommentRead(p)'
      <4>1. r.id <= begun'
        BY <2>1, <2>2, <3>4, <3>5 DEF CommentRead, CommentCalls, Comments, BlogMoved
      <4>2. Own(r.slug, r.author, now)' = {}
        BY <2>2, <2>3, <3>1 DEF Own, StoredComments, blogVars
      <4> QED
        BY <2>1, <2>2, <3>2, <3>4, <3>5, <4>1, <4>2 DEF CommentRead, Commenting, StoredComments, Own, blogVars
    <3> QED
      BY <2>1, <2>2, <3>2, <3>4, <3>5, <3>6, BlogAside DEF blogVars
  <2>4. CASE Return(p)
    BY <2>1, <2>2, <2>4, BlogReturns DEF blogVars
  <2> QED
    BY <1>14, <2>1, <2>3, <2>4 DEF CheckRate
<1>15. ASSUME NEW p \in Requests, StoreComment(p)
       PROVE  BlogInv'
  <2>1. PICK r, i : r = req[p] /\ i = r.id
    OBVIOUS
  <2>2. /\ p \in InFlight /\ r.at = "comment" /\ r \in CommentCalls /\ i \in Comments
        /\ UNCHANGED <<post, imported, serving, clock, announced, resaved, unannounced, brought>>
    BY <1>15, <2>1, BlogKinds DEF StoreComment, At, CommentCalls
  <2>3. PICK c : c = [r EXCEPT !.at = "auditComment"] /\ Continue(p, c)
    BY <1>15, <2>1 DEF StoreComment, Goto
  <2>4. PICK x : /\ x = [slug |-> r.slug, author |-> r.author, time |-> r.now, status |-> "visible", since |-> r.since]
                 /\ comment' = [comment EXCEPT ![i] = x]
    BY <1>15, <2>1 DEF StoreComment
  <2>5. c \in CommentCalls /\ c.at = "auditComment"
    BY <2>2, <2>3 DEF CommentCalls
  <2>6. c \in BlogCalls
    BY <2>5, BlogForms
  <2>7. BlogMoved(p) /\ InFlight' = InFlight \cup {p} /\ req'[p] = c
    BY <2>2, <2>3, <2>6, BlogGoes
  <2>8. begun' = begun
    BY <2>3 DEF Continue
  <2>9. x \in Comment /\ x # None
    BY <2>2, <2>4, BlogAssumption DEF Comment, CommentCalls
  <2>10. comment' \in [Comments -> Comment \cup {None}]
    BY <2>2, <2>4, <2>9
  <2>11. service' = "blog" /\ BlogTypeOK'
    BY <2>2, <2>7, <2>10 DEF BlogMoved, Handling, BlogInv, BlogTypeOK
  <2>12. PostsHold'
    BY <2>1, <2>2, <2>5, <2>7, PostsAside
  <2>13. CommentRead(p) /\ Commenting(p)
    BY <2>1, <2>2 DEF BlogInv, CommentsHold, Commenting
  <2>14. /\ comment[i] = None /\ x.since \subseteq StoredComments
         /\ x.since \cap Own(x.slug, x.author, x.time) = {}
    BY <2>1, <2>2, <2>4, <2>13 DEF CommentRead
  <2>15. CommentsHold'
    BY <2>1, <2>2, <2>4, <2>5, <2>7, <2>8, <2>9, <2>13, <2>14, CommentsGrow
  <2> QED
    BY <2>11, <2>12, <2>15 DEF BlogInv
<1>16. ASSUME NEW p \in Requests, FinishComment(p)
       PROVE  BlogInv'
  <2>1. p \in InFlight /\ req[p].at = "auditComment" /\ Return(p) /\ UNCHANGED blogVars
    BY <1>16 DEF FinishComment, At
  <2> QED
    BY <2>1, BlogReturns DEF blogVars
<1>17. ASSUME NEW p \in Requests, LoadComment(p)
       PROVE  BlogInv'
  <2>1. PICK r, x : r = req[p] /\ x = comment[r.id]
    OBVIOUS
  <2>2. p \in InFlight /\ r.at = "loadComment" /\ r \in ModerationCalls /\ UNCHANGED blogVars
    BY <1>17, <2>1, BlogKinds DEF LoadComment, At
  <2>3. PICK c : c = [r EXCEPT !.at = "setStatus", !.copy = x] /\ Continue(p, c)
    BY <1>17, <2>1 DEF LoadComment
  <2>4. x # None /\ x \in Comment
    BY <2>1, <2>2 DEF BlogInv, CommentsHold, CommentRead, ModerationCalls
  <2>5. c \in ModerationCalls /\ c.at = "setStatus" /\ c.copy = x /\ c.id = r.id
    BY <2>2, <2>3, <2>4 DEF ModerationCalls
  <2>6. c \in BlogCalls
    BY <2>5, BlogForms
  <2>7. BlogMoved(p) /\ InFlight' = InFlight \cup {p} /\ req'[p] = c
    BY <2>2, <2>3, <2>6, BlogGoes
  <2>8. CommentRead(p)' /\ ~ Commenting(p)'
    BY <2>1, <2>2, <2>4, <2>5, <2>7 DEF CommentRead, Commenting, SameComment, blogVars
  <2> QED
    BY <2>1, <2>2, <2>5, <2>7, <2>8, BlogAside DEF blogVars
<1>18. ASSUME NEW p \in Requests, StoreStatus(p)
       PROVE  BlogInv'
  <2>1. PICK r, i, y, x : r = req[p] /\ i = r.id /\ y = r.copy /\ x = [y EXCEPT !.status = r.status]
    OBVIOUS
  <2>2. /\ p \in InFlight /\ r.at = "setStatus" /\ r \in ModerationCalls /\ i \in Comments /\ Return(p)
        /\ comment' = [comment EXCEPT ![i] = x]
        /\ UNCHANGED <<post, imported, serving, clock, announced, resaved, unannounced, brought>>
    BY <1>18, <2>1, BlogKinds DEF StoreStatus, At, ModerationCalls
  <2>3. y # None /\ y \in Comment /\ comment[i] # None /\ SameComment(y, comment[i])
    BY <2>1, <2>2 DEF BlogInv, CommentsHold, CommentRead, ModerationCalls
  <2>4. x \in Comment /\ x # None /\ SameComment(x, comment[i])
    <3>1. x \in Comment /\ x.slug = y.slug /\ x.author = y.author /\ x.time = y.time /\ x.since = y.since
      BY <2>1, <2>2, <2>3 DEF Comment, ModerationCalls
    <3> QED
      BY <2>3, <3>1, BlogAssumption DEF SameComment
  <2>5. BlogMoved(p) /\ InFlight' = InFlight \ {p}
    BY <2>2, BlogEnds
  <2>6. begun' = begun
    BY <2>2 DEF Return, Continue
  <2>7. comment' \in [Comments -> Comment \cup {None}]
    BY <2>2, <2>4
  <2>8. service' = "blog" /\ BlogTypeOK'
    BY <2>2, <2>5, <2>7 DEF BlogMoved, Handling, BlogInv, BlogTypeOK
  <2>9. PostsHold'
    BY <2>1, <2>2, <2>5, PostsAside
  <2>10. CommentsHold'
    BY <2>2, <2>3, <2>4, <2>5, <2>6, CommentsGrow
  <2> QED
    BY <2>8, <2>9, <2>10 DEF BlogInv
<1>19. ASSUME NEW p \in Requests, FailBlogCall(p)
       PROVE  BlogInv'
  <2>1. /\ p \in InFlight /\ unannounced' = unannounced \cup Saving({p})
        /\ UNCHANGED <<post, imported, serving, comment, clock, announced, resaved, brought>>
    BY <1>19 DEF FailBlogCall
  <2>2. req[p].at \in {"audit", "publish"} => req[p].slug \in Slugs /\ req[p].slug \in unannounced'
    BY <2>1, BlogKinds DEF Saving, SaveCalls
  <2>3. unannounced' \subseteq Slugs /\ unannounced \subseteq unannounced'
    BY <2>1, <2>2 DEF Saving
  <2>4. CASE At(p, "marker")
    <3>1. req[p].at = "marker" /\ req[p] \in ImportCalls
      BY <2>1, <2>4, BlogKinds DEF At
    <3>2. PICK c : c = [req[p] EXCEPT !.at = "import"] /\ Fault(p, c)
      BY <1>19, <2>4 DEF FailBlogCall
    <3>3. c \in ImportCalls /\ c.at = "import"
      BY <3>1, <3>2 DEF ImportCalls
    <3>4. c \in BlogCalls
      BY <3>3, BlogForms
    <3>5. /\ req' \in [Requests -> BlogCalls \cup {None}] /\ Moves(p, c)
          /\ faults' \in 0 .. MaxFaults /\ UNCHANGED <<service, begun>>
      BY <2>1, <3>2, <3>4, HandledCalls, Faulted
    <3>6. BlogMoved(p) /\ req'[p] = c
      BY <2>1, <3>4, <3>5 DEF BlogMoved, Handling, HandlersIn, Moves, InFlight
    <3>7. service' = "blog" /\ BlogTypeOK'
      BY <2>1, <2>3, <3>6 DEF BlogMoved, Handling, BlogInv, BlogTypeOK
    <3>8. PostsHold'
      BY <2>1, <2>3, <3>1, <3>3, <3>6, PostsAside
    <3>9. CommentRead(p)' /\ ~ Commenting(p)'
      BY <3>3, <3>6 DEF CommentRead, Commenting
    <3>10. CommentsHold'
      BY <2>1, <3>6, <3>9, CommentsAside
    <3> QED
      BY <3>7, <3>8, <3>10 DEF BlogInv
  <2>5. CASE ~ At(p, "marker")
    <3>1. BlogMoved(p) /\ InFlight' = InFlight \ {p}
      BY <1>19, <2>1, <2>5, BlogEnds DEF FailBlogCall
    <3>2. service' = "blog" /\ BlogTypeOK'
      BY <2>1, <2>3, <3>1 DEF BlogMoved, Handling, BlogInv, BlogTypeOK
    <3>3. PostsHold'
      BY <2>1, <2>2, <2>3, <3>1, PostsAside
    <3>4. CommentsHold'
      BY <2>1, <3>1, CommentsAside
    <3> QED
      BY <3>2, <3>3, <3>4 DEF BlogInv
  <2> QED
    BY <2>4, <2>5
<1>20. ASSUME CrashBlog
       PROVE  BlogInv'
  <2>1. /\ Crash /\ unannounced' = unannounced \cup Saving(InFlight)
        /\ UNCHANGED <<post, imported, serving, comment, clock, announced, resaved, brought>>
    BY <1>20 DEF CrashBlog
  <2>2. Handling("blog", BlogCalls)' /\ begun' = begun /\ InFlight' = {}
    BY <2>1, Dies
  <2>3. Saving(InFlight) \subseteq Slugs
    <3>1. \A q \in InFlight : req[q].at \in {"audit", "publish"} => req[q].slug \in Slugs
      BY BlogKinds DEF SaveCalls
    <3> QED
      BY <3>1 DEF Saving
  <2>4. service' = "blog" /\ BlogTypeOK'
    BY <2>1, <2>2, <2>3 DEF Handling, BlogInv, BlogTypeOK
  <2>5. ASSUME NEW s \in Slugs \ resaved
        PROVE  AnnouncedOf(s)'
    <3>1. AnnouncedOf(s)
      BY DEF BlogInv, PostsHold
    <3>2. \A q \in Requests : ~ Announces(q, s)'
      BY <2>2 DEF Announces
    <3>3. \A q \in Requests : Announces(q, s) => s \in unannounced'
      BY <2>1 DEF Announces, Saving
    <3> QED
      BY <2>1, <3>1, <3>2, <3>3 DEF AnnouncedOf
  <2>6. PostsHold'
    BY <2>1, <2>2, <2>5 DEF PostsHold
  <2>7. CommentsHold'
    BY <2>1, <2>2 DEF BlogInv, CommentsHold, CommentsApart, RateOvershoot, StoredComments, Own
  <2> QED
    BY <2>4, <2>6, <2>7 DEF BlogInv
<1> QED
  BY <1>1, <1>2, <1>3, <1>4, <1>5, <1>6, <1>7, <1>8, <1>9, <1>10, <1>11, <1>12, <1>13, <1>14, <1>15, <1>16,
     <1>17, <1>18, <1>19, <1>20 DEF BlogNext

\* What the invariant says of announcements.
LEMMA BlogAnnounced == BlogInv => AnnouncedOnce
BY DEF BlogInv, PostsHold, AnnouncedOf, Announces, AnnouncedOnce, Announcing

\* Only a save changes a post that is there.
LEMMA BlogStep ==
  BlogInv /\ [BlogNext]_<<handlers, blogVars>> =>
    [\A s \in Slugs : post[s] # None /\ post'[s] # post[s] =>
       \E p \in Requests : At(p, "store") /\ req[p].slug = s /\ req'[p] # req[p]]_<<handlers, blogVars>>
<1> SUFFICES ASSUME BlogInv, BlogNext, NEW s \in Slugs, post[s] # None, post'[s] # post[s]
             PROVE  \E p \in Requests : At(p, "store") /\ req[p].slug = s /\ req'[p] # req[p]
  OBVIOUS
<1> USE BlogHandlers
<1>1. PICK p \in Requests : StorePost(p) \/ ImportPost(p)
  BY DEF BlogNext, Tick, SavePost, AddComment, SetCommentStatus, StartBuild, CheckImport, SetImported, LoadPost,
         AuditSave, PublishEvent, LoadCommented, CheckRate, StoreComment, FinishComment, LoadComment, StoreStatus,
         FailBlogCall, CrashBlog, blogVars
<1>2. CASE ImportPost(p)
  BY <1>2 DEF ImportPost
<1>3. CASE StorePost(p)
  <2>1. PICK r, x : r = req[p] /\ x = ToStore(r) /\ post' = [post EXCEPT ![r.slug] = x]
    BY <1>3 DEF StorePost
  <2>2. p \in InFlight /\ r.at = "store" /\ r \in SaveCalls /\ r.slug = s
    BY <1>3, <2>1, BlogKinds DEF StorePost, At
  <2>3. PICK c : c = [r EXCEPT !.at = "audit"] /\ Continue(p, c)
    BY <1>3, <2>1 DEF StorePost, Goto
  <2>4. c.at = "audit" /\ c \in SaveCalls
    BY <2>2, <2>3 DEF SaveCalls, Stages
  <2>5. req'[p] = c
    BY <2>2, <2>3, <2>4, BlogForms, BlogGoes
  <2> QED
    BY <2>1, <2>2, <2>4, <2>5 DEF At
<1> QED
  BY <1>1, <1>2, <1>3

\* A post is announced once, its comments keep to the rate, and no start overwrites it.
THEOREM BlogKeepsItsPromise == BlogSpec => BlogPromise
<1>1. BlogSpec => []BlogInv
  BY BlogStart, BlogKept, PTL DEF BlogSpec
<1>2. BlogInv => AnnouncedOnce /\ RateOvershoot
  BY BlogAnnounced DEF BlogInv, CommentsHold
<1>3. BlogSpec => [](AnnouncedOnce /\ RateOvershoot)
  BY <1>1, <1>2, PTL
<1>4. BlogSpec => ImportsYield
  BY <1>1, BlogStep, PTL DEF BlogSpec, ImportsYield
<1> QED
  BY <1>3, <1>4 DEF BlogPromise
-----------------------------------------------------------------------------
(* Mailing lists: conversations.                                           *)

\* Above as a function on the filed messages.
Uppers == [m \in entered |-> Above(m)]

LEMMA UppersTyped == Uppers \in [entered -> entered]
<1>1. \A m \in entered : Above(m) \in entered
  BY DEF Above
<1> QED
  BY <1>1 DEF Uppers

LEMMA ListCircles ==
  ASSUME NEW m \in entered
  PROVE  Circling(m) <=> Turning(entered, Uppers, m)
<1>1. ASSUME NEW S \in SUBSET entered
      PROVE  (\A n \in S : Above(n) \in S \ {n}) <=> \A n \in S : Uppers[n] \in S \ {n}
  BY DEF Uppers
<1> QED
  BY <1>1 DEF Circling, Turning

\* RootFor climbs to where the way up ends, and takes the message itself if it does not end.
LEMMA RootForClimbs ==
  ASSUME IsFiniteSet(entered), NEW m \in entered
  PROVE  \E f : /\ Way(entered, Uppers, m, Cardinality(entered), f)
                /\ RootFor(m) = IF Uppers[f[Cardinality(entered)]] = f[Cardinality(entered)]
                                THEN f[Cardinality(entered)] ELSE m
<1>1. PICK N : N = Cardinality(entered) /\ N \in Nat
  BY FS_CardinalityType
<1>2. PICK V, F : V = entered /\ F = Uppers /\ F \in [V -> V]
  BY UppersTyped
<1>3. PICK e : Way(V, F, m, N, e)
  BY <1>1, <1>2, WayExists
<1>4. e = [n \in 0 .. N |-> IF n = 0 THEN m ELSE Above(e[n - 1])]
  <2>1. \A n \in 1 .. N : e[n] = Above(e[n - 1])
    <3>1. \A n \in 1 .. N : e[n - 1] \in entered
      BY <1>1, <1>2, <1>3 DEF Way
    <3> QED
      BY <1>2, <1>3, <3>1 DEF Way, Uppers
  <2>2. e = [n \in 0 .. N |-> e[n]] /\ e[0] = m
    BY <1>3 DEF Way
  <2>3. \A n \in 0 .. N : n = 0 \/ n \in 1 .. N
    BY <1>1
  <2>4. \A n \in 0 .. N : e[n] = IF n = 0 THEN m ELSE Above(e[n - 1])
    BY <1>1, <2>1, <2>2, <2>3
  <2> QED
    BY <2>2, <2>4
<1> DEFINE up == CHOOSE up : up = [n \in 0 .. Cardinality(entered) |-> IF n = 0 THEN m ELSE Above(up[n - 1])]
<1>5. RootFor(m) = IF Above(up[Cardinality(entered)]) = up[Cardinality(entered)]
                   THEN up[Cardinality(entered)] ELSE m
  BY DEF RootFor
<1>6. up = [n \in 0 .. N |-> IF n = 0 THEN m ELSE Above(up[n - 1])]
  BY <1>1, <1>4
<1>7. PICK f : f = up
  OBVIOUS
<1>8. f[0] = m /\ f = [k \in 0 .. N |-> f[k]] /\ \A n \in 1 .. N : f[n] = Above(f[n - 1])
  <2>1. f = [n \in 0 .. N |-> IF n = 0 THEN m ELSE Above(f[n - 1])]
    BY <1>6, <1>7
  <2> HIDE DEF up
  <2>2. \A n \in 0 .. N : f[n] = IF n = 0 THEN m ELSE Above(f[n - 1])
    BY <2>1
  <2>3. f = [k \in 0 .. N |-> f[k]]
    BY <2>1
  <2>4. 0 \in 0 .. N /\ \A n \in 1 .. N : n \in 0 .. N /\ n # 0
    BY <1>1
  <2> QED
    BY <2>2, <2>3, <2>4
<1>9. \A n \in 0 .. N : f[n] \in entered
  <2>1. PICK G : G = {n \in 0 .. N : f[n] \in entered}
    OBVIOUS
  <2>2. 0 \in G
    BY <1>1, <1>8, <2>1
  <2>3. ASSUME NEW n \in 0 .. N, n \in G, n < N
        PROVE  n + 1 \in G
    <3>1. n + 1 \in 1 .. N /\ n + 1 \in 0 .. N /\ n + 1 - 1 = n
      BY <1>1, <2>3
    <3>2. PICK i \in 1 .. N : i = n + 1 /\ i - 1 = n
      BY <3>1
    <3>3. f[i] = Above(f[i - 1]) /\ f[n] \in entered
      BY <1>8, <2>1, <2>3
    <3> QED
      BY <2>1, <3>1, <3>2, <3>3 DEF Above
  <2>4. 0 .. N \subseteq G
    BY <1>1, <2>2, <2>3, Upwards
  <2> QED
    BY <2>1, <2>4
<1>10. Way(V, F, m, N, f)
  <2>1. f \in [0 .. N -> V]
    BY <1>2, <1>8, <1>9
  <2>2. \A n \in 1 .. N : f[n - 1] \in entered
    BY <1>1, <1>9
  <2> QED
    BY <1>1, <1>2, <1>8, <2>1, <2>2 DEF Way, Uppers
<1>11. Above(f[N]) = F[f[N]]
  BY <1>1, <1>2, <1>9 DEF Uppers
<1> QED
  BY <1>1, <1>2, <1>5, <1>7, <1>10, <1>11

\* A message that replies to nothing filed, and one of a circle, begins a thread, and nothing
\* else does.
LEMMA RootsBegin ==
  ASSUME IsFiniteSet(entered), NEW m \in entered
  PROVE  /\ Above(m) = m \/ Circling(m) => RootFor(m) = m
         /\ RootFor(m) \in entered
         /\ Above(RootFor(m)) = RootFor(m) \/ Circling(RootFor(m))
<1>1. PICK N : N = Cardinality(entered) /\ N \in Nat
  BY FS_CardinalityType
<1>2. PICK V, F : V = entered /\ F = Uppers /\ F \in [V -> V]
  BY UppersTyped
<1>3. PICK f : Way(V, F, m, N, f) /\ RootFor(m) = IF F[f[N]] = f[N] THEN f[N] ELSE m
  BY <1>1, <1>2, RootForClimbs
<1>4. Circling(m) <=> F[f[N]] # f[N]
  BY <1>1, <1>2, <1>3, WayEnds, ListCircles
<1>5. ASSUME Above(m) = m
      PROVE  f[N] = m
  <2>1. 0 \in 0 .. N /\ f[0] = m
    BY <1>1, <1>3 DEF Way
  <2>2. F[f[0]] = f[0]
    BY <1>2, <1>5, <2>1 DEF Uppers
  <2>3. f[N] = f[0]
    BY <1>1, <1>2, <1>3, <2>1, <2>2, WayStays
  <2> QED
    BY <2>1, <2>3
<1>6. f[N] \in entered /\ Above(f[N]) = F[f[N]]
  BY <1>1, <1>2, <1>3 DEF Way, Uppers
<1> QED
  BY <1>3, <1>4, <1>5, <1>6

LEMMA RepliesAreTogether == IsFiniteSet(entered) => RepliesTogether
<1> SUFFICES ASSUME IsFiniteSet(entered), NEW m \in entered, ~ Circling(m)
             PROVE  RootFor(m) = RootFor(Above(m))
  BY DEF RepliesTogether
<1>1. PICK N : N = Cardinality(entered) /\ N \in Nat
  BY FS_CardinalityType
<1>2. PICK V, F : V = entered /\ F = Uppers /\ F \in [V -> V]
  BY UppersTyped
<1>3. PICK n \in V : n = F[m] /\ n = Above(m)
  BY <1>2 DEF Uppers
<1>4. PICK f : Way(V, F, m, N, f) /\ RootFor(m) = IF F[f[N]] = f[N] THEN f[N] ELSE m
  BY <1>1, <1>2, RootForClimbs
<1>5. PICK g : Way(V, F, n, N, g) /\ RootFor(n) = IF F[g[N]] = g[N] THEN g[N] ELSE n
  BY <1>1, <1>2, RootForClimbs
<1>6. F[f[N]] = f[N]
  BY <1>1, <1>2, <1>4, WayEnds, ListCircles
<1>7. g[N] = F[f[N]]
  <2>1. Way(V, F, F[m], N, g)
    BY <1>3, <1>5
  <2> QED
    BY <1>1, <1>2, <1>4, <2>1, WayAhead
<1> QED
  BY <1>3, <1>4, <1>5, <1>6, <1>7
-----------------------------------------------------------------------------
(* Mailing lists: posts.                                                   *)

ListsSpec == HandlersInit /\ service = "lists" /\ ListsInit /\ [][ListsNext]_<<handlers, listVars>>

\* Message t begins a thread, or mail it replies to has overtaken.
Leads(t) ==
  /\ t \in entered
  /\ Above(t) = t \/ Circling(t) \/ letter[t].header \in overtaken

\* A filed message replies to a filed one, or it gave its thread the name.
Settled(m) ==
  LET i == letter[m] IN
  i # None /\ IF i.parent = None THEN i.thread = m ELSE i.parent \in entered \ {m}

\* What handler p's post has left so far, and what nothing has done to it.
Drafted(p) ==
  LET r == req[p] IN
  /\ r.id <= begun /\ \A q \in InFlight \ {p} : req[q].id # r.id
  /\ r.at = "publish" <=> r.id \in entered
  /\ r.at # "publish" => \A m \in entered : letter[m].header # r.id
  /\ reserved[r.id] = IF r.at \in {"message", "entry", "publish"} THEN r.author ELSE None
  /\ r.at = "entry" => letter[r.id] =
       [author |-> r.author, thread |-> r.thread, parent |-> r.parent, header |-> r.parent]
  /\ IF r.reply
     THEN r.thread \in entered /\ (r.at \notin {"poster", "thread"} => r.parent \in entered /\ Leads(r.thread))
     ELSE r.parent = None /\ r.thread = r.id /\ r.at # "thread" /\ (r.at = "publish" => Leads(r.thread))

Reservers(a) == {p \in InFlight : req[p].at = "reserve" /\ req[p].author = a}
Placing == {p \in InFlight : req[p].at \in {"reserve", "message", "entry"}}
Filed   == {m \in entered : letter[m].author # None}

\* What is on its way is counted, too: a handler that has counted passes a limit by one at most.
Limits ==
  /\ \A a \in Posters :
       Cardinality(Postings(a)) + Cardinality(Reservers(a)) <= PostLimit + Cardinality(Requests) - 1
  /\ Cardinality(Filed) + Cardinality(Placing) <= ListLimit + Cardinality(Requests) - 1

ListsInv ==
  /\ service = "lists" /\ ListsTypeOK
  /\ \A m \in Mails : m \in entered \/ reserved[m] # None => m <= begun
  /\ \A m \in entered : Settled(m)
  /\ \A p \in InFlight : Drafted(p)
  /\ ReservationsSpent /\ Limits
  /\ \A t \in published : Leads(t)

LEMMA ListHandlers ==
  ASSUME ListsInv
  PROVE  /\ Handling("lists", PostCalls) /\ None \notin PostCalls
         /\ begun \in 0 .. MaxRequests /\ MaxRequests \in Nat
         /\ \A p \in InFlight : p \in Requests /\ req[p] \in PostCalls /\ Drafted(p)
         /\ \A p \in Requests : p \in InFlight <=> req[p] # None
<1>1. Handling("lists", PostCalls)
  BY DEF ListsInv, ListsTypeOK, Handling
<1> QED
  BY <1>1, HandledCalls, ListsAssumption, HandlersAssumption DEF ListsInv

LEMMA PostFields ==
  ASSUME NEW r \in PostCalls
  PROVE  /\ r.at \in PostPlaces /\ r.id \in Mails /\ r.author \in Posters /\ r.reply \in BOOLEAN
         /\ r.thread \in Mails /\ r.parent \in Mails \cup {None}
BY DEF PostCalls

LEMMA ListTypes ==
  ASSUME ListsInv
  PROVE  /\ reserved \in [Mails -> Posters \cup {None}] /\ letter \in [Mails -> Mail \cup {None}]
         /\ subscribed \subseteq Posters /\ entered \subseteq Mails /\ published \subseteq Mails
         /\ overtaken \subseteq Mails /\ spent \subseteq Mails
BY DEF ListsInv, ListsTypeOK

LEMMA ListsFinite ==
  /\ IsFiniteSet(Mails) /\ IsFiniteSet(Requests) /\ Cardinality(Requests) \in Nat
  /\ \A S : S \subseteq Mails => IsFiniteSet(S) /\ Cardinality(S) \in Nat
  /\ \A S : S \subseteq Requests => IsFiniteSet(S) /\ Cardinality(S) \in Nat
  /\ \A S, T : (S \subseteq Mails \/ S \subseteq Requests) /\ T \subseteq S => Cardinality(T) <= Cardinality(S)
<1>1. IsFiniteSet(Mails)
  BY FS_Interval, HandlersAssumption DEF Mails
<1>2. IsFiniteSet(Requests)
  BY ListsAssumption
<1>3. \A S : S \subseteq Mails \/ S \subseteq Requests => IsFiniteSet(S)
  BY <1>1, <1>2, FS_Subset
<1>4. \A S, T : (S \subseteq Mails \/ S \subseteq Requests) /\ T \subseteq S => Cardinality(T) <= Cardinality(S)
  BY <1>3, FS_Subset
<1> QED
  BY <1>1, <1>2, <1>3, <1>4, FS_CardinalityType

-----------------------------------------------------------------------------
(* Threads as messages arrive.                                             *)

LEMMA AboveOf ==
  ASSUME NEW m \in entered, Settled(m)
  PROVE  Above(m) = IF letter[m].parent # None THEN letter[m].parent
                    ELSE IF letter[m].header \in entered \ {m} THEN letter[m].header ELSE m
BY DEF Above, Settled

\* What a step may do to the messages: it adds some, and those another replies to overtake.
Grows ==
  /\ entered \subseteq entered' /\ overtaken \subseteq overtaken'
  /\ \A m \in entered : letter'[m] = letter[m]
  /\ \A m \in entered : letter[m].header \in entered' \ entered => letter[m].header \in overtaken'

LEMMA LeadsOn ==
  ASSUME \A m \in entered : Settled(m), Grows
  PROVE  /\ \A m \in entered : Settled(m)'
         /\ \A t : Leads(t) => Leads(t)'
<1>1. ASSUME NEW m \in entered
      PROVE  Settled(m)'
  BY <1>1 DEF Settled, Grows
<1>2. ASSUME NEW m \in entered
      PROVE  Above(m)' = IF letter[m].parent # None THEN letter[m].parent
                         ELSE IF letter[m].header \in entered' \ {m} THEN letter[m].header ELSE m
  BY <1>1 DEF Above, Settled, Grows
<1>3. ASSUME NEW m \in entered, Above(m) # m
      PROVE  Above(m)' = Above(m)
  <2>1. Above(m) = IF letter[m].parent # None THEN letter[m].parent
                   ELSE IF letter[m].header \in entered \ {m} THEN letter[m].header ELSE m
    BY AboveOf
  <2> QED
    BY <1>2, <1>3, <2>1 DEF Grows
<1>4. ASSUME NEW t, t \in entered, Circling(t)
      PROVE  Circling(t)'
  <2>1. PICK S \in SUBSET entered : t \in S /\ \A n \in S : Above(n) \in S \ {n}
    BY <1>4 DEF Circling
  <2>2. \A n \in S : Above(n)' = Above(n)
    BY <1>3, <2>1
  <2>3. S \in SUBSET entered'
    BY DEF Grows
  <2> QED
    BY <2>1, <2>2, <2>3 DEF Circling
<1>5. ASSUME NEW t, t \in entered, Above(t) = t
      PROVE  (Above(t) = t)' \/ letter[t].header \in overtaken'
  <2>1. Above(t) = IF letter[t].parent # None THEN letter[t].parent
                   ELSE IF letter[t].header \in entered \ {t} THEN letter[t].header ELSE t
    BY <1>5, AboveOf
  <2>2. letter[t].parent = None
    BY <1>5, <2>1 DEF Settled
  <2>3. letter[t].header \notin entered \ {t}
    BY <1>5, <2>1, <2>2
  <2> QED
    BY <1>2, <1>5, <2>2, <2>3 DEF Grows
<1>6. ASSUME NEW t, Leads(t)
      PROVE  Leads(t)'
  <2>1. t \in entered /\ t \in entered' /\ letter'[t] = letter[t] /\ overtaken \subseteq overtaken'
    BY <1>6 DEF Leads, Grows
  <2> QED
    BY <1>4, <1>5, <1>6, <2>1 DEF Leads
<1> QED
  BY <1>1, <1>6

\* A handler that a step leaves alone, while others add messages of other names.
LEMMA StillDrafted ==
  ASSUME ListsInv, NEW q \in InFlight, q \in InFlight', req'[q] = req[q], begun <= begun', begun' \in Nat, Grows,
         req[q].id \notin entered' \ entered, reserved'[req[q].id] = reserved[req[q].id],
         letter'[req[q].id] = letter[req[q].id],
         \A m \in entered' \ entered : req[q].at # "publish" => letter'[m].header # req[q].id,
         \A o \in InFlight' \ {q} : req'[o].id # req[q].id
  PROVE  Drafted(q)'
<1>1. PICK r : r = req[q] /\ r \in PostCalls /\ r.id \in Mails
  BY ListHandlers, PostFields
<1>2. Drafted(q) /\ begun \in Nat /\ r.id \in Nat
  BY <1>1, ListHandlers DEF Mails
<1>3. \A t : Leads(t) => Leads(t)'
  BY LeadsOn DEF ListsInv
<1>4. r.id <= begun' /\ (r.at = "publish" <=> r.id \in entered')
      /\ (r.at # "publish" => \A m \in entered' : letter'[m].header # r.id)
  BY <1>1, <1>2 DEF Drafted, Grows
<1>5. /\ reserved'[r.id] = IF r.at \in {"message", "entry", "publish"} THEN r.author ELSE None
      /\ r.at = "entry" => letter'[r.id] =
           [author |-> r.author, thread |-> r.thread, parent |-> r.parent, header |-> r.parent]
  BY <1>1, <1>2 DEF Drafted
<1>6. PICK t : t = r.thread
  OBVIOUS
<1>7. IF r.reply
      THEN t \in entered' /\ (r.at \notin {"poster", "thread"} => r.parent \in entered' /\ Leads(t)')
      ELSE r.parent = None /\ t = r.id /\ r.at # "thread" /\ (r.at = "publish" => Leads(t)')
  BY <1>1, <1>2, <1>3, <1>6 DEF Drafted, Grows
<1>8. PICK s : s = req'[q] /\ s = r
  BY <1>1
<1>9. \A o \in InFlight' \ {q} : req'[o].id # s.id
  BY <1>1, <1>8
<1> QED
  BY <1>4, <1>5, <1>6, <1>7, <1>8, <1>9 DEF Drafted
-----------------------------------------------------------------------------
(* Steps that store no message.                                            *)

LEMMA ReservingOf ==
  ASSUME service = "lists"
  PROVE  Reserving = {p \in InFlight : req[p].at \in {"message", "entry"}}
BY DEF Reserving, Of

\* A step that leaves the messages and reservations alone, and at most handler p's call not.
LEMMA ListQuiet ==
  ASSUME ListsInv, NEW p, Handling("lists", PostCalls)', begun <= begun',
         UNCHANGED <<reserved, letter, entered, overtaken>>,
         subscribed' \subseteq Posters, published' \subseteq Mails, spent \subseteq spent', spent' \subseteq Mails,
         \A q \in Requests \ {p} : req'[q] = req[q],
         p \in InFlight' => Drafted(p)' /\ \A q \in InFlight \ {p} : req'[p].id # req[q].id,
         p \in InFlight /\ req[p].at \in {"message", "entry"} =>
           \/ req[p].id \in spent'
           \/ p \in InFlight' /\ req'[p].at \in {"message", "entry"} /\ req'[p].id = req[p].id,
         Limits',
         \A t \in published' : t \in published \/ Leads(t)
  PROVE  ListsInv'
<1> USE ListHandlers
<1>1. service' = "lists" /\ ListsTypeOK' /\ begun' \in Nat
  BY DEF Handling, HandlersIn, ListsInv, ListsTypeOK
<1>2. Grows
  BY DEF Grows
<1>3. /\ \A m \in entered' : Settled(m)'
      /\ \A t : Leads(t) => Leads(t)'
  BY <1>2, LeadsOn DEF ListsInv
<1>4. \A q \in Requests \ {p} : q \in InFlight' <=> q \in InFlight
  BY DEF InFlight
<1>5. ASSUME NEW q \in InFlight'
      PROVE  Drafted(q)'
  <2>1. CASE q = p
    BY <2>1
  <2>2. CASE q # p
    <3>1. q \in InFlight /\ req'[q] = req[q]
      BY <1>4, <2>2 DEF InFlight
    <3>2. \A o \in InFlight' \ {q} : req'[o].id # req[q].id
      <4>1. Drafted(q)
        BY <3>1
      <4> QED
        BY <1>4, <2>2, <3>1, <4>1 DEF Drafted, InFlight
    <3> QED
      BY <1>1, <1>2, <3>1, <3>2, StillDrafted
  <2> QED
    BY <2>1, <2>2
<1>6. ReservationsSpent'
  <2>1. ASSUME NEW m \in Mails \ spent', reserved[m] # None, m \notin entered
        PROVE  \E q \in InFlight' : req'[q].at \in {"message", "entry"} /\ req'[q].id = m
    <3>1. PICK q \in InFlight : req[q].at \in {"message", "entry"} /\ req[q].id = m
      BY <2>1, ReservingOf DEF ListsInv, ReservationsSpent
    <3> QED
      BY <1>4, <2>1, <3>1
  <2>2. Reserving' = {q \in InFlight' : req'[q].at \in {"message", "entry"}}
    BY <1>1 DEF Reserving, Of
  <2> QED
    BY <2>1, <2>2 DEF ListsInv, ReservationsSpent
<1>7. \A m \in Mails : m \in entered' \/ reserved'[m] # None => m <= begun'
  <2>1. \A m \in Mails : m \in entered \/ reserved[m] # None => m <= begun
    BY DEF ListsInv
  <2>2. \A m \in Mails : m \in Nat
    BY DEF Mails
  <2> QED
    BY <1>1, <2>1, <2>2
<1>8. \A t \in published' : Leads(t)'
  BY <1>3 DEF ListsInv
<1> QED
  BY <1>1, <1>3, <1>5, <1>6, <1>7, <1>8 DEF ListsInv

\* The limits hold on if nothing is counted that was not.
LEMMA LimitsHold ==
  ASSUME ListsInv, service' = "lists", reserved' = reserved, Filed' = Filed, InFlight' \subseteq Requests,
         \A q \in InFlight' : req'[q].at \in {"reserve", "message", "entry"} =>
           q \in InFlight /\ req'[q].author = req[q].author
           /\ (req'[q].at = "reserve" => req[q].at = "reserve")
           /\ req[q].at \in {"reserve", "message", "entry"}
  PROVE  Limits'
<1>1. Filed' = Filed /\ Placing' \subseteq Placing /\ Placing \subseteq Requests
  BY ListHandlers DEF Placing
<1>2. Cardinality(Placing') <= Cardinality(Placing) /\ Cardinality(Placing) \in Nat /\ Cardinality(Placing') \in Nat
  BY <1>1, ListsFinite
<1>3. Cardinality(Filed) \in Nat
  BY ListsFinite, ListTypes DEF Filed
<1>4. ASSUME NEW a \in Posters
      PROVE  Cardinality(Postings(a)') + Cardinality(Reservers(a)') <= PostLimit + Cardinality(Requests) - 1
  <2>1. Postings(a)' = Postings(a) /\ Reservers(a)' \subseteq Reservers(a) /\ Reservers(a) \subseteq Requests
    BY ListHandlers DEF Postings, Reservers
  <2>2. Cardinality(Reservers(a)') <= Cardinality(Reservers(a)) /\ Cardinality(Reservers(a)) \in Nat
        /\ Cardinality(Reservers(a)') \in Nat
    BY <2>1, ListsFinite
  <2>3. Cardinality(Postings(a)) \in Nat
    BY ListsFinite DEF Postings
  <2>4. Cardinality(Postings(a)) + Cardinality(Reservers(a)) <= PostLimit + Cardinality(Requests) - 1
    BY DEF ListsInv, Limits
  <2> QED
    BY <2>1, <2>2, <2>3, <2>4, ListsFinite, ListsAssumption
<1>5. Cardinality(Filed) + Cardinality(Placing) <= ListLimit + Cardinality(Requests) - 1
  BY DEF ListsInv, Limits
<1>6. Cardinality(Filed') + Cardinality(Placing') <= ListLimit + Cardinality(Requests) - 1
  BY <1>1, <1>2, <1>3, <1>5, ListsFinite, ListsAssumption
<1> QED
  BY <1>4, <1>6 DEF Limits

\* A handler begins.
LEMMA DraftBegins ==
  ASSUME ListsInv, NEW p \in Requests, NEW a \in Posters, NEW reply \in BOOLEAN, NEW t \in Mails,
         IF reply THEN t \in entered ELSE t = begun + 1,
         Unheard, Begin(p, Draft(a, reply, t)), UNCHANGED listVars
  PROVE  ListsInv'
<1> USE ListHandlers
<1>1. PICK c : c = Draft(a, reply, t)
  OBVIOUS
<1>2. begun + 1 \in Mails /\ begun + 1 \in Nat
  BY DEF Begin, Mails
<1>3. c \in PostCalls /\ c.at = "poster" /\ c.id = begun + 1 /\ c.author = a /\ c.reply = reply
      /\ c.thread = t /\ c.parent = None
  BY <1>1, <1>2 DEF Draft, PostCalls, PostPlaces
<1>4. /\ Handling("lists", PostCalls)' /\ begun' = begun + 1 /\ p \notin InFlight
      /\ InFlight' = InFlight \cup {p} /\ req'[p] = c
      /\ \A q \in Requests \ {p} : req'[q] = req[q]
  BY <1>1, <1>3, Begins
<1>5. ASSUME NEW q \in InFlight
      PROVE  req[q].id <= begun /\ req[q].id \in Nat /\ req'[q] = req[q]
  <2>1. req[q].id \in Mails
    BY PostFields
  <2>2. req[q].id <= begun
    BY DEF Drafted
  <2> QED
    BY <1>4, <2>1, <2>2 DEF Mails
<1>6. begun + 1 \notin entered /\ reserved[begun + 1] = None
  BY <1>2 DEF ListsInv
<1>7. Drafted(p)'
  <2>1. \A q \in InFlight' \ {p} : req'[q].id # c.id
    BY <1>3, <1>4, <1>5
  <2>2. \A m \in entered : letter[m].header # begun + 1
    BY DEF Unheard
  <2> QED
    BY <1>3, <1>4, <1>6, <2>1, <2>2 DEF Drafted, listVars
<1>8. Limits'
  BY <1>3, <1>4, <1>5, LimitsHold DEF listVars, Handling, Filed
<1> QED
  BY <1>3, <1>4, <1>5, <1>7, <1>8, ListQuiet, ListTypes DEF listVars, ListsInv

\* A handler goes on, with nothing new counted.
LEMMA DraftGoes ==
  ASSUME ListsInv, NEW p \in InFlight, NEW c \in PostCalls, Continue(p, c), Limits', UNCHANGED listVars,
         req[p].at \notin {"message", "entry", "publish"}, c.at \in {"thread", "count", "reserve"},
         c.id = req[p].id, c.author = req[p].author, c.reply = req[p].reply, c.thread = req[p].thread,
         IF c.reply THEN c.at # "thread" => c.parent \in entered /\ Leads(c.thread)
         ELSE c.parent = None /\ c.at # "thread"
  PROVE  ListsInv'
<1> USE ListHandlers
<1>1. /\ Handling("lists", PostCalls)' /\ begun' = begun /\ InFlight' = InFlight /\ req'[p] = c
      /\ \A q \in Requests \ {p} : req'[q] = req[q]
  BY Goes
<1>2. Drafted(p) /\ begun \in Nat
  OBVIOUS
<1>3. \A t : Leads(t) => Leads(t)'
  BY LeadsOn DEF Grows, listVars, ListsInv
<1>4. Drafted(p)'
  <2>1. \A q \in InFlight' \ {p} : req'[q].id # c.id
    BY <1>1, <1>2 DEF Drafted
  <2>2. /\ c.id <= begun' /\ c.id \notin entered' /\ reserved'[c.id] = None
        /\ \A m \in entered' : letter'[m].header # c.id
    BY <1>1, <1>2 DEF Drafted, listVars
  <2>3. IF c.reply
        THEN c.thread \in entered' /\ (c.at \notin {"poster", "thread"} => c.parent \in entered' /\ Leads(c.thread)')
        ELSE c.parent = None /\ c.thread = c.id /\ c.at # "thread"
    BY <1>2, <1>3 DEF Drafted, listVars
  <2> QED
    BY <1>1, <2>1, <2>2, <2>3 DEF Drafted
<1>5. \A q \in InFlight \ {p} : c.id # req[q].id
  BY <1>2 DEF Drafted
<1> QED
  BY <1>1, <1>4, <1>5, ListQuiet, ListTypes DEF listVars, ListsInv

\* A handler is done, or a fault ends it.
LEMMA DraftEnds ==
  ASSUME ListsInv, NEW p \in InFlight, Return(p) \/ Fault(p, None),
         UNCHANGED <<subscribed, reserved, letter, entered, overtaken>>,
         spent \subseteq spent', spent' \subseteq Mails, published' \subseteq Mails,
         req[p].at \in {"message", "entry"} => req[p].id \in spent',
         \A t \in published' : t \in published \/ Leads(t)
  PROVE  ListsInv'
<1> USE ListHandlers
<1>1. /\ Handling("lists", PostCalls)' /\ begun' = begun /\ InFlight' = InFlight \ {p}
      /\ \A q \in Requests \ {p} : req'[q] = req[q]
  BY Ends
<1>2. Limits'
  BY <1>1, LimitsHold DEF Handling, Filed
<1> QED
  BY <1>1, <1>2, ListQuiet, ListTypes
-----------------------------------------------------------------------------
(* Steps that count, reserve, store and file.                              *)

\* Mail arrives.
LEMMA MailArrives ==
  ASSUME ListsInv, NEW header \in Mails \cup {None}, Receive(header)
  PROVE  ListsInv'
<1> USE ListHandlers
<1>1. PICK id : id = begun + 1
  OBVIOUS
<1>2. /\ Handling("lists", PostCalls)' /\ begun' = begun + 1 /\ InFlight' = InFlight /\ req' = req
      /\ id \in Mails /\ id \in Nat
  BY <1>1, Answers DEF Receive, Once, Mails
<1>3. PICK i : i = [author |-> None, thread |-> id, parent |-> None, header |-> header]
  OBVIOUS
<1>4. /\ letter' = [letter EXCEPT ![id] = i] /\ entered' = entered \cup {id}
      /\ UNCHANGED <<subscribed, reserved, published, spent>>
      /\ header \in entered \cup id .. MaxRequests \cup {None}
      /\ overtaken' = IF \E m \in entered : letter[m].header = id THEN overtaken \cup {id} ELSE overtaken
  BY <1>1, <1>3 DEF Receive
<1>5. i \in Mail /\ i.author = None /\ i.thread = id /\ i.parent = None /\ i.header = header
  BY <1>2, <1>3 DEF Mail
<1>6. letter'[id] = i /\ \A m \in Mails \ {id} : letter'[m] = letter[m]
  BY <1>2, <1>4, ListTypes
<1>7. service' = "lists" /\ ListsTypeOK' /\ begun' \in Nat
  <2>1. letter' \in [Mails -> Mail \cup {None}]
    BY <1>4, <1>5, ListTypes
  <2>2. entered' \subseteq Mails /\ overtaken' \subseteq Mails
    BY <1>2, <1>4, ListTypes
  <2>3. HandlersIn("lists", PostCalls)' /\ service' = "lists" /\ begun' \in Nat
    BY <1>2 DEF Handling
  <2> QED
    BY <1>4, <2>1, <2>2, <2>3, ListTypes DEF ListsTypeOK
<1>8. id \notin entered /\ reserved[id] = None
  BY <1>1, <1>2 DEF ListsInv
<1>9. Grows
  BY <1>4, <1>6, <1>8, ListTypes DEF Grows
<1>10. /\ \A m \in entered : Settled(m)'
       /\ \A t : Leads(t) => Leads(t)'
  BY <1>9, LeadsOn DEF ListsInv
<1>11. i # None /\ Settled(id)'
  BY <1>5, <1>6, ListsAssumption DEF Settled
<1>12. ASSUME NEW q \in InFlight'
       PROVE  Drafted(q)'
  <2>1. Drafted(q) /\ req[q].id \in Mails /\ req[q].id # None
    BY <1>2, PostFields, ListsAssumption
  <2>2. req[q].id <= begun /\ req[q].id # id /\ req[q].id < id
    BY <1>1, <2>1 DEF Drafted, Mails
  <2>3. req[q].at # "publish" => header # req[q].id
    BY <1>2, <1>4, <2>1, <2>2 DEF Drafted, Mails
  <2>4. \A o \in InFlight' \ {q} : req'[o].id # req[q].id
    BY <1>2, <2>1 DEF Drafted
  <2> QED
    BY <1>2, <1>4, <1>5, <1>6, <1>7, <1>9, <2>1, <2>2, <2>3, <2>4, StillDrafted
<1>13. Filed' = Filed
  BY <1>4, <1>5, <1>6, <1>8, ListTypes DEF Filed
<1>14. Limits'
  BY <1>2, <1>4, <1>7, <1>13, LimitsHold
<1>15. ReservationsSpent'
  <2>1. Reserving' = Reserving /\ \A q \in Reserving : req'[q] = req[q]
    BY <1>2, <1>7, ReservingOf DEF ListsInv, Reserving, Of
  <2>2. ASSUME NEW m \in Mails \ spent', reserved'[m] # None
        PROVE  m \in entered' \/ \E q \in Reserving' : req'[q].id = m
    BY <1>4, <2>1, <2>2 DEF ListsInv, ReservationsSpent
  <2>3. \A m \in entered' : reserved'[m] = letter'[m].author
    BY <1>4, <1>5, <1>6, <1>8, ListTypes DEF ListsInv, ReservationsSpent
  <2> QED
    BY <2>2, <2>3 DEF ReservationsSpent
<1>16. ASSUME NEW m \in Mails, m \in entered' \/ reserved'[m] # None
       PROVE  m <= begun'
  <2>1. m \in Nat /\ (m = id \/ m <= begun)
    BY <1>4, <1>16 DEF ListsInv, Mails
  <2> QED
    BY <1>1, <1>2, <2>1
<1>17. \A t \in published' : Leads(t)'
  BY <1>4, <1>10 DEF ListsInv
<1> QED
  BY <1>4, <1>7, <1>10, <1>11, <1>12, <1>14, <1>15, <1>16, <1>17 DEF ListsInv

LEMMA DraftsApart ==
  ASSUME ListsInv, NEW p \in InFlight
  PROVE  \A q \in InFlight \ {p} : req[q].id # req[p].id
<1>1. Drafted(p)
  BY ListHandlers
<1> QED
  BY <1>1 DEF Drafted

\* A handler has counted and goes on to reserve.
LEMMA PlaceCounted ==
  ASSUME ListsInv, NEW p \in InFlight, req[p].at = "count", Goto(p, "reserve"), UNCHANGED listVars,
         Cardinality(Postings(req[p].author)) < PostLimit, Cardinality(entered) < ListLimit
  PROVE  ListsInv'
<1> USE ListHandlers
<1>1. PICK r, c : r = req[p] /\ c = [r EXCEPT !.at = "reserve"] /\ Continue(p, c)
  BY DEF Goto
<1>2. /\ c \in PostCalls /\ c.at = "reserve" /\ c.id = r.id /\ c.author = r.author /\ c.reply = r.reply
      /\ c.thread = r.thread /\ c.parent = r.parent
  BY <1>1 DEF PostCalls, PostPlaces
<1>3. /\ Handling("lists", PostCalls)' /\ begun' = begun /\ InFlight' = InFlight /\ req'[p] = c
      /\ \A q \in Requests \ {p} : req'[q] = req[q]
  BY <1>1, <1>2, Goes
<1>4. ASSUME NEW a \in Posters
      PROVE  Cardinality(Postings(a)') + Cardinality(Reservers(a)') <= PostLimit + Cardinality(Requests) - 1
  <2>1. Postings(a)' = Postings(a) /\ Reservers(a)' \subseteq Requests
    BY <1>3 DEF Postings, Reservers, listVars
  <2>2. Cardinality(Postings(a)) \in Nat /\ Cardinality(Reservers(a)') \in Nat
        /\ Cardinality(Reservers(a)') <= Cardinality(Requests)
    BY <2>1, ListsFinite DEF Postings
  <2>3. CASE a = r.author
    BY <1>1, <2>1, <2>2, <2>3, ListsFinite, ListsAssumption
  <2>4. CASE a # r.author
    <3>1. \A q \in InFlight : req'[q].at = "reserve" /\ req'[q].author = a
                              <=> req[q].at = "reserve" /\ req[q].author = a
      <4>1. req'[p].author # a /\ req[p].author # a
        BY <1>1, <1>2, <1>3, <2>4
      <4>2. \A q \in InFlight \ {p} : req'[q] = req[q]
        BY <1>3
      <4> QED
        BY <4>1, <4>2
    <3>2. Reservers(a)' = Reservers(a)
      BY <1>3, <3>1 DEF Reservers
    <3> QED
      BY <2>1, <3>2 DEF ListsInv, Limits
  <2> QED
    BY <2>3, <2>4
<1>5. Cardinality(Filed') + Cardinality(Placing') <= ListLimit + Cardinality(Requests) - 1
  <2>1. Filed' = Filed /\ Filed \subseteq entered /\ Placing' \subseteq Requests
    BY <1>3 DEF Filed, Placing, listVars
  <2>2. Cardinality(Filed) <= Cardinality(entered) /\ Cardinality(Placing') <= Cardinality(Requests)
        /\ Cardinality(Filed) \in Nat /\ Cardinality(Placing') \in Nat /\ Cardinality(entered) \in Nat
    BY <2>1, ListsFinite, ListTypes
  <2> QED
    BY <2>1, <2>2, ListsFinite, ListsAssumption
<1>6. Limits'
  BY <1>4, <1>5 DEF Limits
<1>7. IF c.reply THEN c.parent \in entered /\ Leads(c.thread) ELSE c.parent = None
  <2>1. Drafted(p)
    OBVIOUS
  <2> QED
    BY <1>1, <1>2, <2>1 DEF Drafted
<1>8. \A l : l = req[p].at => l \notin {"message", "entry", "publish"}
  OBVIOUS
<1> QED
  BY <1>1, <1>2, <1>6, <1>7, <1>8, DraftGoes

\* Handlers other than p, while p's message or reservation changes.
LEMMA OthersDrafted ==
  ASSUME ListsInv, NEW p \in InFlight, NEW q \in InFlight \ {p}, begun' = begun, InFlight' = InFlight,
         req'[p].id = req[p].id, \A o \in Requests \ {p} : req'[o] = req[o], Grows,
         \A m \in Mails \ {req[p].id} : reserved'[m] = reserved[m] /\ letter'[m] = letter[m],
         \/ entered' = entered
         \/ entered' = entered \cup {req[p].id} /\ letter'[req[p].id].header \in entered \cup {None}
  PROVE  Drafted(q)'
<1> USE ListHandlers
<1>1. PICK r, s : r = req[p] /\ s = req[q] /\ r.id \in Mails /\ s.id \in Mails /\ r.id # s.id /\ req'[q] = s
  BY PostFields DEF Drafted
<1>2. Drafted(q) /\ begun \in Nat /\ q \in InFlight' /\ None \notin Mails
  BY ListsAssumption
<1>3. \A o \in InFlight' \ {q} : req'[o].id # s.id
  <2>1. \A o \in InFlight \ {q} : req[o].id # s.id
    BY <1>1, <1>2 DEF Drafted
  <2> QED
    BY <2>1
<1>4. s.at # "publish" => s.id \notin entered
  BY <1>1, <1>2 DEF Drafted
<1>5. \A m \in entered' \ entered : s.at # "publish" => letter'[m].header # s.id
  BY <1>1, <1>2, <1>4
<1> QED
  BY <1>1, <1>2, <1>3, <1>5, StillDrafted

LEMMA PlaceReserved ==
  ASSUME ListsInv, NEW p \in Requests, ReservePosting(p)
  PROVE  ListsInv'
<1> USE ListHandlers
<1>1. PICK r, c : r = req[p] /\ c = [r EXCEPT !.at = "message"] /\ Continue(p, c)
  BY DEF ReservePosting, Goto
<1>2. /\ p \in InFlight /\ r.at = "reserve" /\ r \in PostCalls /\ Drafted(p)
      /\ reserved' = [reserved EXCEPT ![r.id] = r.author]
      /\ UNCHANGED <<subscribed, letter, entered, published, overtaken, spent>>
  BY <1>1 DEF ReservePosting, At
<1>3. /\ c \in PostCalls /\ c.at = "message" /\ c.id = r.id /\ c.author = r.author /\ c.reply = r.reply
      /\ c.thread = r.thread /\ c.parent = r.parent
  BY <1>1, <1>2 DEF PostCalls, PostPlaces
<1>4. /\ Handling("lists", PostCalls)' /\ begun' = begun /\ InFlight' = InFlight /\ req'[p] = c
      /\ \A q \in Requests \ {p} : req'[q] = req[q]
  BY <1>1, <1>2, <1>3, Goes
<1>5. r.id \in Mails /\ r.author \in Posters /\ r.author # None
  BY <1>2, PostFields, ListsAssumption
<1>6. /\ reserved' \in [Mails -> Posters \cup {None}] /\ reserved'[r.id] = r.author
      /\ \A m \in Mails \ {r.id} : reserved'[m] = reserved[m]
  BY <1>2, <1>5, ListTypes
<1>7. service' = "lists" /\ ListsTypeOK'
  BY <1>2, <1>4, <1>6, ListTypes DEF ListsTypeOK, Handling
<1>8. Grows
  BY <1>2 DEF Grows
<1>9. /\ \A m \in entered : Settled(m)'
      /\ \A t : Leads(t) => Leads(t)'
  BY <1>8, LeadsOn DEF ListsInv
<1>10. r.id <= begun /\ r.id \notin entered /\ reserved[r.id] = None
  BY <1>1, <1>2 DEF Drafted
<1>11. Drafted(p)'
  <2>1. \A q \in InFlight' \ {p} : req'[q].id # c.id
    BY <1>1, <1>2, <1>3, <1>4, DraftsApart
  <2>2. IF c.reply
        THEN c.thread \in entered' /\ (c.at \notin {"poster", "thread"} => c.parent \in entered' /\ Leads(c.thread)')
        ELSE c.parent = None /\ c.thread = c.id /\ c.at # "thread"
    BY <1>1, <1>2, <1>3, <1>9 DEF Drafted
  <2>3. \A m \in entered' : letter'[m].header # c.id
    BY <1>1, <1>2, <1>3 DEF Drafted
  <2> QED
    BY <1>2, <1>3, <1>4, <1>6, <1>10, <2>1, <2>2, <2>3 DEF Drafted
<1>12. \A q \in InFlight \ {p} : Drafted(q)'
  <2>1. \A m \in Mails \ {r.id} : reserved'[m] = reserved[m] /\ letter'[m] = letter[m]
    BY <1>2, <1>6
  <2>2. req'[p].id = req[p].id
    BY <1>1, <1>3, <1>4
  <2> QED
    BY <1>1, <1>2, <1>4, <1>8, <2>1, <2>2, OthersDrafted
<1>13. ASSUME NEW a \in Posters
       PROVE  Cardinality(Postings(a)') + Cardinality(Reservers(a)') <= PostLimit + Cardinality(Requests) - 1
  <2>1. Cardinality(Postings(a)) + Cardinality(Reservers(a)) <= PostLimit + Cardinality(Requests) - 1
    BY DEF ListsInv, Limits
  <2>2. CASE a = r.author
    <3>1. Postings(a)' = Postings(a) \cup {r.id} /\ r.id \notin Postings(a)
      BY <1>5, <1>6, <1>10, <2>2 DEF Postings
    <3>2. Reservers(a)' = Reservers(a) \ {p} /\ p \in Reservers(a)
      <4>1. \A q \in InFlight \ {p} : req'[q] = req[q]
        BY <1>4
      <4>2. req'[p].at # "reserve" /\ req[p].at = "reserve" /\ req[p].author = a
        BY <1>1, <1>2, <1>3, <1>4, <2>2
      <4> QED
        BY <1>2, <1>4, <4>1, <4>2 DEF Reservers
    <3>3. IsFiniteSet(Postings(a)) /\ IsFiniteSet(Reservers(a))
          /\ Cardinality(Postings(a)) \in Nat /\ Cardinality(Reservers(a)) \in Nat
      BY ListsFinite DEF Postings, Reservers
    <3>4. Cardinality(Postings(a)') = Cardinality(Postings(a)) + 1
      BY <3>1, <3>3, FS_AddElement
    <3>5. Cardinality(Reservers(a)') = Cardinality(Reservers(a)) - 1
      BY <3>2, <3>3, FS_RemoveElement
    <3> QED
      BY <2>1, <3>3, <3>4, <3>5
  <2>3. CASE a # r.author
    <3>1. Postings(a)' = Postings(a) /\ Reservers(a)' = Reservers(a)
      <4>1. \A m \in Mails : reserved'[m] = a <=> reserved[m] = a
        BY <1>5, <1>6, <1>10, <2>3, ListsAssumption
      <4>2. \A q \in InFlight : req'[q].at = "reserve" /\ req'[q].author = a
                                <=> req[q].at = "reserve" /\ req[q].author = a
        BY <1>1, <1>3, <1>4, <2>3
      <4>3. Reservers(a)' = Reservers(a)
        BY <1>4, <4>2 DEF Reservers
      <4> QED
        BY <4>1, <4>3 DEF Postings
    <3> QED
      BY <2>1, <3>1
  <2> QED
    BY <2>2, <2>3
<1>14. Filed' = Filed /\ Placing' = Placing
  <2>1. \A q \in InFlight : req'[q].at \in {"reserve", "message", "entry"}
                            <=> req[q].at \in {"reserve", "message", "entry"}
    BY <1>1, <1>2, <1>3, <1>4
  <2> QED
    BY <1>2, <1>4, <2>1 DEF Filed, Placing
<1>15. Limits'
  BY <1>13, <1>14 DEF Limits, ListsInv
<1>16. ReservationsSpent'
  <2>1. ASSUME NEW m \in Mails \ spent', reserved'[m] # None, m \notin entered
        PROVE  \E q \in InFlight' : req'[q].at \in {"message", "entry"} /\ req'[q].id = m
    <3>1. CASE m = r.id
      BY <1>2, <1>3, <1>4, <3>1
    <3>2. CASE m # r.id
      <4>1. PICK q \in InFlight : req[q].at \in {"message", "entry"} /\ req[q].id = m
        BY <1>2, <1>6, <2>1, <3>2, ReservingOf DEF ListsInv, ReservationsSpent
      <4> QED
        BY <1>1, <1>2, <1>4, <4>1
    <3> QED
      BY <3>1, <3>2
  <2>2. Reserving' = {q \in InFlight' : req'[q].at \in {"message", "entry"}}
    BY <1>7 DEF Reserving, Of
  <2>3. \A m \in entered : reserved'[m] = letter[m].author
    BY <1>6, <1>10, ListTypes DEF ListsInv, ReservationsSpent
  <2> QED
    BY <1>2, <2>1, <2>2, <2>3 DEF ReservationsSpent
<1>17. \A m \in Mails : m \in entered' \/ reserved'[m] # None => m <= begun'
  BY <1>2, <1>4, <1>6, <1>10 DEF ListsInv
<1>18. \A t \in published' : Leads(t)'
  BY <1>2, <1>9 DEF ListsInv
<1> QED
  BY <1>2, <1>4, <1>7, <1>9, <1>11, <1>12, <1>15, <1>16, <1>17, <1>18 DEF ListsInv

LEMMA PostStored ==
  ASSUME ListsInv, NEW p \in Requests, StoreLetter(p)
  PROVE  ListsInv'
<1> USE ListHandlers
<1>1. PICK r, c, i : /\ r = req[p] /\ c = [r EXCEPT !.at = "entry"] /\ Continue(p, c)
                     /\ i = [author |-> r.author, thread |-> r.thread, parent |-> r.parent, header |-> r.parent]
  BY DEF StoreLetter, Goto
<1>2. /\ p \in InFlight /\ r.at = "message" /\ r \in PostCalls /\ Drafted(p)
      /\ letter' = [letter EXCEPT ![r.id] = i]
      /\ UNCHANGED <<subscribed, reserved, entered, published, overtaken, spent>>
  BY <1>1 DEF StoreLetter, At
<1>3. /\ c \in PostCalls /\ c.at = "entry" /\ c.id = r.id /\ c.author = r.author /\ c.reply = r.reply
      /\ c.thread = r.thread /\ c.parent = r.parent
  BY <1>1, <1>2 DEF PostCalls, PostPlaces
<1>4. /\ Handling("lists", PostCalls)' /\ begun' = begun /\ InFlight' = InFlight /\ req'[p] = c
      /\ \A q \in Requests \ {p} : req'[q] = req[q]
  BY <1>1, <1>2, <1>3, Goes
<1>5. r.id \in Mails /\ i \in Mail
  BY <1>1, <1>2, PostFields DEF Mail
<1>6. /\ letter' \in [Mails -> Mail \cup {None}] /\ letter'[r.id] = i
      /\ \A m \in Mails \ {r.id} : letter'[m] = letter[m]
  BY <1>2, <1>5, ListTypes
<1>7. service' = "lists" /\ ListsTypeOK'
  BY <1>2, <1>4, <1>6, ListTypes DEF ListsTypeOK, Handling
<1>8. r.id \notin entered /\ reserved[r.id] = r.author /\ r.id <= begun
      /\ \A m \in entered : letter[m].header # r.id
  BY <1>1, <1>2 DEF Drafted
<1>9. \A m \in entered : letter'[m] = letter[m]
  BY <1>6, <1>8, ListTypes
<1>10. Grows
  BY <1>2, <1>9 DEF Grows
<1>11. /\ \A m \in entered : Settled(m)'
       /\ \A t : Leads(t) => Leads(t)'
  BY <1>10, LeadsOn DEF ListsInv
<1>12. Drafted(p)'
  <2>1. \A q \in InFlight' \ {p} : req'[q].id # c.id
    BY <1>1, <1>2, <1>3, <1>4, DraftsApart
  <2>2. IF c.reply
        THEN c.thread \in entered' /\ (c.at \notin {"poster", "thread"} => c.parent \in entered' /\ Leads(c.thread)')
        ELSE c.parent = None /\ c.thread = c.id /\ c.at # "thread"
    BY <1>1, <1>2, <1>3, <1>11 DEF Drafted
  <2>3. \A m \in entered' : letter'[m].header # c.id
    BY <1>2, <1>3, <1>8, <1>9
  <2>4. letter'[c.id] = [author |-> c.author, thread |-> c.thread, parent |-> c.parent, header |-> c.parent]
    BY <1>1, <1>3, <1>6
  <2> QED
    BY <1>2, <1>3, <1>4, <1>8, <2>1, <2>2, <2>3, <2>4 DEF Drafted
<1>13. \A q \in InFlight \ {p} : Drafted(q)'
  <2>1. \A m \in Mails \ {r.id} : reserved'[m] = reserved[m] /\ letter'[m] = letter[m]
    BY <1>2, <1>6
  <2>2. req'[p].id = req[p].id
    BY <1>1, <1>3, <1>4
  <2> QED
    BY <1>1, <1>2, <1>4, <1>10, <2>1, <2>2, OthersDrafted
<1>14. Limits'
  <2>1. Filed' = Filed
    BY <1>2, <1>9 DEF Filed
  <2>2. ASSUME NEW q \in InFlight', req'[q].at \in {"reserve", "message", "entry"}
        PROVE  /\ q \in InFlight /\ req'[q].author = req[q].author
               /\ (req'[q].at = "reserve" => req[q].at = "reserve")
               /\ req[q].at \in {"reserve", "message", "entry"}
    BY <1>1, <1>2, <1>3, <1>4, <2>2
  <2>3. InFlight' \subseteq Requests
    BY <1>4
  <2> QED
    BY <1>2, <1>7, <2>1, <2>2, <2>3, LimitsHold
<1>15. ReservationsSpent'
  <2>1. ASSUME NEW m \in Mails \ spent', reserved'[m] # None, m \notin entered
        PROVE  \E q \in InFlight' : req'[q].at \in {"message", "entry"} /\ req'[q].id = m
    <3>1. PICK q \in InFlight : req[q].at \in {"message", "entry"} /\ req[q].id = m
      BY <1>2, <2>1, ReservingOf DEF ListsInv, ReservationsSpent
    <3>2. CASE q = p
      BY <1>1, <1>2, <1>3, <1>4, <3>1, <3>2
    <3>3. CASE q # p
      BY <1>4, <3>1, <3>3
    <3> QED
      BY <3>2, <3>3
  <2>2. Reserving' = {q \in InFlight' : req'[q].at \in {"message", "entry"}}
    BY <1>7 DEF Reserving, Of
  <2>3. \A m \in entered : reserved[m] = letter'[m].author
    BY <1>9 DEF ListsInv, ReservationsSpent
  <2> QED
    BY <1>2, <2>1, <2>2, <2>3 DEF ReservationsSpent
<1>16. \A t \in published' : Leads(t)'
  BY <1>2, <1>11 DEF ListsInv
<1> QED
  BY <1>2, <1>4, <1>7, <1>11, <1>12, <1>13, <1>14, <1>15, <1>16 DEF ListsInv

LEMMA PostFiled ==
  ASSUME ListsInv, NEW p \in Requests, AddListEntry(p)
  PROVE  ListsInv'
<1> USE ListHandlers
<1>1. PICK r, c, i : /\ r = req[p] /\ c = [r EXCEPT !.at = "publish"] /\ Continue(p, c)
                     /\ i = [author |-> r.author, thread |-> r.thread, parent |-> r.parent, header |-> r.parent]
  BY DEF AddListEntry, Goto
<1>2. /\ p \in InFlight /\ r.at = "entry" /\ r \in PostCalls /\ Drafted(p)
      /\ entered' = entered \cup {r.id}
      /\ UNCHANGED <<subscribed, reserved, letter, published, overtaken, spent>>
  BY <1>1 DEF AddListEntry, At
<1>3. /\ c \in PostCalls /\ c.at = "publish" /\ c.id = r.id /\ c.author = r.author /\ c.reply = r.reply
      /\ c.thread = r.thread /\ c.parent = r.parent
  BY <1>1, <1>2 DEF PostCalls, PostPlaces
<1>4. /\ Handling("lists", PostCalls)' /\ begun' = begun /\ InFlight' = InFlight /\ req'[p] = c
      /\ \A q \in Requests \ {p} : req'[q] = req[q]
  BY <1>1, <1>2, <1>3, Goes
<1>5. r.id \in Mails /\ i \in Mail /\ i # None /\ r.author \in Posters /\ r.author # None
      /\ r.parent \in Mails \cup {None} /\ None \notin Mails
  BY <1>1, <1>2, PostFields, ListsAssumption DEF Mail
<1>6. /\ r.id \notin entered /\ reserved[r.id] = r.author /\ r.id <= begun /\ letter[r.id] = i
      /\ \A m \in entered : letter[m].header # r.id
  BY <1>1, <1>2 DEF Drafted
<1>7. service' = "lists" /\ ListsTypeOK'
  BY <1>2, <1>4, <1>5, ListTypes DEF ListsTypeOK, Handling
<1>8. IF r.reply THEN r.thread \in entered /\ r.parent \in entered /\ Leads(r.thread)
      ELSE r.parent = None /\ r.thread = r.id
  BY <1>1, <1>2 DEF Drafted
<1>9. Grows
  BY <1>2, <1>6 DEF Grows
<1>10. /\ \A m \in entered : Settled(m)'
       /\ \A t : Leads(t) => Leads(t)'
  BY <1>9, LeadsOn DEF ListsInv
<1>11. i.author = r.author /\ i.thread = r.thread /\ i.parent = r.parent /\ i.header = r.parent
  BY <1>1
<1>12. \A m : m = r.id => Settled(m)'
  <2>1. IF i.parent = None THEN i.thread = r.id ELSE i.parent \in entered' \ {r.id}
    BY <1>2, <1>5, <1>6, <1>8, <1>11, ListTypes
  <2> QED
    BY <1>2, <1>5, <1>6, <2>1 DEF Settled
<1>13. \A t : t = r.thread => Leads(t)'
  <2>1. CASE r.reply
    BY <1>8, <1>10, <2>1
  <2>2. CASE ~ r.reply
    <3>1. PICK t : t = r.thread /\ t = r.id /\ t \in entered' /\ letter'[t] = i
      BY <1>2, <1>6, <1>8, <2>2
    <3>2. i.parent = None /\ i.header = None /\ i.thread = t /\ None \notin entered'
      BY <1>2, <1>5, <1>8, <1>11, <2>2, <3>1, ListTypes
    <3>3. (Above(t) = t)'
      BY <3>1, <3>2 DEF Above
    <3> QED
      BY <3>1, <3>3 DEF Leads
  <2> QED
    BY <2>1, <2>2
<1>14. Drafted(p)'
  <2>1. \A q \in InFlight' \ {p} : req'[q].id # c.id
    BY <1>1, <1>2, <1>3, <1>4, DraftsApart
  <2>2. PICK t : t = c.thread /\ Leads(t)' /\ t \in entered'
    BY <1>3, <1>13 DEF Leads
  <2>3. IF c.reply THEN c.parent \in entered' ELSE c.parent = None /\ c.thread = c.id
    BY <1>2, <1>3, <1>8
  <2> QED
    BY <1>2, <1>3, <1>4, <1>6, <2>1, <2>2, <2>3 DEF Drafted
<1>15. \A q \in InFlight \ {p} : Drafted(q)'
  <2>1. \A m \in Mails \ {r.id} : reserved'[m] = reserved[m] /\ letter'[m] = letter[m]
    BY <1>2
  <2>2. req'[p].id = req[p].id
    BY <1>1, <1>3, <1>4
  <2>3. letter'[r.id].header \in entered \cup {None}
    BY <1>2, <1>6, <1>8, <1>11
  <2> QED
    BY <1>1, <1>2, <1>4, <1>9, <2>1, <2>2, <2>3, OthersDrafted
<1>16. \A a \in Posters : Cardinality(Postings(a)') + Cardinality(Reservers(a)') <= PostLimit + Cardinality(Requests) - 1
  <2>1. ASSUME NEW a \in Posters
        PROVE  Postings(a)' = Postings(a) /\ Reservers(a)' = Reservers(a)
    <3>1. \A q \in InFlight : req'[q].at = "reserve" /\ req'[q].author = a
                              <=> req[q].at = "reserve" /\ req[q].author = a
      BY <1>1, <1>2, <1>3, <1>4
    <3> QED
      BY <1>2, <1>4, <3>1 DEF Postings, Reservers
  <2> QED
    BY <2>1 DEF ListsInv, Limits
<1>17. Cardinality(Filed') + Cardinality(Placing') <= ListLimit + Cardinality(Requests) - 1
  <2>1. Filed' = Filed \cup {r.id} /\ r.id \notin Filed
    BY <1>2, <1>5, <1>6, <1>11 DEF Filed
  <2>2. Placing' = Placing \ {p} /\ p \in Placing
    <3>1. \A q \in InFlight \ {p} : req'[q] = req[q]
      BY <1>4
    <3>2. req'[p].at = "publish" /\ req[p].at = "entry"
      BY <1>1, <1>2, <1>3, <1>4
    <3> QED
      BY <1>2, <1>4, <3>1, <3>2 DEF Placing
  <2>3. Filed \subseteq Mails /\ Placing \subseteq Requests
    BY ListTypes DEF Filed, Placing
  <2>4. IsFiniteSet(Filed) /\ IsFiniteSet(Placing) /\ Cardinality(Filed) \in Nat /\ Cardinality(Placing) \in Nat
    BY <2>3, ListsFinite
  <2>5. Cardinality(Filed') = Cardinality(Filed) + 1
    BY <2>1, <2>4, FS_AddElement
  <2>6. Cardinality(Placing') = Cardinality(Placing) - 1
    BY <2>2, <2>4, FS_RemoveElement
  <2>7. Cardinality(Filed) + Cardinality(Placing) <= ListLimit + Cardinality(Requests) - 1
    BY DEF ListsInv, Limits
  <2> QED
    BY <2>4, <2>5, <2>6, <2>7
<1>18. Limits'
  BY <1>16, <1>17 DEF Limits
<1>19. ReservationsSpent'
  <2>1. ASSUME NEW m \in Mails \ spent', reserved'[m] # None, m \notin entered'
        PROVE  \E q \in InFlight' : req'[q].at \in {"message", "entry"} /\ req'[q].id = m
    <3>1. PICK q \in InFlight : req[q].at \in {"message", "entry"} /\ req[q].id = m
      BY <1>2, <2>1, ReservingOf DEF ListsInv, ReservationsSpent
    <3>2. q # p
      BY <1>1, <1>2, <2>1, <3>1
    <3> QED
      BY <1>4, <3>1, <3>2
  <2>2. Reserving' = {q \in InFlight' : req'[q].at \in {"message", "entry"}}
    BY <1>7 DEF Reserving, Of
  <2>3. \A m \in entered' : reserved[m] = letter[m].author
    BY <1>2, <1>6, <1>11 DEF ListsInv, ReservationsSpent
  <2> QED
    BY <1>2, <2>1, <2>2, <2>3 DEF ReservationsSpent
<1>20. \A m \in Mails : m \in entered' \/ reserved'[m] # None => m <= begun'
  BY <1>2, <1>4, <1>6 DEF ListsInv
<1>21. \A t \in published' : Leads(t)'
  BY <1>2, <1>10 DEF ListsInv
<1>22. \A m \in entered' : Settled(m)'
  BY <1>2, <1>10, <1>12
<1> QED
  BY <1>4, <1>7, <1>14, <1>15, <1>18, <1>19, <1>20, <1>21, <1>22 DEF ListsInv

\* The process dies.
LEMMA PostsDie ==
  ASSUME ListsInv, CrashPosts
  PROVE  ListsInv'
<1> USE ListHandlers
<1>1. Handling("lists", PostCalls)' /\ begun' = begun /\ InFlight' = {}
      /\ UNCHANGED <<subscribed, reserved, letter, entered, published, overtaken>>
  BY Dies DEF CrashPosts
<1>2. spent' = spent \cup {req[q].id : q \in Reserving}
  BY DEF CrashPosts
<1>3. Reserving = {q \in InFlight : req[q].at \in {"message", "entry"}}
  BY ReservingOf DEF ListsInv
<1>4. service' = "lists" /\ ListsTypeOK'
  <2>1. \A q \in Reserving : req[q].id \in Mails
    BY <1>3, PostFields
  <2> QED
    BY <1>1, <1>2, <2>1, ListTypes DEF ListsTypeOK, Handling
<1>5. /\ \A m \in entered' : Settled(m)'
      /\ \A t : Leads(t) => Leads(t)'
  BY <1>1, LeadsOn DEF Grows, ListsInv
<1>6. Limits'
  BY <1>1, <1>4, LimitsHold DEF Filed
<1>7. ReservationsSpent'
  BY <1>1, <1>2 DEF ListsInv, ReservationsSpent
<1> QED
  BY <1>1, <1>4, <1>5, <1>6, <1>7 DEF ListsInv

LEMMA ListsStart == HandlersInit /\ service = "lists" /\ ListsInit => ListsInv
<1> SUFFICES ASSUME HandlersInit, service = "lists", ListsInit
             PROVE  ListsInv
  OBVIOUS
<1>1. Handling("lists", PostCalls) /\ InFlight = {}
  BY Starts
<1>2. ListsTypeOK
  BY <1>1 DEF ListsTypeOK, Handling, ListsInit
<1>3. /\ Filed = {} /\ Placing = {}
      /\ \A a \in Posters : Postings(a) = {} /\ Reservers(a) = {}
  BY <1>1, ListsAssumption DEF Filed, Placing, Postings, Reservers, ListsInit
<1>4. Cardinality({}) = 0 /\ Cardinality(Requests) \in Nat
      /\ PostLimit \in Nat /\ PostLimit >= 1 /\ ListLimit \in Nat /\ ListLimit >= 1
  BY FS_EmptySet, ListsFinite, ListsAssumption
<1>5. 0 + 0 <= PostLimit + Cardinality(Requests) - 1 /\ 0 + 0 <= ListLimit + Cardinality(Requests) - 1
  BY <1>4
<1>6. Limits
  BY <1>3, <1>4, <1>5 DEF Limits
<1> QED
  BY <1>1, <1>2, <1>6 DEF ListsInv, ListsInit, ReservationsSpent

LEMMA ListsKept == ListsInv /\ [ListsNext]_<<handlers, listVars>> => ListsInv'
<1> SUFFICES ASSUME ListsInv, [ListsNext]_<<handlers, listVars>>
             PROVE  ListsInv'
  OBVIOUS
<1> USE ListHandlers, ListTypes
<1>1. ASSUME NEW a \in Posters, Subscribe(a)
      PROVE  ListsInv'
  <2>1. Handling("lists", PostCalls)' /\ begun' = begun + 1 /\ InFlight' = InFlight /\ req' = req
    BY <1>1, Answers DEF Subscribe
  <2>2. UNCHANGED <<reserved, letter, entered, published, overtaken, spent>> /\ subscribed' \subseteq Posters
    BY <1>1 DEF Subscribe
  <2>3. Limits'
    BY <2>1, <2>2, LimitsHold DEF Handling, Filed
  <2>4. PICK p : p = None /\ p \notin InFlight
    BY HandlersAssumption
  <2> QED
    BY <2>1, <2>2, <2>3, <2>4, ListQuiet
<1>2. ASSUME NEW p \in Requests, NEW a \in Posters, Post(p, a)
      PROVE  ListsInv'
  <2>1. PICK t : t = begun + 1 /\ Begin(p, Draft(a, FALSE, t)) /\ Unheard /\ UNCHANGED listVars
    BY <1>2 DEF Post
  <2>2. t \in Mails
    BY <2>1 DEF Begin, Mails
  <2>3. PICK reply \in BOOLEAN : reply = FALSE /\ Begin(p, Draft(a, reply, t))
    BY <2>1
  <2> QED
    BY <2>1, <2>2, <2>3, DraftBegins
<1>3. ASSUME NEW p \in Requests, NEW a \in Posters, NEW t \in Mails, Reply(p, a, t)
      PROVE  ListsInv'
  <2>1. PICK reply \in BOOLEAN : reply = TRUE /\ Begin(p, Draft(a, reply, t))
    BY <1>3 DEF Reply
  <2> QED
    BY <1>3, <2>1, DraftBegins DEF Reply
<1>4. ASSUME NEW p \in InFlight, Return(p) \/ Fault(p, None), UNCHANGED listVars, req[p].at \notin {"message", "entry"}
      PROVE  ListsInv'
  BY <1>4, DraftEnds DEF listVars
<1>5. ASSUME NEW p \in Requests, CheckPoster(p)
      PROVE  ListsInv'
  <2>1. p \in InFlight /\ req[p].at = "poster" /\ UNCHANGED listVars
    BY <1>5 DEF CheckPoster, At
  <2>2. CASE Return(p)
    BY <1>4, <2>1, <2>2
  <2>3. CASE \E place : Goto(p, place) /\ place = IF req[p].reply THEN "thread" ELSE "count"
    <3>1. PICK r, place, c : /\ r = req[p] /\ place = IF r.reply THEN "thread" ELSE "count"
                             /\ c = [r EXCEPT !.at = place] /\ Continue(p, c)
      BY <2>3 DEF Goto
    <3>2. /\ c \in PostCalls /\ c.at = place /\ c.id = r.id /\ c.author = r.author /\ c.reply = r.reply
          /\ c.thread = r.thread /\ c.parent = r.parent /\ place \in {"thread", "count"}
      BY <2>1, <3>1 DEF PostCalls, PostPlaces
    <3>3. IF r.reply THEN place = "thread" ELSE place = "count" /\ c.parent = None
      <4>1. Drafted(p)
        BY <2>1
      <4> QED
        BY <3>1, <3>2, <4>1 DEF Drafted
    <3>4. Limits'
      <4>1. InFlight' = InFlight /\ req'[p] = c /\ \A q \in Requests \ {p} : req'[q] = req[q]
        BY <2>1, <3>1, <3>2, Goes
      <4>2. service' = "lists" /\ reserved' = reserved /\ Filed' = Filed
        BY <2>1, <3>1 DEF Continue, ListsInv, Filed, listVars
      <4> QED
        BY <3>1, <3>2, <4>1, <4>2, LimitsHold
    <3> QED
      BY <2>1, <3>1, <3>2, <3>3, <3>4, DraftGoes
  <2> QED
    BY <1>5, <2>2, <2>3 DEF CheckPoster
<1>6. ASSUME NEW p \in Requests, FindParent(p)
      PROVE  ListsInv'
  <2>1. p \in InFlight /\ req[p].at = "thread" /\ UNCHANGED listVars
    BY <1>6 DEF FindParent, At
  <2>2. CASE Return(p)
    BY <1>4, <2>1, <2>2
  <2>3. CASE ~ Return(p)
    <3>1. PICK r, m, c : /\ r = req[p] /\ r.thread \in Threads /\ m \in Thread(r.thread)
                         /\ c = [r EXCEPT !.at = "count", !.parent = m] /\ Continue(p, c)
      BY <1>6, <2>3 DEF FindParent
    <3>2. m \in entered /\ m \in Mails /\ RootFor(m) = r.thread
      BY <3>1 DEF Thread
    <3>3. /\ c \in PostCalls /\ c.at = "count" /\ c.id = r.id /\ c.author = r.author /\ c.reply = r.reply
          /\ c.thread = r.thread /\ c.parent = m
      BY <2>1, <3>1, <3>2 DEF PostCalls, PostPlaces
    <3>4. Leads(r.thread)
      <4>1. IsFiniteSet(entered)
        BY ListsFinite
      <4> QED
        BY <3>2, <4>1, RootsBegin DEF Leads
    <3>5. r.reply
      <4>1. Drafted(p)
        BY <2>1
      <4> QED
        BY <2>1, <3>1, <4>1 DEF Drafted
    <3>6. Limits'
      <4>1. InFlight' = InFlight /\ req'[p] = c /\ \A q \in Requests \ {p} : req'[q] = req[q]
        BY <2>1, <3>1, <3>3, Goes
      <4>2. service' = "lists" /\ reserved' = reserved /\ Filed' = Filed
        BY <2>1, <3>1 DEF Continue, ListsInv, Filed, listVars
      <4> QED
        BY <3>1, <3>3, <4>1, <4>2, LimitsHold
    <3> QED
      BY <2>1, <3>1, <3>2, <3>3, <3>4, <3>5, <3>6, DraftGoes
  <2> QED
    BY <2>2, <2>3
<1>7. ASSUME NEW p \in Requests, CountPostings(p)
      PROVE  ListsInv'
  <2>1. p \in InFlight /\ req[p].at = "count" /\ UNCHANGED listVars
    BY <1>7 DEF CountPostings, At
  <2> QED
    BY <1>4, <1>7, <2>1, PlaceCounted DEF CountPostings
<1>8. ASSUME NEW p \in Requests, PublishLetter(p)
      PROVE  ListsInv'
  <2>1. PICK r : r = req[p]
    OBVIOUS
  <2>2. /\ p \in InFlight /\ r.at = "publish" /\ Return(p) /\ r \in PostCalls /\ Drafted(p)
        /\ published' = published \cup {r.thread}
        /\ UNCHANGED <<subscribed, reserved, letter, entered, overtaken, spent>>
    BY <1>8, <2>1 DEF PublishLetter, At
  <2>3. Leads(r.thread) /\ r.thread \in Mails
    BY <2>1, <2>2, PostFields DEF Drafted
  <2> QED
    BY <2>1, <2>2, <2>3, DraftEnds
<1>9. ASSUME NEW p \in Requests, FailPost(p)
      PROVE  ListsInv'
  <2>1. p \in InFlight /\ Fault(p, None) /\ UNCHANGED <<subscribed, reserved, letter, entered, published, overtaken>>
    BY <1>9 DEF FailPost
  <2>2. spent' = spent \cup {req[q].id : q \in Reserving \cap {p}}
    BY <1>9 DEF FailPost
  <2>3. p \in Reserving <=> req[p].at \in {"message", "entry"}
    BY <2>1, ReservingOf DEF ListsInv
  <2>4. req[p].id \in Mails
    BY <2>1, PostFields
  <2> QED
    BY <2>1, <2>2, <2>3, <2>4, DraftEnds
<1>10. ASSUME UNCHANGED <<handlers, listVars>>
       PROVE  ListsInv'
  <2>1. Handling("lists", PostCalls)' /\ begun' = begun /\ InFlight' = InFlight /\ req' = req
    BY <1>10, Rests
  <2>2. Limits'
    BY <1>10, <2>1, LimitsHold DEF Handling, Filed, listVars
  <2>3. PICK p : p = None /\ p \notin InFlight
    BY HandlersAssumption
  <2> QED
    BY <1>10, <2>1, <2>2, <2>3, ListQuiet DEF listVars
<1> QED
  BY <1>1, <1>2, <1>3, <1>5, <1>6, <1>7, <1>8, <1>9, <1>10, MailArrives, PlaceReserved, PostStored, PostFiled,
     PostsDie DEF ListsNext

\* What the invariant says is the promise.
LEMMA ListsAgree == ListsInv => ListsPromise
<1> SUFFICES ASSUME ListsInv
             PROVE  ListsPromise
  OBVIOUS
<1>1. IsFiniteSet(entered)
  BY ListTypes, ListsFinite
<1>2. LimitsOvershoot
  <2>1. ASSUME NEW a \in Posters
        PROVE  Cardinality(Postings(a)) <= PostLimit + (Cardinality(Requests) - 1)
    <3>1. Cardinality(Postings(a)) \in Nat /\ Cardinality(Reservers(a)) \in Nat
      BY ListHandlers, ListsFinite DEF Postings, Reservers
    <3>2. Cardinality(Postings(a)) + Cardinality(Reservers(a)) <= PostLimit + Cardinality(Requests) - 1
      BY DEF ListsInv, Limits
    <3> QED
      BY <3>1, <3>2, ListsFinite, ListsAssumption
  <2>2. Cardinality(Filed) <= ListLimit + (Cardinality(Requests) - 1)
    <3>1. Cardinality(Filed) \in Nat /\ Cardinality(Placing) \in Nat
      BY ListHandlers, ListTypes, ListsFinite DEF Filed, Placing
    <3>2. Cardinality(Filed) + Cardinality(Placing) <= ListLimit + Cardinality(Requests) - 1
      BY DEF ListsInv, Limits
    <3> QED
      BY <3>1, <3>2, ListsFinite, ListsAssumption
  <2> QED
    BY <2>1, <2>2 DEF LimitsOvershoot, Filed
<1>3. LinksFound
  <2>1. ASSUME NEW t \in published, letter[t].header \notin overtaken
        PROVE  t \in Threads
    <3>1. t \in entered /\ (Above(t) = t \/ Circling(t))
      BY <2>1 DEF ListsInv, Leads
    <3>2. RootFor(t) = t
      BY <1>1, <3>1, RootsBegin
    <3> QED
      BY <3>1, <3>2, ListTypes DEF Threads, Thread
  <2> QED
    BY <2>1 DEF LinksFound
<1> QED
  BY <1>1, <1>2, <1>3, RepliesAreTogether DEF ListsPromise, ListsInv

\* Limits are passed by what overlaps and no more, reservations stand for posts, and a reply is
\* shown with what it replies to and under the thread that its event names, in whatever order
\* posts, replies and mail arrive, fail or are cut short.
THEOREM ListsKeepTheirPromise == ListsSpec => []ListsPromise
<1>1. ListsSpec => []ListsInv
  BY ListsStart, ListsKept, PTL DEF ListsSpec
<1> QED
  BY <1>1, ListsAgree, PTL
-----------------------------------------------------------------------------
(* The services together, as the runs check them.                          *)

\* The service at work keeps its invariant; the others stay as they were at first.
AllInv ==
  /\ service \in Services /\ begun \in 0 .. MaxRequests /\ faults \in 0 .. MaxFaults
  /\ IF service = "lists" THEN ListsInv ELSE ListsInit
  /\ IF service = "questions" THEN QuestionsInv ELSE QuestionsInit
  /\ IF service = "notifications" THEN NoticesInv ELSE NotificationsInit
  /\ IF service = "blog" THEN BlogInv ELSE BlogInit
  /\ IF service = "proposals" THEN ProposalsInv ELSE ProposalsInit

LEMMA AllStart == Init => AllInv
<1> SUFFICES ASSUME Init
             PROVE  AllInv
  OBVIOUS
<1>1. HandlersInit /\ ListsInit /\ QuestionsInit /\ NotificationsInit /\ BlogInit /\ ProposalsInit
  BY DEF Init
<1>2. service \in Services /\ begun \in 0 .. MaxRequests /\ faults \in 0 .. MaxFaults
  BY <1>1, HandlersAssumption DEF HandlersInit
<1>3. /\ service = "lists" => ListsInv
      /\ service = "questions" => QuestionsInv
      /\ service = "notifications" => NoticesInv
      /\ service = "blog" => BlogInv
      /\ service = "proposals" => ProposalsInv
  BY <1>1, ListsStart, QuestionsStart, NotificationsStart, BlogStart, ProposalsStart
<1> QED
  BY <1>1, <1>2, <1>3 DEF AllInv

LEMMA InvsTyped ==
  /\ ListsInv => service = "lists" /\ ListsTypeOK
  /\ QuestionsInv => service = "questions" /\ QuestionsTypeOK
  /\ NoticesInv => service = "notifications" /\ NotificationsTypeOK
  /\ BlogInv => service = "blog" /\ BlogTypeOK
  /\ ProposalsInv => service = "proposals" /\ ProposalsTypeOK
BY DEF ListsInv, QuestionsInv, QuestionsTyped, QuestionsTypeOK, Handling, NoticesInv, BlogInv, ProposalsInv

\* A service that is not at work does not change.
LEMMA Idle ==
  /\ UNCHANGED listVars /\ ListsInit => ListsInit'
  /\ UNCHANGED questionVars /\ QuestionsInit => QuestionsInit'
  /\ UNCHANGED noticeVars /\ NotificationsInit => NotificationsInit'
  /\ UNCHANGED blogVars /\ BlogInit => BlogInit'
  /\ UNCHANGED proposalVars /\ ProposalsInit => ProposalsInit'
BY DEF listVars, ListsInit, questionVars, QuestionsInit, noticeVars, NotificationsInit,
       blogVars, BlogInit, proposalVars, ProposalsInit

\* A step is one of the service at work.
LEMMA OneWorks ==
  ASSUME [Next \/ Done]_vars
  PROVE  \/ /\ service = "lists" /\ ListsNext /\ UNCHANGED <<questionVars, noticeVars, blogVars, proposalVars>>
         \/ /\ service = "questions" /\ QuestionsNext /\ UNCHANGED <<listVars, noticeVars, blogVars, proposalVars>>
         \/ /\ service = "notifications" /\ NotificationsNext
            /\ UNCHANGED <<listVars, questionVars, blogVars, proposalVars>>
         \/ /\ service = "blog" /\ BlogNext /\ UNCHANGED <<listVars, questionVars, noticeVars, proposalVars>>
         \/ /\ service = "proposals" /\ ProposalsNext /\ UNCHANGED <<listVars, questionVars, noticeVars, blogVars>>
         \/ UNCHANGED <<handlers, listVars, questionVars, noticeVars, blogVars, proposalVars>>
BY DEF Next, Done, vars

LEMMA AllKept == AllInv /\ [Next \/ Done]_vars => AllInv' /\ service' = service
<1> SUFFICES ASSUME AllInv, [Next \/ Done]_vars
             PROVE  AllInv' /\ service' = service
  OBVIOUS
<1>1. ASSUME service = "lists", [ListsNext]_<<handlers, listVars>>,
             UNCHANGED <<questionVars, noticeVars, blogVars, proposalVars>>
      PROVE  AllInv' /\ service' = "lists"
  <2>1. ListsInv'
    BY <1>1, ListsKept DEF AllInv
  <2>2. service' = "lists" /\ ListsTypeOK'
    BY <2>1 DEF ListsInv
  <2>3. (service \in Services /\ begun \in 0 .. MaxRequests /\ faults \in 0 .. MaxFaults)'
    BY <2>2 DEF ListsTypeOK, HandlersIn
  <2> QED
    BY <1>1, <2>1, <2>2, <2>3, Idle DEF AllInv
<1>2. ASSUME service = "questions", [QuestionsNext]_<<handlers, questionVars>>,
             UNCHANGED <<listVars, noticeVars, blogVars, proposalVars>>
      PROVE  AllInv' /\ service' = "questions"
  <2>1. QuestionsInv'
    BY <1>2, QuestionsKept DEF AllInv
  <2>2. service' = "questions" /\ QuestionsTypeOK'
    BY <2>1 DEF QuestionsInv, QuestionsTyped, QuestionsTypeOK, Handling
  <2>3. (service \in Services /\ begun \in 0 .. MaxRequests /\ faults \in 0 .. MaxFaults)'
    BY <2>2 DEF QuestionsTypeOK, HandlersIn
  <2> QED
    BY <1>2, <2>1, <2>2, <2>3, Idle DEF AllInv
<1>3. ASSUME service = "notifications", [NotificationsNext]_<<handlers, noticeVars>>,
             UNCHANGED <<listVars, questionVars, blogVars, proposalVars>>
      PROVE  AllInv' /\ service' = "notifications"
  <2>1. NoticesInv'
    BY <1>3, NotificationsKept DEF AllInv
  <2>2. service' = "notifications" /\ NotificationsTypeOK'
    BY <2>1 DEF NoticesInv
  <2>3. (service \in Services /\ begun \in 0 .. MaxRequests /\ faults \in 0 .. MaxFaults)'
    BY <2>2 DEF NotificationsTypeOK, HandlersIn
  <2> QED
    BY <1>3, <2>1, <2>2, <2>3, Idle DEF AllInv
<1>4. ASSUME service = "blog", [BlogNext]_<<handlers, blogVars>>,
             UNCHANGED <<listVars, questionVars, noticeVars, proposalVars>>
      PROVE  AllInv' /\ service' = "blog"
  <2>1. BlogInv'
    BY <1>4, BlogKept DEF AllInv
  <2>2. service' = "blog" /\ BlogTypeOK'
    BY <2>1 DEF BlogInv
  <2>3. (service \in Services /\ begun \in 0 .. MaxRequests /\ faults \in 0 .. MaxFaults)'
    BY <2>2 DEF BlogTypeOK, HandlersIn
  <2> QED
    BY <1>4, <2>1, <2>2, <2>3, Idle DEF AllInv
<1>5. ASSUME service = "proposals", [ProposalsNext]_<<handlers, proposalVars>>,
             UNCHANGED <<listVars, questionVars, noticeVars, blogVars>>
      PROVE  AllInv' /\ service' = "proposals"
  <2>1. ProposalsInv'
    BY <1>5, ProposalsKept DEF AllInv
  <2>2. service' = "proposals" /\ ProposalsTypeOK'
    BY <2>1 DEF ProposalsInv
  <2>3. (service \in Services /\ begun \in 0 .. MaxRequests /\ faults \in 0 .. MaxFaults)'
    BY <2>2 DEF ProposalsTypeOK, HandlersIn
  <2> QED
    BY <1>5, <2>1, <2>2, <2>3, Idle DEF AllInv
<1>6. CASE UNCHANGED <<handlers, listVars, questionVars, noticeVars, blogVars, proposalVars>>
  <2>1. CASE service \in {"lists", "questions", "notifications", "blog", "proposals"}
    BY <1>1, <1>2, <1>3, <1>4, <1>5, <1>6, <2>1
  <2>2. CASE service \notin {"lists", "questions", "notifications", "blog", "proposals"}
    <3>1. UNCHANGED <<service, begun, faults>>
      BY <1>6 DEF handlers
    <3> QED
      BY <1>6, <2>2, <3>1, Idle DEF AllInv
  <2> QED
    BY <2>1, <2>2
<1> QED
  BY <1>1, <1>2, <1>3, <1>4, <1>5, <1>6, OneWorks

LEMMA AllTyped == AllInv => TypeOK
<1> SUFFICES ASSUME AllInv
             PROVE  TypeOK
  OBVIOUS
<1>1. service \in Services /\ begun \in 0 .. MaxRequests /\ faults \in 0 .. MaxFaults
  BY DEF AllInv
<1>2. ListsTypeOK
  <2>1. CASE service = "lists"
    BY <2>1, InvsTyped DEF AllInv
  <2>2. CASE service # "lists"
    BY <1>1, <2>2 DEF AllInv, ListsInit, ListsTypeOK, HandlersIn
  <2> QED
    BY <2>1, <2>2
<1>3. QuestionsTypeOK
  <2>1. CASE service = "questions"
    BY <2>1, InvsTyped DEF AllInv
  <2>2. CASE service # "questions"
    BY <1>1, <2>2 DEF AllInv, QuestionsInit, QuestionsTypeOK, HandlersIn
  <2> QED
    BY <2>1, <2>2
<1>4. NotificationsTypeOK
  <2>1. CASE service = "notifications"
    BY <2>1, InvsTyped DEF AllInv
  <2>2. CASE service # "notifications"
    BY <1>1, <2>2 DEF AllInv, NotificationsInit, NotificationsTypeOK, HandlersIn
  <2> QED
    BY <2>1, <2>2
<1>5. BlogTypeOK
  <2>1. CASE service = "blog"
    BY <2>1, InvsTyped DEF AllInv
  <2>2. CASE service # "blog"
    BY <1>1, <2>2, BlogAssumption DEF AllInv, BlogInit, BlogTypeOK, HandlersIn
  <2> QED
    BY <2>1, <2>2
<1>6. ProposalsTypeOK
  <2>1. CASE service = "proposals"
    BY <2>1, InvsTyped DEF AllInv
  <2>2. CASE service # "proposals"
    BY <1>1, <2>2, HandlersAssumption DEF AllInv, ProposalsInit, ProposalsTypeOK, HandlersIn, Statuses
  <2> QED
    BY <2>1, <2>2
<1> QED
  BY <1>2, <1>3, <1>4, <1>5, <1>6 DEF TypeOK

\* What the others promise holds of what they are at first.
LEMMA IdleKeepsPromise ==
  /\ service # "lists" /\ ListsInit => ListsPromise
  /\ service # "questions" /\ QuestionsInit => StatusAgrees /\ AcceptedShown
  /\ service # "notifications" /\ NotificationsInit => StoredBounded /\ ReadStays
  /\ service # "blog" /\ BlogInit => AnnouncedOnce /\ RateOvershoot
  /\ service # "proposals" /\ ProposalsInit => DecisionsStand
<1>1. ASSUME service # "lists", ListsInit
      PROVE  ListsPromise
  <2>1. entered = {} /\ published = {} /\ \A m \in Mails : reserved[m] = None
    BY <1>1 DEF ListsInit
  <2>2. Cardinality({}) = 0 /\ Cardinality(Requests) \in Nat
        /\ PostLimit \in Nat /\ PostLimit >= 1 /\ ListLimit \in Nat /\ ListLimit >= 1
    BY FS_EmptySet, FS_CardinalityType, ListsAssumption
  <2>3. /\ \A a \in Posters : Postings(a) = {}
        /\ {m \in entered : letter[m].author # None} = {}
    BY <2>1, ListsAssumption DEF Postings
  <2>4. 0 <= PostLimit + (Cardinality(Requests) - 1) /\ 0 <= ListLimit + (Cardinality(Requests) - 1)
    BY <2>2
  <2>5. LimitsOvershoot
    BY <2>2, <2>3, <2>4 DEF LimitsOvershoot
  <2> QED
    BY <2>1, <2>5 DEF ListsPromise, ReservationsSpent, RepliesTogether, LinksFound
<1>2. ASSUME QuestionsInit
      PROVE  StatusAgrees /\ AcceptedShown
  BY <1>2 DEF QuestionsInit, StatusAgrees, AcceptedShown, Query
<1>3. ASSUME NotificationsInit
      PROVE  StoredBounded /\ ReadStays
  <2>1. notice \ deleted = {} /\ Cardinality({}) = 0 /\ 0 <= MaxStored
    BY <1>3, FS_EmptySet, NotificationsAssumption DEF NotificationsInit
  <2> QED
    BY <1>3, <2>1 DEF NotificationsInit, StoredBounded, ReadStays
<1>4. ASSUME BlogInit
      PROVE  AnnouncedOnce /\ RateOvershoot
  BY <1>4 DEF BlogInit, AnnouncedOnce, Published, RateOvershoot, StoredComments
<1>5. ASSUME ProposalsInit
      PROVE  DecisionsStand
  BY <1>5 DEF ProposalsInit, DecisionsStand
<1> QED
  BY <1>1, <1>2, <1>3, <1>4, <1>5

LEMMA IdleSteps ==
  /\ QuestionsInit /\ UNCHANGED questionVars =>
       [\A q \in Items : question[q] # None /\ question'[q].accepted # question[q].accepted =>
          \/ \E p \in Requests : At(p, "save") /\ req[p].question = q /\ req'[p] # req[p]
          \/ q \in rewritten']_<<handlers, questionVars>>
  /\ NotificationsInit /\ UNCHANGED noticeVars =>
       [\A i \in deleted' \ deleted :
          Cardinality({j \in notice \cup deleted : j > i}) >= MaxStored]_<<handlers, noticeVars>>
  /\ BlogInit /\ UNCHANGED blogVars =>
       [\A s \in Slugs : post[s] # None /\ post'[s] # post[s] =>
          \E p \in Requests : At(p, "store") /\ req[p].slug = s /\ req'[p] # req[p]]_<<handlers, blogVars>>
  /\ ProposalsInit /\ UNCHANGED proposalVars =>
       /\ [\A n \in Numbers : proposal[n] # None =>
             proposal'[n] # None /\ proposal'[n].creation = proposal[n].creation]_proposalVars
       /\ [\A n \in Numbers : proposal[n] # None /\ proposal[n].status # "draft" =>
             proposal'[n].text = proposal[n].text \/ n \in crossed']_proposalVars
BY DEF QuestionsInit, NotificationsInit, noticeVars, BlogInit, ProposalsInit

\* A behaviour of the services is one of the service it is about, and the others idle.
LEMMA OneAtWork ==
  ASSUME AllInv, [Next \/ Done]_vars
  PROVE  /\ IF service = "lists" THEN [ListsNext]_<<handlers, listVars>>
            ELSE ListsInit /\ UNCHANGED listVars
         /\ IF service = "questions" THEN [QuestionsNext]_<<handlers, questionVars>>
            ELSE QuestionsInit /\ UNCHANGED questionVars
         /\ IF service = "notifications" THEN [NotificationsNext]_<<handlers, noticeVars>>
            ELSE NotificationsInit /\ UNCHANGED noticeVars
         /\ IF service = "blog" THEN [BlogNext]_<<handlers, blogVars>>
            ELSE BlogInit /\ UNCHANGED blogVars
         /\ IF service = "proposals" THEN [ProposalsNext]_<<handlers, proposalVars>>
            ELSE ProposalsInit /\ UNCHANGED proposalVars
BY OneWorks DEF AllInv

LEMMA AllAlways == Spec => []AllInv
BY AllStart, AllKept, PTL DEF Spec

\* The promises about states.
LEMMA AllSafe ==
  AllInv => ListsPromise /\ StatusAgrees /\ AcceptedShown /\ StoredBounded /\ ReadStays
            /\ AnnouncedOnce /\ RateOvershoot /\ DecisionsStand
<1> SUFFICES ASSUME AllInv
             PROVE  /\ ListsPromise /\ StatusAgrees /\ AcceptedShown /\ StoredBounded /\ ReadStays
                    /\ AnnouncedOnce /\ RateOvershoot /\ DecisionsStand
  OBVIOUS
<1>1. ListsPromise
  BY ListsAgree, IdleKeepsPromise DEF AllInv
<1>2. StatusAgrees /\ AcceptedShown
  BY QuestionsAgree, IdleKeepsPromise DEF AllInv
<1>3. StoredBounded /\ ReadStays
  <2>1. NoticesInv => ReadStays
    BY DEF NoticesInv
  <2> QED
    BY <2>1, NoticesBounded, IdleKeepsPromise DEF AllInv
<1>4. AnnouncedOnce /\ RateOvershoot
  <2>1. BlogInv => RateOvershoot
    BY DEF BlogInv, CommentsHold
  <2> QED
    BY <2>1, BlogAnnounced, IdleKeepsPromise DEF AllInv
<1>5. DecisionsStand
  <2>1. ProposalsInv => DecisionsStand
    BY DEF ProposalsInv
  <2> QED
    BY <2>1, IdleKeepsPromise DEF AllInv
<1> QED
  BY <1>1, <1>2, <1>3, <1>4, <1>5

\* The promises about steps.
LEMMA AllSteps ==
  AllInv /\ [Next \/ Done]_vars =>
    /\ [\A q \in Items : question[q] # None /\ question'[q].accepted # question[q].accepted =>
          \/ \E p \in Requests : At(p, "save") /\ req[p].question = q /\ req'[p] # req[p]
          \/ q \in rewritten']_<<handlers, questionVars>>
    /\ [\A i \in deleted' \ deleted :
          Cardinality({j \in notice \cup deleted : j > i}) >= MaxStored]_<<handlers, noticeVars>>
    /\ [\A s \in Slugs : post[s] # None /\ post'[s] # post[s] =>
          \E p \in Requests : At(p, "store") /\ req[p].slug = s /\ req'[p] # req[p]]_<<handlers, blogVars>>
    /\ [\A n \in Numbers : proposal[n] # None =>
          proposal'[n] # None /\ proposal'[n].creation = proposal[n].creation]_proposalVars
    /\ [\A n \in Numbers : proposal[n] # None /\ proposal[n].status # "draft" =>
          proposal'[n].text = proposal[n].text \/ n \in crossed']_proposalVars
<1> SUFFICES ASSUME AllInv, [Next \/ Done]_vars
             PROVE  /\ [\A q \in Items : question[q] # None /\ question'[q].accepted # question[q].accepted =>
                          \/ \E p \in Requests : At(p, "save") /\ req[p].question = q /\ req'[p] # req[p]
                          \/ q \in rewritten']_<<handlers, questionVars>>
                    /\ [\A i \in deleted' \ deleted :
                          Cardinality({j \in notice \cup deleted : j > i}) >= MaxStored]_<<handlers, noticeVars>>
                    /\ [\A s \in Slugs : post[s] # None /\ post'[s] # post[s] =>
                          \E p \in Requests : At(p, "store") /\ req[p].slug = s /\ req'[p] # req[p]]_<<handlers, blogVars>>
                    /\ [\A n \in Numbers : proposal[n] # None =>
                          proposal'[n] # None /\ proposal'[n].creation = proposal[n].creation]_proposalVars
                    /\ [\A n \in Numbers : proposal[n] # None /\ proposal[n].status # "draft" =>
                          proposal'[n].text = proposal[n].text \/ n \in crossed']_proposalVars
  OBVIOUS
<1>1. CASE service = "questions"
  BY <1>1, OneAtWork, IdleSteps, AcceptanceSteps DEF AllInv
<1>2. CASE service = "notifications"
  BY <1>2, OneAtWork, IdleSteps, NoticesStep DEF AllInv
<1>3. CASE service = "blog"
  BY <1>3, OneAtWork, IdleSteps, BlogStep DEF AllInv
<1>4. CASE service = "proposals"
  BY <1>4, OneAtWork, IdleSteps, ProposalSteps DEF AllInv
<1>5. CASE service \notin {"questions", "notifications", "blog", "proposals"}
  BY <1>5, OneAtWork, IdleSteps DEF AllInv
<1> QED
  BY <1>1, <1>2, <1>3, <1>4, <1>5

\* In every behaviour that the run explores every variable has its type, and the service at
\* work keeps its promise, whatever its requests, the faults and the crashes.
THEOREM ContentServicesKeepTheirPromises ==
  Spec => []TypeOK /\ []ListsPromise /\ QuestionsPromise /\ NotificationsPromise /\ BlogPromise /\ ProposalsPromise
<1>1. Spec => []TypeOK /\ []ListsPromise
  BY AllAlways, AllTyped, AllSafe, PTL
<1>2. Spec => [](StatusAgrees /\ AcceptedShown) /\ [](StoredBounded /\ ReadStays)
              /\ [](AnnouncedOnce /\ RateOvershoot) /\ []DecisionsStand
  BY AllAlways, AllSafe, PTL
<1>3. Spec => AcceptanceStands
  BY AllAlways, AllSteps, PTL DEF Spec, AcceptanceStands
<1>4. Spec => NewestKept
  BY AllAlways, AllSteps, PTL DEF Spec, NewestKept
<1>5. Spec => ImportsYield
  BY AllAlways, AllSteps, PTL DEF Spec, ImportsYield
<1>6. Spec => CreationsStand
  BY AllAlways, AllSteps, PTL DEF Spec, CreationsStand
<1>7. Spec => DraftsOnlyEdited
  BY AllAlways, AllSteps, PTL DEF Spec, DraftsOnlyEdited
<1> QED
  BY <1>1, <1>2, <1>3, <1>4, <1>5, <1>6, <1>7
  DEF QuestionsPromise, NotificationsPromise, BlogPromise, ProposalsPromise
=============================================================================
