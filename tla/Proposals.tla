----------------------------- MODULE Proposals ------------------------------
(***************************************************************************)
(* RFCs (internal/rfc): proposals that take their number from a counter,   *)
(* that their author edits while they are drafts, that the maintainers     *)
(* move from status to status, and that everybody comments on.             *)
(*                                                                         *)
(* The counter is read and written in one transaction of the store, which  *)
(* fails when another one wrote the counter after it was read.  Update and *)
(* UpdateStatus read a proposal, check it, and store it whole.             *)
(***************************************************************************)
EXTENDS Handlers

CONSTANTS
  Authors,         \* accounts
  RFCMaintainers   \* those with the role rfc-maintainer or platform-owner

Statuses      == {"draft", "discussion"}  \* discussion stands for the other five, too
Numbers       == 1 .. MaxRequests
Proposal      == [author : Authors, status : Statuses, creation : Numbers, text : Numbers]
ProposalCalls ==
  [at : {"number", "commit", "storeNew"}, actor : Authors, creation : Numbers, number : 0 .. MaxRequests]
    \cup [at : {"load", "store"}, actor : Authors, number : Numbers, text : Numbers, status : {None},
          copy : Proposal \cup {None}]
    \cup [at : {"load", "store"}, actor : Authors, number : Numbers, text : {None}, status : Statuses,
          copy : Proposal \cup {None}]
    \cup [at : {"loadDiscussed", "storeRemark"}, number : Numbers, remark : Numbers]
    \cup [at : {"audit"}]

ASSUME ProposalsAssumption ==
  None \notin Numbers /\ None \notin Statuses /\ None \notin Proposal /\ None \notin ProposalCalls

VARIABLES
  sequence,  \* rfc/state/sequence
  proposal,  \* rfc/proposal
  remarks,   \* rfc/comment
  decided,   \* history: the status each proposal was last given
  written,   \* history: the text each proposal was last given
  crossed    \* history: proposals stored from a copy that was not the stored one

proposalVars == <<sequence, proposal, remarks, decided, written, crossed>>

ProposalsInit ==
  /\ sequence = 0
  /\ proposal = [n \in Numbers |-> None]
  /\ remarks = [n \in Numbers |-> {}]
  /\ decided = [n \in Numbers |-> "draft"]
  /\ written = [n \in Numbers |-> None]
  /\ crossed = {}

-----------------------------------------------------------------------------
CreateProposal(p, a) ==
  /\ Begin(p, [at |-> "number", actor |-> a, creation |-> begun + 1, number |-> 0])
  /\ UNCHANGED proposalVars

ReadNumber(p) ==
  /\ At(p, "number")
  /\ Continue(p, [req[p] EXCEPT !.at = "commit", !.number = sequence + 1])
  /\ UNCHANGED proposalVars

\* Mutant: the counter skips a number.
NextNumberPast(p) ==
  /\ At(p, "commit") /\ Goto(p, "storeNew")
  /\ sequence' = 2 * req[p].number
  /\ UNCHANGED <<proposal, remarks, decided, written, crossed>>

NextNumber(p) ==
  /\ At(p, "commit")
  /\ IF req[p].number = sequence + 1
     THEN sequence' = sequence + 1 /\ Goto(p, "storeNew")
     ELSE sequence' = sequence /\ Return(p)
  /\ UNCHANGED <<proposal, remarks, decided, written, crossed>>

StoreNew(p) ==
  LET r == req[p] IN
  /\ At(p, "storeNew")
  /\ Continue(p, [at |-> "audit"])
  /\ proposal' = [proposal EXCEPT ![r.number] =
       [author |-> r.actor, status |-> "draft", creation |-> r.creation, text |-> r.creation]]
  /\ written' = [written EXCEPT ![r.number] = r.creation]
  /\ UNCHANGED <<sequence, remarks, decided, crossed>>

-----------------------------------------------------------------------------
Update(p, a, n) ==
  /\ Begin(p, [at |-> "load", actor |-> a, number |-> n, text |-> begun + 1, status |-> None, copy |-> None])
  /\ UNCHANGED proposalVars

UpdateStatus(p, a, n, status) ==
  /\ a \in RFCMaintainers
  /\ Begin(p, [at |-> "load", actor |-> a, number |-> n, text |-> None, status |-> status, copy |-> None])
  /\ UNCHANGED proposalVars

\* Mutant: an author may edit in any status.
MayStoreAlways(r, item) == r.text # None => item.author = r.actor

\* An author edits his own draft; a maintainer's decision needs nothing of the proposal.
MayStore(r, item) == r.text # None => item.author = r.actor /\ item.status = "draft"

LoadProposal(p) ==
  LET r == req[p] item == proposal[r.number] IN
  /\ At(p, "load")
  /\ IF item # None /\ MayStore(r, item)
     THEN Continue(p, [r EXCEPT !.at = "store", !.copy = item]) ELSE Return(p)
  /\ UNCHANGED proposalVars

Revised(r) ==
  IF r.text # None THEN [r.copy EXCEPT !.text = r.text] ELSE [r.copy EXCEPT !.status = r.status]

StoreProposal(p) ==
  LET r == req[p] n == r.number IN
  /\ At(p, "store")
  /\ Continue(p, [at |-> "audit"])
  /\ proposal' = [proposal EXCEPT ![n] = Revised(r)]
  /\ written' = IF r.text # None THEN [written EXCEPT ![n] = r.text] ELSE written
  /\ decided' = IF r.status # None THEN [decided EXCEPT ![n] = r.status] ELSE decided
  /\ crossed' = IF proposal[n] = r.copy THEN crossed ELSE crossed \cup {n}
  /\ UNCHANGED <<sequence, remarks>>

-----------------------------------------------------------------------------
AddRemark(p, n) ==
  /\ Begin(p, [at |-> "loadDiscussed", number |-> n, remark |-> begun + 1])
  /\ UNCHANGED proposalVars

LoadDiscussed(p) ==
  /\ At(p, "loadDiscussed")
  /\ IF proposal[req[p].number] # None THEN Goto(p, "storeRemark") ELSE Return(p)
  /\ UNCHANGED proposalVars

StoreRemark(p) ==
  /\ At(p, "storeRemark")
  /\ Continue(p, [at |-> "audit"])
  /\ remarks' = [remarks EXCEPT ![req[p].number] = @ \cup {req[p].remark}]
  /\ UNCHANGED <<sequence, proposal, decided, written, crossed>>

\* The audit event, and then the author's notification.
AuditProposal(p) == At(p, "audit") /\ Return(p) /\ UNCHANGED proposalVars

FailProposalCall(p) == p \in InFlight /\ Fault(p, None) /\ UNCHANGED proposalVars

CrashProposals == Crash /\ UNCHANGED proposalVars

ProposalsNext ==
  \/ \E p \in Requests, a \in Authors :
       \/ CreateProposal(p, a)
       \/ \E n \in Numbers :
            \/ Update(p, a, n)
            \/ \E status \in Statuses : UpdateStatus(p, a, n, status)
  \/ \E p \in Requests :
       \/ \E n \in Numbers : AddRemark(p, n)
       \/ ReadNumber(p) \/ NextNumber(p) \/ StoreNew(p) \/ LoadProposal(p) \/ StoreProposal(p)
       \/ LoadDiscussed(p) \/ StoreRemark(p) \/ AuditProposal(p) \/ FailProposalCall(p)
  \/ CrashProposals

-----------------------------------------------------------------------------
\* Every variable has its type, and each handler is at a call of its operation.
ProposalsTypeOK ==
  /\ HandlersIn("proposals", ProposalCalls)
  /\ sequence \in 0 .. MaxRequests
  /\ proposal \in [Numbers -> Proposal \cup {None}]
  /\ remarks \in [Numbers -> SUBSET Numbers]
  /\ decided \in [Numbers -> Statuses]
  /\ written \in [Numbers -> Numbers \cup {None}]
  /\ crossed \subseteq Numbers

\* A proposal reads as it was last written and stands as it was last decided, unless two
\* of its handlers crossed: then the later one stored the earlier one's status or text
\* again (rfc.Update and rfc.UpdateStatus store the proposal they read).
DecisionsStand ==
  \A n \in Numbers \ crossed :
    proposal[n] # None => proposal[n].status = decided[n] /\ proposal[n].text = written[n]

\* No creation ever replaces another's proposal, however many take their numbers together
\* (rfc/repository.NextNumber).
CreationsStand ==
  [][\A n \in Numbers :
       proposal[n] # None => proposal'[n] # None /\ proposal'[n].creation = proposal[n].creation]_proposalVars

\* What has left the draft status is not rewritten: the text changes in a draft only, or
\* where handlers crossed (rfc.Update checks the proposal it read).
DraftsOnlyEdited ==
  [][\A n \in Numbers :
       proposal[n] # None /\ proposal[n].status # "draft" =>
         proposal'[n].text = proposal[n].text \/ n \in crossed']_proposalVars

\* A proposal keeps its number, its text once it is no draft, and the last decision about it.
ProposalsPromise == []DecisionsStand /\ CreationsStand /\ DraftsOnlyEdited
=============================================================================
