------------------------- MODULE MCContentServices --------------------------
(***************************************************************************)
(* Model-checking instance of the services whose cases take four requests: *)
(* mailing lists, questions, notifications, the blog and RFCs.             *)
(***************************************************************************)
EXTENDS Lists, Questions, Notifications, Blog, Proposals, TLC

CONSTANTS b1, b2, s1

Releases == b1 :> {s1} @@ b2 :> {s1}

Symmetry == Permutations(Requests) \cup Permutations(Builds)

vars == <<handlers, listVars, questionVars, noticeVars, blogVars, proposalVars>>

Init ==
  /\ HandlersInit
  /\ ListsInit /\ QuestionsInit /\ NotificationsInit /\ BlogInit
  /\ ProposalsInit

Next ==
  \/ /\ service = "lists" /\ ListsNext
     /\ UNCHANGED <<questionVars, noticeVars, blogVars, proposalVars>>
  \/ /\ service = "questions" /\ QuestionsNext
     /\ UNCHANGED <<listVars, noticeVars, blogVars, proposalVars>>
  \/ /\ service = "notifications" /\ NotificationsNext
     /\ UNCHANGED <<listVars, questionVars, blogVars, proposalVars>>
  \/ /\ service = "blog" /\ BlogNext
     /\ UNCHANGED <<listVars, questionVars, noticeVars, proposalVars>>
  \/ /\ service = "proposals" /\ ProposalsNext
     /\ UNCHANGED <<listVars, questionVars, noticeVars, blogVars>>

Done == AllAnswered /\ UNCHANGED vars

Spec == Init /\ [][Next \/ Done]_vars

\* Every variable of every service has its type.
TypeOK ==
  /\ ListsTypeOK /\ QuestionsTypeOK /\ NotificationsTypeOK /\ BlogTypeOK
  /\ ProposalsTypeOK
=============================================================================
