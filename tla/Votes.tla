-------------------------------- MODULE Votes --------------------------------
(***************************************************************************)
(* Votes and view counts of community posts and questions (SetVote and     *)
(* RecordView, the same code in internal/community and internal/question). *)
(*                                                                         *)
(* Each is one transaction that reads what it replaces; it fails if one of *)
(* the keys it read was written by another transaction meanwhile.          *)
(***************************************************************************)
EXTENDS Handlers

CONSTANTS
  Targets, \* posts, replies, questions, answers
  Voters   \* accounts

Values    == -1 .. 1
VoteCalls ==
  [at : {"target", "read", "commit"}, target : Targets, voter : Voters, value : Values,
   old : Values, score : Int, stale : BOOLEAN]
    \cup [at : {"count"}, target : Targets, seen : Nat, stale : BOOLEAN]

ASSUME VotesAssumption == IsFiniteSet(Voters) /\ None \notin VoteCalls

VARIABLES
  vote,   \* vote, 0 if there is none
  score,  \* score
  views,  \* view
  viewed  \* history: the views answered with a count

voteVars == <<vote, score, views, viewed>>

VotesInit ==
  /\ vote = [t \in Targets |-> [a \in Voters |-> 0]]
  /\ score = [t \in Targets |-> 0]
  /\ views = [t \in Targets |-> 0] /\ viewed = [t \in Targets |-> 0]

\* Whether the target belongs to the thread, and is not the voter's own, is left open.
Vote(p, t, a, v) ==
  /\ Begin(p, [at |-> "target", target |-> t, voter |-> a, value |-> v, old |-> 0, score |-> 0,
               stale |-> FALSE])
  /\ UNCHANGED voteVars

CheckTarget(p) ==
  /\ At(p, "target")
  /\ Goto(p, "read") \/ Return(p)
  /\ UNCHANGED voteVars

\* Mutant: the old vote is forgotten.
ReadVoteBlind(p) ==
  LET r == req[p] IN
  /\ At(p, "read")
  /\ Continue(p, [r EXCEPT !.at = "commit", !.score = score[r.target]])
  /\ UNCHANGED voteVars

\* SetVote's reads.
ReadVote(p) ==
  LET r == req[p] IN
  /\ At(p, "read")
  /\ Continue(p, [r EXCEPT !.at = "commit", !.old = vote[r.target][r.voter],
                           !.score = score[r.target]])
  /\ UNCHANGED voteVars

\* A transaction's commit: those of the others that read what it wrote will fail.
Commit(p, place) ==
  /\ req' = [q \in Requests |->
       IF q = p THEN None
       ELSE IF At(q, place) /\ req[q].target = req[p].target THEN [req[q] EXCEPT !.stale = TRUE]
       ELSE req[q]]
  /\ UNCHANGED <<service, begun, faults>>

SetVote(p) ==
  LET r == req[p] IN
  /\ At(p, "commit")
  /\ IF r.stale THEN Return(p) /\ UNCHANGED <<vote, score>>
     ELSE /\ Commit(p, "commit")
          /\ score' = [score EXCEPT ![r.target] = r.score + r.value - r.old]
          /\ vote' = [vote EXCEPT ![r.target][r.voter] = r.value]
  /\ UNCHANGED <<views, viewed>>

-----------------------------------------------------------------------------
ReadViews(p, t) ==
  /\ Begin(p, [at |-> "count", target |-> t, seen |-> views[t], stale |-> FALSE])
  /\ UNCHANGED voteVars

RecordView(p) ==
  LET r == req[p] IN
  /\ At(p, "count")
  /\ IF r.stale THEN Return(p) /\ UNCHANGED <<views, viewed>>
     ELSE /\ Commit(p, "count")
          /\ views' = [views EXCEPT ![r.target] = r.seen + 1]
          /\ viewed' = [viewed EXCEPT ![r.target] = @ + 1]
  /\ UNCHANGED <<vote, score>>

FailVote(p) == p \in InFlight /\ Fault(p, None) /\ UNCHANGED voteVars
CrashVotes  == Crash /\ UNCHANGED voteVars

VotesNext ==
  \/ \E p \in Requests, t \in Targets :
       \/ \E a \in Voters, v \in Values : Vote(p, t, a, v)
       \/ ReadViews(p, t)
  \/ \E p \in Requests :
       CheckTarget(p) \/ ReadVote(p) \/ SetVote(p) \/ RecordView(p) \/ FailVote(p)
  \/ CrashVotes

-----------------------------------------------------------------------------
\* Every variable has its type, and each handler is at a call of its operation.
VotesTypeOK ==
  /\ HandlersIn("votes", VoteCalls)
  /\ vote \in [Targets -> [Voters -> Values]]
  /\ score \in [Targets -> Int] /\ views \in [Targets -> Nat] /\ viewed \in [Targets -> Nat]

VotersOf(t, v) == {a \in Voters : vote[t][a] = v}

\* A score is what the votes add up to, however votes are cast, changed and taken back at
\* once (repository.SetVote keeps the two under keys of their own).
ScoresExact ==
  \A t \in Targets : score[t] = Cardinality(VotersOf(t, 1)) - Cardinality(VotersOf(t, -1))

\* No view that was answered is lost to another that was counted at the same time.
ViewsExact == \A t \in Targets : views[t] = viewed[t]

\* What is shown as a count is the count.
VotesPromise == ScoresExact /\ ViewsExact
=============================================================================
