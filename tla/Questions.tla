------------------------------ MODULE Questions ------------------------------
(***************************************************************************)
(* Questions and their answers (internal/question).  A question is stored  *)
(* whole: status and accepted answer together.  Its answers are messages   *)
(* of its thread.  Answer and Accept read the question, do other things,   *)
(* and store what they read with their change.  Votes and views are the    *)
(* matter of Votes.  No code sets the status `closed' that Answer checks.  *)
(***************************************************************************)
EXTENDS Handlers

Items     == 1 .. MaxRequests  \* questions and answers, each named as its request
Question  == [status : {"open", "answered", "resolved"}, accepted : Items \cup {None}]
QuestionCalls ==
  [at : {"message", "question"}, id : Items]
    \cup [at : {"answer", "reply", "mark", "tell"}, id : Items, question : Items,
          copy : Question \cup {None}]
    \cup [at : {"accept", "count", "save", "tellAccepted"}, question : Items,
          choice : Items \cup {None}, copy : Question \cup {None}]
    \cup [at : {"page"}, question : Items, copy : Question]

ASSUME QuestionsAssumption == None \notin Items /\ None \notin Question /\ None \notin QuestionCalls

VARIABLES
  question,  \* question/object
  root,      \* questions whose own message is stored
  answers,   \* the answers in each question's thread
  told,      \* history: answers and acceptances whose author was notified
  rewritten, \* history: questions stored from a copy that was not the stored one
  unmarked,  \* history: questions with an answer that a fault cut short
  shown      \* history: the page shown last, or None

questionVars == <<question, root, answers, told, rewritten, unmarked, shown>>

QuestionsInit ==
  /\ question = [q \in Items |-> None]
  /\ root = {} /\ answers = [q \in Items |-> {}]
  /\ told = {} /\ rewritten = {} /\ unmarked = {} /\ shown = None

-----------------------------------------------------------------------------
Ask(p) == Begin(p, [at |-> "message", id |-> begun + 1]) /\ UNCHANGED questionVars

StoreRoot(p) ==
  /\ At(p, "message") /\ Goto(p, "question")
  /\ root' = root \cup {req[p].id}
  /\ UNCHANGED <<question, answers, told, rewritten, unmarked, shown>>

StoreQuestion(p) ==
  /\ At(p, "question") /\ Return(p)
  /\ question' = [question EXCEPT ![req[p].id] = [status |-> "open", accepted |-> None]]
  /\ UNCHANGED <<root, answers, told, rewritten, unmarked, shown>>

-----------------------------------------------------------------------------
Answer(p, q) ==
  /\ question[q] # None
  /\ Begin(p, [at |-> "answer", id |-> begun + 1, question |-> q, copy |-> None])
  /\ UNCHANGED questionVars

LoadForAnswer(p) ==
  /\ At(p, "answer")
  /\ Continue(p, [req[p] EXCEPT !.at = "reply", !.copy = question[req[p].question]])
  /\ UNCHANGED questionVars

StoreAnswer(p) ==
  LET r == req[p] IN
  /\ At(p, "reply") /\ Goto(p, IF r.copy.status = "open" THEN "mark" ELSE "tell")
  /\ answers' = [answers EXCEPT ![r.question] = @ \cup {r.id}]
  /\ UNCHANGED <<question, root, told, rewritten, unmarked, shown>>

Stored(q, copy, item) ==
  /\ question' = [question EXCEPT ![q] = item]
  /\ rewritten' = IF question[q] = copy THEN rewritten ELSE rewritten \cup {q}

\* Mutant: an answer starts a new discussion.
MarkAnsweredAnew(p) ==
  LET r == req[p] IN
  /\ At(p, "mark") /\ Goto(p, "tell")
  /\ Stored(r.question, question[r.question], [status |-> "answered", accepted |-> None])
  /\ UNCHANGED <<root, answers, told, unmarked, shown>>

\* The question as it was read, now answered.
MarkAnswered(p) ==
  LET r == req[p] IN
  /\ At(p, "mark") /\ Goto(p, "tell")
  /\ Stored(r.question, r.copy, [r.copy EXCEPT !.status = "answered"])
  /\ UNCHANGED <<root, answers, told, unmarked, shown>>

TellAsker(p) ==
  /\ At(p, "tell") /\ Return(p)
  /\ told' = told \cup {<<"answer", req[p].id>>}
  /\ UNCHANGED <<question, root, answers, rewritten, unmarked, shown>>

-----------------------------------------------------------------------------
\* By the asker or an administrator; None takes an acceptance back.
Accept(p, q, choice) ==
  /\ question[q] # None
  /\ Begin(p, [at |-> "accept", question |-> q, choice |-> choice, copy |-> None])
  /\ UNCHANGED questionVars

LoadForAccept(p) ==
  LET r == req[p] IN
  /\ At(p, "accept")
  /\ Continue(p, [r EXCEPT !.at = "count", !.copy = question[r.question]])
  /\ UNCHANGED questionVars

Reconsidered(r) ==
  [accepted |-> r.choice,
   status |-> IF r.choice # None THEN "resolved"
              ELSE IF answers[r.question] = {} THEN "open" ELSE "answered"]

\* The answer is looked up, or the answers are counted; what is to be stored is made here.
ChooseAnswer(p) ==
  LET r == req[p] IN
  /\ At(p, "count")
  /\ IF r.choice \in answers[r.question] \cup {None}
     THEN Continue(p, [r EXCEPT !.at = "save", !.copy = Reconsidered(r)])
     ELSE Return(p)
  /\ UNCHANGED questionVars

\* What an overlapping operation stored since is lost, whatever it was.
SaveAcceptance(p) ==
  LET r == req[p] IN
  /\ At(p, "save")
  /\ IF r.choice = None THEN Return(p) ELSE Goto(p, "tellAccepted")
  /\ Stored(r.question, question[r.question], r.copy)
  /\ UNCHANGED <<root, answers, told, unmarked, shown>>

TellAuthor(p) ==
  /\ At(p, "tellAccepted") /\ Return(p)
  /\ told' = told \cup {<<"accepted", req[p].choice>>}
  /\ UNCHANGED <<question, root, answers, rewritten, unmarked, shown>>

-----------------------------------------------------------------------------
(* What readers see: a page takes the question first and its answers later. *)

View(p, q) ==
  /\ question[q] # None
  /\ Begin(p, [at |-> "page", question |-> q, copy |-> question[q]])
  /\ UNCHANGED questionVars

ReadMessages(p) ==
  LET r == req[p] IN
  /\ At(p, "page") /\ Return(p)
  /\ shown' = [question |-> r.copy, answers |-> answers[r.question]]
  /\ UNCHANGED <<question, root, answers, told, rewritten, unmarked>>

Summary(q) == [status |-> question[q].status, answerCount |-> Cardinality(answers[q])]

\* The lists of all questions and of those that nobody has answered.
Query(order) ==
  {q \in Items : question[q] # None /\ (order = "unanswered" => Summary(q).answerCount = 0)}

-----------------------------------------------------------------------------
Unmarked == {p \in InFlight : req[p].at = "mark"}

FailQuestionCall(p) ==
  /\ p \in InFlight
  /\ Fault(p, None)
  /\ unmarked' = unmarked \cup {req[q].question : q \in Unmarked \cap {p}}
  /\ UNCHANGED <<question, root, answers, told, rewritten, shown>>

CrashQuestions ==
  /\ Crash
  /\ unmarked' = unmarked \cup {req[q].question : q \in Unmarked}
  /\ UNCHANGED <<question, root, answers, told, rewritten, shown>>

QuestionsNext ==
  \/ \E p \in Requests : Ask(p)
  \/ \E p \in Requests, q \in Items :
       Answer(p, q) \/ View(p, q) \/ \E choice \in Items \cup {None} : Accept(p, q, choice)
  \/ \E p \in Requests :
       \/ StoreRoot(p) \/ StoreQuestion(p)
       \/ LoadForAnswer(p) \/ StoreAnswer(p) \/ MarkAnswered(p) \/ TellAsker(p)
       \/ LoadForAccept(p) \/ ChooseAnswer(p) \/ SaveAcceptance(p) \/ TellAuthor(p)
       \/ ReadMessages(p) \/ FailQuestionCall(p)
  \/ CrashQuestions

-----------------------------------------------------------------------------
\* Every variable has its type, and each handler is at a call of its operation.
QuestionsTypeOK ==
  /\ HandlersIn("questions", QuestionCalls)
  /\ question \in [Items -> Question \cup {None}]
  /\ root \subseteq Items /\ answers \in [Items -> SUBSET Items]
  /\ told \subseteq {"answer", "accepted"} \X Items
  /\ rewritten \subseteq Items /\ unmarked \subseteq Items
  /\ shown \in [question : Question, answers : SUBSET Items] \cup {None}

\* A question is resolved exactly if it has an accepted answer, which is one of its own, and
\* is listed as unanswered only while its status is open, whatever overlaps: what belongs
\* together is stored together or in this order (question.Accept, question.Answer).
StatusAgrees ==
  /\ \A q \in Query("all") :
       /\ q \in root
       /\ question[q].status = "resolved" <=> question[q].accepted # None
       /\ question[q].accepted \in answers[q] \cup {None}
  /\ \A q \in Query("unanswered") : Summary(q).status = "open"

\* A page shows the answer that it says was accepted, and an answer if it says there is one,
\* whatever is stored while it is read (question.View reads the question before the messages).
AcceptedShown ==
  shown # None =>
    /\ shown.question.accepted \in shown.answers \cup {None}
    /\ shown.question.status # "open" => shown.answers # {}

\* An accepted answer stays accepted until somebody accepts another or none; an answer that
\* undoes it was begun before it (question.Answer stores the question it read at first).
AcceptanceStands ==
  [][\A q \in Items : question[q] # None /\ question'[q].accepted # question[q].accepted =>
       \/ \E p \in Requests : At(p, "save") /\ req[p].question = q /\ req'[p] # req[p]
       \/ q \in rewritten']_<<handlers, questionVars>>

\* A question's status, its accepted answer and its page agree, and an acceptance stands.
QuestionsPromise == [](StatusAgrees /\ AcceptedShown) /\ AcceptanceStands
=============================================================================
