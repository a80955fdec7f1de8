-------------------------------- MODULE Lists --------------------------------
(***************************************************************************)
(* A mailing list (internal/mailinglist): subscriptions, posts and replies *)
(* from the web, mail that arrives for the list, and the threads that the  *)
(* filed messages form.                                                    *)
(*                                                                         *)
(* A post reserves its place, is stored as a message and is filed, by one  *)
(* call each.  The reservation's transaction counts by iterating, which    *)
(* the store does not check for conflicts: the counts are a snapshot.      *)
(***************************************************************************)
EXTENDS Handlers

CONSTANTS
  Posters,   \* accounts
  PostLimit, \* maxPostsPerAccountPerListPerDay
  ListLimit  \* maxMessagesPerList

Mails == 1 .. MaxRequests  \* messages, each named as the request it came with
Mail  == [author : Posters \cup {None}, thread : Mails, parent : Mails \cup {None},
          header : Mails \cup {None}]
PostPlaces == {"poster", "thread", "count", "reserve", "message", "entry", "publish"}
PostCalls  ==
  [at : PostPlaces, id : Mails, author : Posters, reply : BOOLEAN, thread : Mails,
   parent : Mails \cup {None}]

ASSUME ListsAssumption ==
  /\ {PostLimit, ListLimit} \subseteq Nat \ {0}
  /\ IsFiniteSet(Requests)
  /\ None \notin Posters /\ None \notin Mails /\ None \notin Mail /\ None \notin PostCalls

VARIABLES
  subscribed, \* mailing-list/subscription
  reserved,   \* mailing-list/posting, the author of each message that has one today
  letter,     \* the stored messages
  entered,    \* messages filed in the list's mailbox
  published,  \* history: threads named by the published events
  overtaken,  \* history: messages that arrived after one that replies to them
  spent       \* history: reservations whose post was cut short

listVars == <<subscribed, reserved, letter, entered, published, overtaken, spent>>

ListsInit ==
  /\ subscribed = {}
  /\ reserved = [m \in Mails |-> None] /\ letter = [m \in Mails |-> None]
  /\ entered = {} /\ published = {} /\ overtaken = {} /\ spent = {}

-----------------------------------------------------------------------------
(* Threads.                                                                *)

\* A parent from the database, else the one that the mail's header names, if it is filed;
\* else the message that gave the thread its name.
Above(m) ==
  LET item == letter[m]
      parent == IF item.parent # None THEN item.parent ELSE item.header IN
  IF parent \in entered \ {m} THEN parent
  ELSE IF item.thread \in entered THEN item.thread ELSE m

\* Mutant: replies go by the thread they were sent to.
RootForThread(m) == IF letter[m].thread \in entered THEN letter[m].thread ELSE m

\* threadViews groups a message by where the way up ends, or by itself if it does not end.
RootFor(m) ==
  LET up[n \in 0 .. Cardinality(entered)] == IF n = 0 THEN m ELSE Above(up[n - 1])
      top == up[Cardinality(entered)]
  IN  IF Above(top) = top THEN top ELSE m

Thread(t) == {m \in entered : RootFor(m) = t}
Threads   == {t \in Mails : Thread(t) # {}}

\* The mail of some other system that replies to what is filed, to mail that has not arrived
\* yet, or to itself; routing and filing it is the matter of MailDelivery.
Receive(header) ==
  LET id == begun + 1 IN
  /\ Once
  /\ header \in entered \cup id .. MaxRequests \cup {None}
  /\ letter' = [letter EXCEPT ![id] =
       [author |-> None, thread |-> id, parent |-> None, header |-> header]]
  /\ entered' = entered \cup {id}
  /\ overtaken' = IF \E m \in entered : letter[m].header = id THEN overtaken \cup {id} ELSE overtaken
  /\ UNCHANGED <<subscribed, reserved, published, spent>>

-----------------------------------------------------------------------------
\* Subscribe, with or without; the audit event that follows may get lost.
Subscribe(a) ==
  /\ Once
  /\ subscribed' \in {subscribed \cup {a}, subscribed \ {a}}
  /\ UNCHANGED <<reserved, letter, entered, published, overtaken, spent>>

\* No mail replies to a post before it is filed: its id is drawn at random.
Unheard == \A m \in entered : letter[m].header # begun + 1

Draft(a, reply, t) ==
  [at |-> "poster", id |-> begun + 1, author |-> a, reply |-> reply, thread |-> t, parent |-> None]

Post(p, a) == Unheard /\ Begin(p, Draft(a, FALSE, begun + 1)) /\ UNCHANGED listVars

Reply(p, a, t) ==
  /\ Unheard /\ t \in entered
  /\ Begin(p, Draft(a, TRUE, t))
  /\ UNCHANGED listVars

\* postingActor; the account's status and, on the staff's lists, its role are left open.
CheckPoster(p) ==
  LET r == req[p] IN
  /\ At(p, "poster")
  /\ \/ r.author \in subscribed /\ Goto(p, IF r.reply THEN "thread" ELSE "count")
     \/ Return(p)
  /\ UNCHANGED listVars

\* Reply finds the thread and in it the parent asked for.
FindParent(p) ==
  LET r == req[p] IN
  /\ At(p, "thread")
  /\ IF r.thread \notin Threads THEN Return(p)
     ELSE \E m \in Thread(r.thread) : Continue(p, [r EXCEPT !.at = "count", !.parent = m])
  /\ UNCHANGED listVars

Postings(a) == {m \in Mails : reserved[m] = a}

\* ReservePosting up to its commit.
CountPostings(p) ==
  /\ At(p, "count")
  /\ IF Cardinality(Postings(req[p].author)) < PostLimit /\ Cardinality(entered) < ListLimit
     THEN Goto(p, "reserve") ELSE Return(p)
  /\ UNCHANGED listVars

ReservePosting(p) ==
  /\ At(p, "reserve") /\ Goto(p, "message")
  /\ reserved' = [reserved EXCEPT ![req[p].id] = req[p].author]
  /\ UNCHANGED <<subscribed, letter, entered, published, overtaken, spent>>

\* The reply's mail names the parent in its header, too.
StoreLetter(p) ==
  LET r == req[p] IN
  /\ At(p, "message") /\ Goto(p, "entry")
  /\ letter' = [letter EXCEPT ![r.id] =
       [author |-> r.author, thread |-> r.thread, parent |-> r.parent, header |-> r.parent]]
  /\ UNCHANGED <<subscribed, reserved, entered, published, overtaken, spent>>

AddListEntry(p) ==
  /\ At(p, "entry") /\ Goto(p, "publish")
  /\ entered' = entered \cup {req[p].id}
  /\ UNCHANGED <<subscribed, reserved, letter, published, overtaken, spent>>

\* The event links to the thread as the handler found it; what Publish does with it is the
\* matter of WebhookDelivery, whose errors are ignored.
PublishLetter(p) ==
  /\ At(p, "publish") /\ Return(p)
  /\ published' = published \cup {req[p].thread}
  /\ UNCHANGED <<subscribed, reserved, letter, entered, overtaken, spent>>

Reserving == {p \in Of("lists") : req[p].at \in {"message", "entry"}}

FailPost(p) ==
  /\ p \in InFlight
  /\ Fault(p, None)
  /\ spent' = spent \cup {req[q].id : q \in Reserving \cap {p}}
  /\ UNCHANGED <<subscribed, reserved, letter, entered, published, overtaken>>

CrashPosts ==
  /\ Crash
  /\ spent' = spent \cup {req[q].id : q \in Reserving}
  /\ UNCHANGED <<subscribed, reserved, letter, entered, published, overtaken>>

ListsNext ==
  \/ \E a \in Posters : Subscribe(a)
  \/ \E m \in Mails \cup {None} : Receive(m)
  \/ \E p \in Requests, a \in Posters : Post(p, a) \/ \E t \in Mails : Reply(p, a, t)
  \/ \E p \in Requests :
       \/ CheckPoster(p) \/ FindParent(p) \/ CountPostings(p) \/ ReservePosting(p)
       \/ StoreLetter(p) \/ AddListEntry(p) \/ PublishLetter(p) \/ FailPost(p)
  \/ CrashPosts

-----------------------------------------------------------------------------
\* Every variable has its type, and each handler is at a call of its operation.
ListsTypeOK ==
  /\ HandlersIn("lists", PostCalls)
  /\ subscribed \subseteq Posters
  /\ reserved \in [Mails -> Posters \cup {None}]
  /\ letter \in [Mails -> Mail \cup {None}]
  /\ entered \subseteq Mails /\ published \subseteq Mails
  /\ overtaken \subseteq Mails /\ spent \subseteq Mails

\* What repository.ReservePosting's comment says: requests of one account cannot race past
\* the daily limit.
DailyLimit == \A a \in Posters : Cardinality(Postings(a)) <= PostLimit

\* What it does: each other handler can pass the limit once, having counted before the
\* others committed; and so with the posts of a full list.
LimitsOvershoot ==
  LET others == Cardinality(Requests) - 1 IN
  /\ \A a \in Posters : Cardinality(Postings(a)) <= PostLimit + others
  /\ Cardinality({m \in entered : letter[m].author # None}) <= ListLimit + others

\* A place of the day's is used up only by a post that is filed, or on its way, or that a
\* fault cut short (Post and Reply never give a reservation back), and every post has one.
ReservationsSpent ==
  /\ \A m \in Mails \ spent : reserved[m] # None =>
       m \in entered \/ \E p \in Reserving : req[p].id = m
  /\ \A m \in entered : reserved[m] = letter[m].author

Circling(m) ==
  \E S \in SUBSET entered : m \in S /\ \A n \in S : Above(n) \in S \ {n}

\* A reply is shown in the thread of the message it replies to, whatever arrives around it
\* and in which order, unless mail replies to itself in a circle.
RepliesTogether ==
  \A m \in entered :
    Above(m) = m \/ RootFor(m) = RootFor(Above(m)) \/ Circling(m)

\* The thread that a published event links to is found, unless the mail that began it
\* overtook one it replies to (mailinglist.publish names the thread by its root of the time).
LinksFound ==
  \A t \in published : t \in Threads \/ letter[t].header \in overtaken

\* Limits and reservations are off by no more than what overlaps or fails, and conversations
\* hold together.
ListsPromise == LimitsOvershoot /\ ReservationsSpent /\ RepliesTogether /\ LinksFound
=============================================================================
