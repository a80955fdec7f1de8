----------------------------- MODULE Community ------------------------------
(***************************************************************************)
(* The community (internal/community): posts and replies, which are mail   *)
(* messages in a thread of their own, the subscriptions to a post, and the *)
(* notifications that a reply sends its subscribers.                       *)
(*                                                                         *)
(* CreatePost stores the message, then the message's entry in its mail     *)
(* thread, then the post, then its author's subscription; AddReply stores  *)
(* its message in the same two steps, subscribes its author, reads the     *)
(* subscribers and notifies them one by one.  No code locks or pins a      *)
(* post.  Votes and views are in Votes.                                    *)
(***************************************************************************)
EXTENDS Handlers

CONSTANTS
  Participants,  \* accounts
  OwnerSpaces,   \* spaces only the platform's owners post in
  OpenSpaces,    \* spaces everybody posts in
  PostingOwners  \* members with the role platform-owner

LetterIds   == 1 .. MaxRequests  \* messages, and the posts they begin
Letter      == [thread : LetterIds, parent : LetterIds \cup {None}, author : Participants]
Subscribing == LetterIds \X Participants
CommunityCalls ==
  [at : {"space", "root", "rootIndex", "post", "subscribePost", "announce"}, actor : Participants,
   space : OwnerSpaces \cup OpenSpaces, id : LetterIds]
    \cup [at : {"thread", "reply", "replyIndex", "subscribeReply", "subscribers"}, actor : Participants, id : LetterIds,
          thread : LetterIds, parent : LetterIds, before : SUBSET Participants]
    \cup [at : {"notify"}, actor : Participants, id : LetterIds, todo : SUBSET Participants]
    \cup [at : {"known", "setSubscribed"}, actor : Participants, thread : LetterIds, subscribed : BOOLEAN]

\* None is no message or call, and nothing that a page or the list could show.
ASSUME CommunityAssumption ==
  /\ None \notin LetterIds \cup Letter \cup CommunityCalls
  /\ None \notin [root : Letter, replies : SUBSET LetterIds]
  /\ \A shown \in SUBSET LetterIds :
       None # shown /\ None \notin [shown -> [id : LetterIds, author : Participants, replyCount : Nat]]

VARIABLES
  letter,       \* mail/message: posts and replies
  threaded,     \* mail/thread: messages with an entry in their thread
  posts,        \* community/thread: stored posts
  subscription, \* community/subscription
  left,         \* history: subscriptions taken back
  told,         \* history: the notifications of each reply
  owed          \* history: whom each finished reply had to notify

communityVars == <<letter, threaded, posts, subscription, left, told, owed>>

CommunityInit ==
  /\ letter = [m \in LetterIds |-> None]
  /\ threaded = {} /\ posts = {}
  /\ subscription = {} /\ left = {}
  /\ told = [m \in LetterIds |-> [a \in Participants |-> 0]]
  /\ owed = [m \in LetterIds |-> {}]

-----------------------------------------------------------------------------
(* What readers see.                                                       *)

\* The messages of a thread, through its index; one that is not stored fails them all.
MessagesByThread(t) ==
  IF \A m \in threaded : letter[m] # None THEN {m \in threaded : letter[m].thread = t} ELSE None

\* A post with its replies, or None where the page fails.  Nothing of a post is ever deleted,
\* so what the page reads in several calls it could have read at the last of them.
ViewFor(t) ==
  IF t \in posts /\ letter[t] # None /\ MessagesByThread(letter[t].thread) # None
  THEN [root |-> letter[t], replies |-> MessagesByThread(letter[t].thread) \ {t}]
  ELSE None

\* How a post is listed.
SummaryOf(t) == [id |-> t, author |-> letter[t].author, replyCount |-> Cardinality(ViewFor(t).replies)]

\* The list of all posts, which fails if one of them cannot be summarised.
QueryThreads ==
  IF \A t \in posts : ViewFor(t) # None THEN [t \in posts |-> SummaryOf(t)] ELSE None

\* The platform's start reads every post's messages, to take those from old mailboxes that it
\* finds there, and gives up if it cannot.
CleanupMailboxProjections == \A t \in posts : letter[t] # None /\ MessagesByThread(letter[t].thread) # None

-----------------------------------------------------------------------------
CreatePost(p, a, space) ==
  /\ Begin(p, [at |-> "space", actor |-> a, space |-> space, id |-> begun + 1])
  /\ UNCHANGED communityVars

CheckSpace(p) ==
  /\ At(p, "space")
  /\ IF req[p].space \in OwnerSpaces /\ req[p].actor \notin PostingOwners
     THEN Return(p) ELSE Goto(p, "root")
  /\ UNCHANGED communityVars

StoreRoot(p) ==
  LET r == req[p] IN
  /\ At(p, "root") /\ Goto(p, "rootIndex")
  /\ letter' = [letter EXCEPT ![r.id] = [thread |-> r.id, parent |-> None, author |-> r.actor]]
  /\ UNCHANGED <<threaded, posts, subscription, left, told, owed>>

IndexRoot(p) ==
  /\ At(p, "rootIndex") /\ Goto(p, "post")
  /\ threaded' = threaded \cup {req[p].id}
  /\ UNCHANGED <<letter, posts, subscription, left, told, owed>>

StorePost(p) ==
  /\ At(p, "post") /\ Goto(p, "subscribePost")
  /\ posts' = posts \cup {req[p].id}
  /\ UNCHANGED <<letter, threaded, subscription, left, told, owed>>

SubscribeAuthor(p) ==
  /\ At(p, "subscribePost") /\ Goto(p, "announce")
  /\ subscription' = subscription \cup {<<req[p].id, req[p].actor>>}
  /\ UNCHANGED <<letter, threaded, posts, left, told, owed>>

\* The audit record and the webhook's event, whose failures are ignored.
AnnouncePost(p) == At(p, "announce") /\ Return(p) /\ UNCHANGED communityVars

-----------------------------------------------------------------------------
\* To message m of post t.  `before' is the history of who was subscribed by then.
AddReply(p, a, t, m) ==
  /\ Begin(p, [at |-> "thread", actor |-> a, id |-> begun + 1, thread |-> t, parent |-> m,
               before |-> {b \in Participants : <<t, b>> \in subscription}])
  /\ UNCHANGED communityVars

\* A reply's parent is a message of the post's thread.
IsParent(t, m) == letter[m] # None /\ letter[m].thread = letter[t].thread

LoadThread(p) ==
  LET r == req[p] IN
  /\ At(p, "thread")
  /\ IF r.thread \in posts /\ IsParent(r.thread, r.parent) THEN Goto(p, "reply") ELSE Return(p)
  /\ UNCHANGED communityVars

StoreReply(p) ==
  LET r == req[p] IN
  /\ At(p, "reply") /\ Goto(p, "replyIndex")
  /\ letter' = [letter EXCEPT ![r.id] = [thread |-> r.thread, parent |-> r.parent, author |-> r.actor]]
  /\ UNCHANGED <<threaded, posts, subscription, left, told, owed>>

\* Mutant: the entry is the parent's.
IndexReplyParent(p) ==
  /\ At(p, "replyIndex") /\ Goto(p, "subscribeReply")
  /\ threaded' = threaded \cup {req[p].parent}
  /\ UNCHANGED <<letter, posts, subscription, left, told, owed>>

IndexReply(p) ==
  /\ At(p, "replyIndex") /\ Goto(p, "subscribeReply")
  /\ threaded' = threaded \cup {req[p].id}
  /\ UNCHANGED <<letter, posts, subscription, left, told, owed>>

SubscribeReplier(p) ==
  /\ At(p, "subscribeReply") /\ Goto(p, "subscribers")
  /\ subscription' = subscription \cup {<<req[p].thread, req[p].actor>>}
  /\ UNCHANGED <<letter, threaded, posts, left, told, owed>>

Subscribers(t) == {a \in Participants : <<t, a>> \in subscription}

ReadSubscribers(p) ==
  LET r == req[p] IN
  /\ At(p, "subscribers")
  /\ Continue(p, [at |-> "notify", actor |-> r.actor, id |-> r.id, todo |-> Subscribers(r.thread)])
  /\ owed' = [owed EXCEPT ![r.id] = {a \in r.before : <<r.thread, a>> \notin left}]
  /\ UNCHANGED <<letter, threaded, posts, subscription, left, told>>

\* One subscriber's notification, which may fail and takes no notice of the replier's own
\* subscription (notification.Notify).
NotifySubscriber(p) ==
  LET r == req[p] IN
  /\ At(p, "notify")
  /\ IF r.todo = {}
     THEN Return(p) /\ UNCHANGED <<told, owed>>
     ELSE \E a \in r.todo :
       \/ /\ Continue(p, [r EXCEPT !.todo = @ \ {a}])
          /\ told' = IF a = r.actor THEN told ELSE [told EXCEPT ![r.id][a] = @ + 1]
          /\ owed' = owed
       \/ /\ Fault(p, [r EXCEPT !.todo = @ \ {a}])
          /\ told' = told
          /\ owed' = [owed EXCEPT ![r.id] = @ \ {a}]
  /\ UNCHANGED <<letter, threaded, posts, subscription, left>>

-----------------------------------------------------------------------------
SubscribeThread(p, a, t, subscribed) ==
  /\ Begin(p, [at |-> "known", actor |-> a, thread |-> t, subscribed |-> subscribed])
  /\ UNCHANGED communityVars

FindThread(p) ==
  /\ At(p, "known")
  /\ IF req[p].thread \in posts THEN Goto(p, "setSubscribed") ELSE Return(p)
  /\ UNCHANGED communityVars

SetSubscribed(p) ==
  LET r == req[p] IN
  /\ At(p, "setSubscribed") /\ Return(p)
  /\ subscription' = IF r.subscribed THEN subscription \cup {<<r.thread, r.actor>>}
                     ELSE subscription \ {<<r.thread, r.actor>>}
  /\ left' = IF r.subscribed THEN left ELSE left \cup {<<r.thread, r.actor>>}
  /\ UNCHANGED <<letter, threaded, posts, told, owed>>

-----------------------------------------------------------------------------
FailCommunityCall(p) ==
  /\ p \in InFlight /\ req[p].at # "notify"
  /\ Fault(p, None)
  /\ UNCHANGED communityVars

CrashCommunity ==
  /\ Crash
  /\ owed' = [m \in LetterIds |-> IF \E p \in InFlight : req[p].at = "notify" /\ req[p].id = m THEN {} ELSE owed[m]]
  /\ UNCHANGED <<letter, threaded, posts, subscription, left, told>>

CommunityNext ==
  \/ \E p \in Requests, a \in Participants :
       \/ \E space \in OwnerSpaces \cup OpenSpaces : CreatePost(p, a, space)
       \/ \E t \in LetterIds :
            \/ \E m \in LetterIds : AddReply(p, a, t, m)
            \/ \E subscribed \in BOOLEAN : SubscribeThread(p, a, t, subscribed)
  \/ \E p \in Requests :
       \/ CheckSpace(p) \/ StoreRoot(p) \/ IndexRoot(p) \/ StorePost(p) \/ SubscribeAuthor(p) \/ AnnouncePost(p)
       \/ LoadThread(p) \/ StoreReply(p) \/ IndexReply(p) \/ SubscribeReplier(p) \/ ReadSubscribers(p)
       \/ NotifySubscriber(p)
       \/ FindThread(p) \/ SetSubscribed(p)
       \/ FailCommunityCall(p)
  \/ CrashCommunity

-----------------------------------------------------------------------------
\* Every variable has its type, and each handler is at a call of its operation.
CommunityTypeOK ==
  /\ HandlersIn("community", CommunityCalls)
  /\ letter \in [LetterIds -> Letter \cup {None}]
  /\ threaded \subseteq LetterIds /\ posts \subseteq LetterIds
  /\ subscription \subseteq Subscribing /\ left \subseteq Subscribing
  /\ told \in [LetterIds -> [Participants -> Nat]]
  /\ owed \in [LetterIds -> SUBSET Participants]

\* A reply answers a message that stands before it in the same post, so that every reply
\* of a post leads back to the post's own message (community.AddReply).
RepliesBelong ==
  \A m \in LetterIds : letter[m] # None /\ letter[m].parent # None =>
    LET parent == letter[letter[m].parent] IN
    parent # None /\ parent.thread = letter[m].thread /\ letter[m].thread \in posts

\* Whatever is cut short, no post breaks its own page, the list of all posts or the platform's
\* next start, every post begins its thread, and what a notification leads to is on the
\* post's page (community.CreatePost and AddReply against ViewFor, QueryThreads and
\* CleanupMailboxProjections).
PostsWhole ==
  /\ QueryThreads # None /\ CleanupMailboxProjections
  /\ \A t \in posts : ViewFor(t).root.parent = None /\ t \in threaded
  /\ \A m \in LetterIds : (\E a \in Participants : told[m][a] > 0) => m \in ViewFor(letter[m].thread).replies

\* A reply notifies nobody twice and never its own author, and, once it is done, everybody
\* else who was subscribed when it came in and has not left the post since, unless a
\* notification failed or the process died (community.AddReply).
SubscribersTold ==
  \A m \in LetterIds :
    /\ \A a \in Participants : told[m][a] <= IF letter[m] # None /\ letter[m].author = a THEN 0 ELSE 1
    /\ (\E p \in Of("community") : req[p].at = "notify" /\ req[p].id = m)
         \/ \A a \in owed[m] : told[m][a] = 1 \/ letter[m].author = a

\* Posts can be read, their replies are in place, and those who want to know of them do.
CommunityPromise == RepliesBelong /\ PostsWhole /\ SubscribersTold
=============================================================================
