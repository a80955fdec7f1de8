-------------------------------- MODULE Blog --------------------------------
(***************************************************************************)
(* The blog (internal/blog): posts that editors save as drafts or publish, *)
(* the event that announces a post, and its readers' comments.             *)
(*                                                                         *)
(* Save reads the stored post, stores it with the editor's input, appends  *)
(* to the audit log and then, if the post had not been published when it   *)
(* was read, publishes the event.  AddComment reads the post, then its     *)
(* comments for the rate limit, then stores.  The clock ticks once in the  *)
(* thirty seconds of that limit.                                           *)
(*                                                                         *)
(* A start of the platform first imports the releases built into it        *)
(* (internal/community/seed.go) and then serves; a marker says that this   *)
(* build's releases were imported before.                                  *)
(***************************************************************************)
EXTENDS Handlers

CONSTANTS
  Slugs,    \* posts
  Readers,  \* accounts that comment
  Builds,   \* builds of the platform, by the digest of their releases
  Released, \* the posts that each build imports
  MaxTicks  \* bound: ticks of the clock

Policies  == {"open", "locked"}  \* locked stands for disabled, too
Posts     == [status : {"draft", "published"}, first : BOOLEAN, policy : Policies, save : 1 .. MaxRequests]
Comments  == 1 .. MaxRequests
\* `since', a history: the comments that were stored when this one's handler began.
Comment   == [slug : Slugs, author : Readers, time : 0 .. MaxTicks, status : {"visible", "hidden"},
              since : SUBSET Comments]
Stages    == {"load", "store", "audit", "publish"}
BlogCalls ==
  [at : {"marker", "import"}, build : Builds, todo : SUBSET Slugs, id : 1 .. MaxRequests]
    \cup [at : Stages, slug : Slugs, input : Posts, copy : Posts \cup {None}]
    \cup [at : {"post", "comments", "comment", "auditComment"}, slug : Slugs, author : Readers, id : Comments,
          now : 0 .. MaxTicks, since : SUBSET Comments]
    \cup [at : {"loadComment", "setStatus"}, id : Comments, status : {"visible", "hidden"},
          copy : Comment \cup {None}]

ASSUME BlogAssumption ==
  /\ Released \in [Builds -> SUBSET Slugs] /\ MaxTicks \in Nat
  /\ None \notin Posts /\ None \notin Comment /\ None \notin BlogCalls

VARIABLES
  post,        \* blog/post
  imported,    \* meta/import/wave-blog: builds whose releases were imported
  serving,     \* the last start has come to serve requests
  comment,     \* blog/comment
  clock,
  announced,   \* history: how often each post was announced
  resaved,     \* history: posts saved from a copy that was not the stored one
  unannounced, \* history: posts with a save that ended early
  brought      \* history: posts that were imported

blogVars == <<post, imported, serving, comment, clock, announced, resaved, unannounced, brought>>

\* A build without any of these releases runs.
BlogInit ==
  /\ post = [s \in Slugs |-> None]
  /\ imported = {} /\ serving = TRUE
  /\ comment = [c \in Comments |-> None]
  /\ clock = 0
  /\ announced = [s \in Slugs |-> 0]
  /\ resaved = {} /\ unannounced = {} /\ brought = {}

Tick == clock < MaxTicks /\ clock' = clock + 1
        /\ UNCHANGED <<handlers, post, imported, serving, comment, announced, resaved, unannounced, brought>>

-----------------------------------------------------------------------------
(* SeedReleaseBlogPosts.                                                   *)

\* The platform is stopped and a build of it started; until that has imported what it has
\* to, nothing is served.
StartBuild(p, b) ==
  /\ InFlight = {}
  /\ Begin(p, [at |-> "marker", build |-> b, todo |-> Released[b], id |-> begun + 1])
  /\ serving' = FALSE
  /\ UNCHANGED <<post, imported, comment, clock, announced, resaved, unannounced, brought>>

CheckImport(p) ==
  LET done == req[p].build \in imported IN
  /\ At(p, "marker")
  /\ IF done THEN Return(p) ELSE Goto(p, "import")
  /\ serving' = done
  /\ UNCHANGED <<post, imported, comment, clock, announced, resaved, unannounced, brought>>

Release(id) == [status |-> "published", first |-> TRUE, policy |-> "locked", save |-> id]

\* The next post, unless there is one of its name.
ImportPost(p) ==
  LET r == req[p] IN
  /\ At(p, "import")
  /\ \E s \in r.todo :
       /\ Continue(p, [r EXCEPT !.todo = @ \ {s}])
       /\ IF post[s] = None
          THEN post' = [post EXCEPT ![s] = Release(r.id)] /\ brought' = brought \cup {s}
          ELSE UNCHANGED <<post, brought>>
  /\ UNCHANGED <<imported, serving, comment, clock, announced, resaved, unannounced>>

SetImported(p) ==
  /\ At(p, "import") /\ req[p].todo = {}
  /\ Return(p)
  /\ imported' = imported \cup {req[p].build}
  /\ serving' = TRUE
  /\ UNCHANGED <<post, comment, clock, announced, resaved, unannounced, brought>>

-----------------------------------------------------------------------------
SavePost(p, s, status, policy) ==
  /\ serving
  /\ Begin(p, [at |-> "load", slug |-> s, copy |-> None,
               input |-> [status |-> status, first |-> FALSE, policy |-> policy, save |-> begun + 1]])
  /\ UNCHANGED blogVars

LoadPost(p) ==
  /\ At(p, "load")
  /\ Continue(p, [req[p] EXCEPT !.at = "store", !.copy = post[req[p].slug]])
  /\ UNCHANGED blogVars

Published(item) == item # None /\ item.first

\* `first' stands for PublishedAt, which is set once.
ToStore(r) == [r.input EXCEPT !.first = Published(r.copy) \/ r.input.status = "published"]

StorePost(p) ==
  LET r == req[p] s == r.slug IN
  /\ At(p, "store") /\ Goto(p, "audit")
  /\ post' = [post EXCEPT ![s] = ToStore(r)]
  /\ resaved' = IF post[s] = r.copy THEN resaved ELSE resaved \cup {s}
  /\ UNCHANGED <<imported, serving, comment, clock, announced, unannounced, brought>>

\* Mutant: every save of a published post announces it.
ToAnnounceAll(r) == r.input.status = "published"

ToAnnounce(r) == r.input.status = "published" /\ ~ Published(r.copy)

\* Append, which may fail because another event was appended meanwhile (see Patches); then
\* Save returns before it publishes.
AuditSave(p) ==
  LET r == req[p] IN
  /\ At(p, "audit")
  /\ \/ /\ IF ToAnnounce(r) THEN Goto(p, "publish") ELSE Return(p)
        /\ UNCHANGED unannounced
     \/ Return(p) /\ (\E q \in InFlight \ {p} : TRUE) /\ unannounced' = unannounced \cup {r.slug}
  /\ UNCHANGED <<post, imported, serving, comment, clock, announced, resaved, brought>>

PublishEvent(p) ==
  LET r == req[p] IN
  /\ At(p, "publish") /\ Return(p)
  /\ announced' = [announced EXCEPT ![r.slug] = @ + 1]
  /\ UNCHANGED <<post, imported, serving, comment, clock, resaved, unannounced, brought>>

-----------------------------------------------------------------------------
StoredComments == {c \in Comments : comment[c] # None}

\* Only a published post with open comments takes one.
AddComment(p, s, a) ==
  /\ serving
  /\ Begin(p, [at |-> "post", slug |-> s, author |-> a, id |-> begun + 1, now |-> 0, since |-> StoredComments])
  /\ UNCHANGED blogVars

\* The posts that are shown to everybody.
Public == {s \in Slugs : post[s] # None /\ post[s].status = "published"}

LoadCommented(p) ==
  LET s == req[p].slug IN
  /\ At(p, "post")
  /\ IF s \in Public /\ post[s].policy = "open"
     THEN Goto(p, "comments") ELSE Return(p)
  /\ UNCHANGED blogVars

Own(s, a, t) ==
  {c \in StoredComments : comment[c].slug = s /\ comment[c].author = a /\ comment[c].time = t}

\* A comment of the tick before may be within the thirty seconds or past them.
CheckRate(p) ==
  LET r == req[p] IN
  /\ At(p, "comments")
  /\ \/ /\ Own(r.slug, r.author, clock) = {}
        /\ Continue(p, [r EXCEPT !.at = "comment", !.now = clock])
     \/ (\E t \in {clock - 1, clock} : Own(r.slug, r.author, t) # {}) /\ Return(p)
  /\ UNCHANGED blogVars

StoreComment(p) ==
  LET r == req[p] IN
  /\ At(p, "comment") /\ Goto(p, "auditComment")
  /\ comment' = [comment EXCEPT ![r.id] =
       [slug |-> r.slug, author |-> r.author, time |-> r.now, status |-> "visible", since |-> r.since]]
  /\ UNCHANGED <<post, imported, serving, clock, announced, resaved, unannounced, brought>>

\* The audit event, and then the notification of the post's author.
FinishComment(p) == At(p, "auditComment") /\ Return(p) /\ UNCHANGED blogVars

\* By an editor.
SetCommentStatus(p, c, status) ==
  /\ serving /\ comment[c] # None
  /\ Begin(p, [at |-> "loadComment", id |-> c, status |-> status, copy |-> None])
  /\ UNCHANGED blogVars

LoadComment(p) ==
  /\ At(p, "loadComment")
  /\ Continue(p, [req[p] EXCEPT !.at = "setStatus", !.copy = comment[req[p].id]])
  /\ UNCHANGED blogVars

StoreStatus(p) ==
  LET r == req[p] IN
  /\ At(p, "setStatus") /\ Return(p)
  /\ comment' = [comment EXCEPT ![r.id] = [r.copy EXCEPT !.status = r.status]]
  /\ UNCHANGED <<post, imported, serving, clock, announced, resaved, unannounced, brought>>

-----------------------------------------------------------------------------
Saving(ps) == {req[q].slug : q \in {q \in ps : req[q].at \in {"audit", "publish"}}}

\* A marker that cannot be read is taken for missing.
FailBlogCall(p) ==
  /\ p \in InFlight
  /\ Fault(p, IF At(p, "marker") THEN [req[p] EXCEPT !.at = "import"] ELSE None)
  /\ unannounced' = unannounced \cup Saving({p})
  /\ UNCHANGED <<post, imported, serving, comment, clock, announced, resaved, brought>>

CrashBlog ==
  /\ Crash
  /\ unannounced' = unannounced \cup Saving(InFlight)
  /\ UNCHANGED <<post, imported, serving, comment, clock, announced, resaved, brought>>

BlogNext ==
  \/ Tick
  \/ \E p \in Requests, s \in Slugs :
       \/ \E status \in {"draft", "published"}, policy \in Policies : SavePost(p, s, status, policy)
       \/ \E a \in Readers : AddComment(p, s, a)
  \/ \E p \in Requests, c \in Comments, status \in {"visible", "hidden"} : SetCommentStatus(p, c, status)
  \/ \E p \in Requests, b \in Builds : StartBuild(p, b)
  \/ \E p \in Requests :
       \/ CheckImport(p) \/ ImportPost(p) \/ SetImported(p)
       \/ LoadPost(p) \/ StorePost(p) \/ AuditSave(p) \/ PublishEvent(p)
       \/ LoadCommented(p) \/ CheckRate(p) \/ StoreComment(p) \/ FinishComment(p)
       \/ LoadComment(p) \/ StoreStatus(p)
       \/ FailBlogCall(p)
  \/ CrashBlog

-----------------------------------------------------------------------------
\* Every variable has its type, and each handler is at a call of its operation.
BlogTypeOK ==
  /\ HandlersIn("blog", BlogCalls)
  /\ post \in [Slugs -> Posts \cup {None}]
  /\ imported \subseteq Builds /\ serving \in BOOLEAN
  /\ comment \in [Comments -> Comment \cup {None}]
  /\ clock \in 0 .. MaxTicks
  /\ announced \in [Slugs -> Nat]
  /\ UNION {resaved, unannounced, brought} \subseteq Slugs

Announcing(s) == \E p \in InFlight : req[p].at \in {"audit", "publish"} /\ req[p].slug = s

\* A post is announced once, when it is first published, however often it is withdrawn and
\* published again, unless saves of it overlapped; it is not announced at all only if it was
\* imported, or if its first publication was cut short after it was stored, which no later
\* one makes up for (blog.Save decides by the post it read whether to publish the event).
AnnouncedOnce ==
  \A s \in Slugs \ resaved :
    /\ announced[s] <= 1
    /\ Published(post[s]) =>
         announced[s] = 1 \/ Announcing(s) \/ s \in unannounced \cup brought

\* Of a reader's two comments within the thirty seconds of the limit, neither was stored
\* when the other's request came in, hidden or not: only requests in flight together pass
\* the limit (blog.AddComment lists the comments and stores its own later).
RateOvershoot ==
  \A c \in StoredComments :
    comment[c].since \cap Own(comment[c].slug, comment[c].author, comment[c].time) = {}

\* What stands on the blog is changed by an editor's save only: no start of whatever build,
\* repeated or not, undoes an edit of a post that a release shares its name with
\* (community.SeedReleaseBlogPosts imports what is missing).
ImportsYield ==
  [][\A s \in Slugs : post[s] # None /\ post'[s] # post[s] =>
       \E p \in Requests : At(p, "store") /\ req[p].slug = s /\ req'[p] # req[p]]_<<handlers, blogVars>>

\* A post is announced once, its comments keep to the rate, and no start overwrites it.
BlogPromise == [](AnnouncedOnce /\ RateOvershoot) /\ ImportsYield
=============================================================================
