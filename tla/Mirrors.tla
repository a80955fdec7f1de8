------------------------------ MODULE Mirrors -------------------------------
(***************************************************************************)
(* The mirrors of the project's Git repositories (internal/gitmirror): a   *)
(* loop that synchronizes every mirror with its origin, what it records of *)
(* each, and the pages read from a mirror meanwhile.                       *)
(*                                                                         *)
(* The first synchronization clones into a staging directory and renames   *)
(* it -- a crash leaves that directory behind, and nothing reads it --; the *)
(* later ones update the mirror in place.  A page takes several calls of   *)
(* Git: one that names the commit, and then one for each part of the page. *)
(* The page of branches and tags (Refs) names no commit and is left out.   *)
(* Commits are numbered in the order the origin gets them.                 *)
(***************************************************************************)
EXTENDS Handlers, Sequences, Functions

CONSTANTS
  Repositories,
  MaxCommits  \* bound: commits of each origin

Commits     == 0 .. MaxCommits
Record      == [status : {"pending", "syncing", "ready", "error"}, head : Commits \cup {None}]
PageKinds   == {"tree", "blob", "commits", "commitDetail"}
MirrorCalls ==
  [at : {"sync", "clone", "rename", "head", "failed", "ready", "save"}, repository : Repositories, head : Commits \cup {None}]
    \cup [at : {"repository", "resolve", "parts"}, repository : Repositories, kind : PageKinds,
          ref : Commits \cup {None}, header : Commits \cup {None}, oid : Commits \cup {None}, page : Seq(Commits)]

ASSUME MirrorsAssumption == MaxCommits \in Nat /\ None \notin Commits /\ None \notin MirrorCalls

VARIABLES
  origin,  \* external: the newest commit of each origin's default branch
  mirror,  \* git/mirrors/<id>.git: its newest commit, None while there is no such directory
  record,  \* Service.repositories, in memory
  saved,   \* git/repository
  shown    \* history: the page shown last, or None

mirrorVars == <<origin, mirror, record, saved, shown>>

Pending == [status |-> "pending", head |-> None]

MirrorsInit ==
  /\ origin = [i \in Repositories |-> 0]
  /\ mirror = [i \in Repositories |-> None]
  /\ record = [i \in Repositories |-> Pending]
  /\ saved = record
  /\ shown = None

Push(i) ==
  /\ origin[i] < MaxCommits
  /\ origin' = [origin EXCEPT ![i] = @ + 1]
  /\ UNCHANGED <<handlers, mirror, record, saved, shown>>

-----------------------------------------------------------------------------
\* One loop synchronizes, each repository in a goroutine of its own, and waits for them all.
Synchronize(p, i) ==
  /\ \A q \in InFlight : req[q].repository = i => req[q].at \in {"repository", "resolve", "parts"}
  /\ Begin(p, [at |-> "sync", repository |-> i, head |-> record[i].head])
  /\ record' = [record EXCEPT ![i].status = "syncing"]
  /\ UNCHANGED <<origin, mirror, saved, shown>>

\* The record is saved, and git.sync clones what is not there yet.
Sync(p) ==
  LET i == req[p].repository IN
  /\ At(p, "sync")
  /\ saved' = [saved EXCEPT ![i] = record[i]]
  /\ IF mirror[i] = None
     THEN Goto(p, "clone") /\ mirror' = mirror
     ELSE Goto(p, "head") /\ mirror' = [mirror EXCEPT ![i] = origin[i]]
  /\ UNCHANGED <<origin, record, shown>>

Clone(p) ==
  /\ At(p, "clone")
  /\ Continue(p, [req[p] EXCEPT !.at = "rename", !.head = origin[req[p].repository]])
  /\ UNCHANGED mirrorVars

Publish(p) ==
  LET r == req[p] IN
  /\ At(p, "rename") /\ Continue(p, [r EXCEPT !.at = "head", !.head = record[r.repository].head])
  /\ mirror' = [mirror EXCEPT ![r.repository] = r.head]
  /\ UNCHANGED <<origin, record, saved, shown>>

ResolveHead(p) ==
  LET r == req[p] IN
  /\ At(p, "head")
  /\ Continue(p, [r EXCEPT !.at = "ready", !.head = mirror[r.repository]])
  /\ UNCHANGED mirrorVars

\* A failure of any call of Git keeps the head of the last synchronization.
Failed(r) == [status |-> "error", head |-> record[r.repository].head]

FailSync(p) ==
  LET r == req[p] IN
  /\ p \in InFlight /\ r.at \in {"sync", "clone", "rename", "head"}
  /\ Fault(p, [r EXCEPT !.at = "save"])
  /\ record' = [record EXCEPT ![r.repository] = Failed(r)]
  /\ UNCHANGED <<origin, mirror, saved, shown>>

Ready(p) ==
  LET r == req[p] IN
  /\ At(p, "ready") /\ Goto(p, "save")
  /\ record' = [record EXCEPT ![r.repository] = [status |-> "ready", head |-> r.head]]
  /\ UNCHANGED <<origin, mirror, saved, shown>>

SaveRecord(p) ==
  LET i == req[p].repository IN
  /\ At(p, "save") /\ Return(p)
  /\ saved' = [saved EXCEPT ![i] = record[i]]
  /\ UNCHANGED <<origin, mirror, record, shown>>

-----------------------------------------------------------------------------
(* Pages.  The calls that read a page's parts, in their order.             *)

TreeCalls   == <<"tree", "addLastCommits", "commit", "blob", "recursiveTree">>
BlobCalls   == <<"entry", "content">>
LogCalls    == <<"log">>
DetailCalls == <<"commit", "metadata", "changed", "patch">>

Calls(kind) ==
  CASE kind = "tree"    -> TreeCalls [] kind = "blob" -> BlobCalls
    [] kind = "commits" -> LogCalls  [] OTHER         -> DetailCalls

\* A page of the default branch, or of a commit that somebody has seen in the mirror.
OpenPage(p, i, kind, ref) ==
  /\ ref # None => mirror[i] # None /\ ref <= mirror[i]
  /\ Begin(p, [at |-> "repository", repository |-> i, kind |-> kind, ref |-> ref, header |-> None,
               oid |-> None, page |-> <<>>])
  /\ UNCHANGED mirrorVars

Tree(p, i, ref)         == OpenPage(p, i, "tree", ref)
Blob(p, i, ref)         == OpenPage(p, i, "blob", ref)
RawBlob(p, i, ref)      == Blob(p, i, ref)
Log(p, i, ref)          == OpenPage(p, i, "commits", ref)
CommitDetail(p, i, oid) == oid # None /\ OpenPage(p, i, "commitDetail", oid)

\* The page's header names the head of its own reading.
LoadRepository(p) ==
  LET r == req[p] IN
  /\ At(p, "repository")
  /\ IF mirror[r.repository] = None THEN Return(p)
     ELSE Continue(p, [r EXCEPT !.at = "resolve", !.header = mirror[r.repository]])
  /\ UNCHANGED mirrorVars

ResolveRef(p) ==
  LET r == req[p] IN
  /\ At(p, "resolve")
  /\ Continue(p, [r EXCEPT !.at = "parts", !.oid = IF r.ref = None THEN mirror[r.repository] ELSE r.ref])
  /\ UNCHANGED mirrorVars

\* Mutant: the parts are read from the branch.
PartOfBranch(r) == mirror[r.repository]

PartOf(r) == r.oid

Unread(r) == Len(Calls(r.kind)) - Len(r.page)

ReadPart(p) ==
  LET r == req[p] page == Append(r.page, PartOf(r)) IN
  /\ At(p, "parts") /\ Unread(r) > 0
  /\ IF Unread(r) > 1
     THEN Continue(p, [r EXCEPT !.page = page]) /\ shown' = shown
     ELSE /\ Return(p)
          /\ shown' = [kind |-> r.kind, ref |-> r.ref, header |-> r.header, page |-> page]
  /\ UNCHANGED <<origin, mirror, record, saved>>

\* A save or a reader's call of Git fails.
FailMirrorCall(p) ==
  /\ p \in InFlight /\ req[p].at \in {"save", "repository", "resolve", "parts"}
  /\ Fault(p, None)
  /\ UNCHANGED mirrorVars

\* NewService takes up the stored records and saves them again.
CrashMirrors ==
  /\ Crash
  /\ record' = saved
  /\ UNCHANGED <<origin, mirror, saved, shown>>

MirrorsNext ==
  \/ \E i \in Repositories : Push(i)
  \/ \E p \in Requests, i \in Repositories :
       \/ Synchronize(p, i)
       \/ \E ref \in Commits \cup {None} :
            \/ Tree(p, i, ref) \/ Blob(p, i, ref) \/ RawBlob(p, i, ref)
            \/ Log(p, i, ref) \/ CommitDetail(p, i, ref)
  \/ \E p \in Requests :
       \/ Sync(p) \/ Clone(p) \/ Publish(p) \/ ResolveHead(p) \/ FailSync(p) \/ Ready(p) \/ SaveRecord(p)
       \/ LoadRepository(p) \/ ResolveRef(p) \/ ReadPart(p) \/ FailMirrorCall(p)
  \/ CrashMirrors

-----------------------------------------------------------------------------
\* Every variable has its type, and each handler is at a call of its operation.
MirrorsTypeOK ==
  /\ HandlersIn("mirrors", MirrorCalls)
  /\ origin \in [Repositories -> Commits]
  /\ mirror \in [Repositories -> Commits \cup {None}]
  /\ {record, saved} \subseteq [Repositories -> Record]
  /\ shown # None =>
       /\ shown.kind \in PageKinds /\ shown.ref \in Commits \cup {None} /\ shown.header \in Commits
       /\ Len(shown.page) = Len(Calls(shown.kind)) /\ Range(shown.page) \subseteq Commits

\* What is recorded of a mirror, in memory and in the store, is backed by the mirror: one
\* that was ever ready is there and holds the recorded head, through failed
\* synchronizations and crashes (gitmirror.Synchronize).
RecordBacked ==
  \A i \in Repositories : \A known \in {record[i], saved[i]} :
    /\ known.status = "ready" => known.head # None
    /\ known.head # None => mirror[i] # None /\ known.head <= mirror[i]

\* The parts of a page are all of one commit, the one that was asked for, or else one that
\* is not older than the head its header names, whatever is synchronized while it is read
\* (gitmirror.Tree, Blob, Commits, CommitDetail).
PagesPinned ==
  shown # None =>
    /\ Cardinality(Range(shown.page)) = 1
    /\ IF shown.ref # None THEN shown.page[1] = shown.ref ELSE shown.header <= shown.page[1]

\* The stored head of a mirror never goes back (gitmirror.Synchronize).
HeadsForward ==
  [][\A i \in Repositories :
       saved[i].head # None => saved'[i].head # None /\ saved'[i].head >= saved[i].head]_mirrorVars

\* A page is of one commit, and what is known of a mirror is true and does not go back.
MirrorsPromise == [](RecordBacked /\ PagesPinned) /\ HeadsForward
=============================================================================
