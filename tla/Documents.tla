----------------------------- MODULE Documents ------------------------------
(***************************************************************************)
(* The official documentation (internal/document): every start of the      *)
(* platform imports the pages built into its binary, unless a marker in    *)
(* the store says that this very content was imported before.              *)
(*                                                                         *)
(* SeedOfficial runs alone, before anything is served.  It writes page     *)
(* after page -- the revision `current', the document, its path --,        *)
(* archives the pages that the release redirects, and sets the marker.     *)
(* Nothing of this is one transaction, and a start that fails is repeated, *)
(* with this release or another.                                           *)
(***************************************************************************)
EXTENDS Handlers

CONSTANTS
  Releases,      \* contents of wavedoc, by their digest
  Pages,         \* locales with paths
  ReleasePages,  \* the pages of each release
  Redirects      \* the retired pages that each release redirects

ASSUME ReleasesAssumption ==
  /\ ReleasePages \in [Releases -> SUBSET Pages]
  /\ Redirects \in [Releases -> SUBSET Pages]
  /\ \A r \in Releases : ReleasePages[r] \cap Redirects[r] = {}

DocumentCalls ==
  [at : {"marker", "pages", "retire", "mark"}, release : Releases, todo : SUBSET Pages]
    \cup [at : {"object", "path", "retiredPath"}, release : Releases, todo : SUBSET Pages, page : Pages]

ASSUME DocumentsAssumption == None \notin Releases /\ None \notin DocumentCalls /\ None # "published"

VARIABLES
  document,  \* document/object: the status of each page
  revision,  \* document/revision: the release each page's content is of
  paths,     \* document/path: pages with an entry
  markers,   \* meta/import/official-documents
  serving,   \* the release that runs, or None
  touched,   \* history: the release that wrote last
  misread    \* history: releases imported again, and not yet all of it, as a start could not read their marker

documentVars == <<document, revision, paths, markers, serving, touched, misread>>

DocumentsInit ==
  /\ document = [g \in Pages |-> None]
  /\ revision = [g \in Pages |-> None]
  /\ paths = {} /\ markers = {}
  /\ serving = None /\ touched = None /\ misread = {}

\* The platform is stopped and release r started.
Start(p, r) ==
  /\ InFlight = {}
  /\ Begin(p, [at |-> "marker", release |-> r, todo |-> {}])
  /\ serving' = None
  /\ UNCHANGED <<document, revision, paths, markers, touched, misread>>

CheckMarker(p) ==
  LET r == req[p].release IN
  /\ At(p, "marker")
  /\ IF r \in markers
     THEN Return(p) /\ serving' = r
     ELSE Continue(p, [at |-> "pages", release |-> r, todo |-> ReleasePages[r]]) /\ serving' = serving
  /\ UNCHANGED <<document, revision, paths, markers, touched, misread>>

\* The next page's revision; after the last page, the redirects.
PutRevision(p) ==
  LET r == req[p] IN
  /\ At(p, "pages")
  /\ \/ \E g \in r.todo :
          /\ Continue(p, [at |-> "object", release |-> r.release, todo |-> r.todo \ {g}, page |-> g])
          /\ revision' = [revision EXCEPT ![g] = r.release]
          /\ touched' = r.release
     \/ /\ r.todo = {}
        /\ Continue(p, [r EXCEPT !.at = "retire", !.todo = Redirects[r.release]])
        /\ UNCHANGED <<revision, touched>>
  /\ UNCHANGED <<document, paths, markers, serving, misread>>

Published(g) == "published"

\* Mutant: the release's pages are published together, with the first revision.
UpsertDocuments(p) ==
  LET r == req[p] IN
  /\ At(p, "object") /\ Goto(p, "path")
  /\ document' = [g \in Pages |-> IF g \in r.todo \cup {r.page} THEN "published" ELSE document[g]]
  /\ UNCHANGED <<revision, paths, markers, serving, touched, misread>>

UpsertDocument(p) ==
  LET g == req[p].page IN
  /\ At(p, "object") /\ Goto(p, "path")
  /\ document' = [document EXCEPT ![g] = Published(g)]
  /\ UNCHANGED <<revision, paths, markers, serving, touched, misread>>

IndexPath(p) ==
  LET r == req[p] IN
  /\ r # None /\ r.at \in {"path", "retiredPath"}
  /\ Continue(p, [at |-> IF r.at = "path" THEN "pages" ELSE "retire", release |-> r.release, todo |-> r.todo])
  /\ paths' = paths \cup {r.page}
  /\ UNCHANGED <<document, revision, markers, serving, touched, misread>>

\* A redirected page is archived if it is published; its revision stays.
Retire(p) ==
  LET r == req[p] IN
  /\ At(p, "retire")
  /\ \/ \E g \in r.todo :
          IF document[g] = "published"
          THEN /\ Continue(p, [at |-> "retiredPath", release |-> r.release, todo |-> r.todo \ {g}, page |-> g])
               /\ document' = [document EXCEPT ![g] = "archived"]
               /\ touched' = r.release
          ELSE /\ Continue(p, [r EXCEPT !.todo = @ \ {g}])
               /\ UNCHANGED <<document, touched>>
     \/ r.todo = {} /\ Goto(p, "mark") /\ UNCHANGED <<document, touched>>
  /\ UNCHANGED <<revision, paths, markers, serving, misread>>

SetMarker(p) ==
  LET r == req[p].release IN
  /\ At(p, "mark") /\ Return(p)
  /\ markers' = markers \cup {r}
  /\ serving' = r
  /\ misread' = misread \ {r}
  /\ UNCHANGED <<document, revision, paths, touched>>

\* A marker that cannot be read is taken for missing.
FailSeed(p) ==
  LET r == req[p].release IN
  /\ p \in InFlight
  /\ Fault(p, IF At(p, "marker") THEN [at |-> "pages", release |-> r, todo |-> ReleasePages[r]] ELSE None)
  /\ misread' = IF At(p, "marker") THEN misread \cup {r} ELSE misread
  /\ UNCHANGED <<document, revision, paths, markers, serving, touched>>

CrashSeed == Crash /\ UNCHANGED documentVars

DocumentsNext ==
  \/ \E p \in Requests :
       \/ \E r \in Releases : Start(p, r)
       \/ CheckMarker(p) \/ PutRevision(p) \/ UpsertDocument(p) \/ IndexPath(p) \/ Retire(p) \/ SetMarker(p)
       \/ FailSeed(p)
  \/ CrashSeed

-----------------------------------------------------------------------------
(* What readers see.                                                       *)

\* The catalogue.
Summaries == {g \in Pages : document[g] = "published"}

\* A page's content, or None where the page fails.
PublishedView(g) == IF g \in paths \cap Summaries THEN revision[g] ELSE None

\* The pages, of whatever locale, that a page offers as its translations.
PublishedTranslations == {g \in Pages : PublishedView(g) # None}

-----------------------------------------------------------------------------
\* Every variable has its type, and the start is at a call of the import.
DocumentsTypeOK ==
  /\ HandlersIn("documents", DocumentCalls)
  /\ document \in [Pages -> {"published", "archived", None}]
  /\ revision \in [Pages -> Releases \cup {None}]
  /\ paths \subseteq Pages
  /\ markers \subseteq Releases /\ misread \subseteq Releases
  /\ {serving, touched} \subseteq Releases \cup {None}

\* No start, finished, failed or repeated, leaves a page in the catalogue that has no
\* content to show (document.SeedOfficial stores a page's revision before its document).
CatalogueReadable == \A g \in Summaries : revision[g] # None

\* The platform serves the pages of its release, in its words, and none that the release
\* retired -- if the release is the one that wrote last, and no start took its marker for
\* missing and failed half way.  After either, the marker keeps the release from importing
\* its pages again: then it serves what was left.
ReleaseServed ==
  serving # None /\ touched = serving /\ serving \notin misread =>
    /\ \A g \in ReleasePages[serving] : g \in PublishedTranslations /\ PublishedView(g) = serving
    /\ Redirects[serving] \cap Summaries = {}

\* What a release imports is written by its first complete start only: once its marker is
\* set, starting it again changes no page, unless the marker could not be read
\* (document.SeedOfficial takes whatever error for a marker that is missing).
ImportedOnce ==
  [][\A r \in markers \ misread : touched' = r => touched = r]_documentVars

\* What is served is readable and the release's own, and starting again changes nothing.
DocumentsPromise == [](CatalogueReadable /\ ReleaseServed) /\ ImportedOnce
=============================================================================
