------------------------------- MODULE Images -------------------------------
(***************************************************************************)
(* Uploaded images (internal/media): Store converts a few images at a time *)
(* and publishes each by renaming a temporary file; Open serves files that *)
(* have a published image's name.                                          *)
(*                                                                         *)
(* The files outlive the process, the places at the converter do not.  No  *)
(* code collects temporary files that a crash has left.                    *)
(***************************************************************************)
EXTENDS Handlers

CONSTANT Converters  \* capacity of Service.processing

Pictures   == 1 .. MaxRequests  \* images, each named as its request
ImageCalls ==
  [at : {"acquire", "convert", "create", "write", "rename", "audit"}, id : Pictures]

\* None is no call, and no file's content.
ASSUME ImagesAssumption ==
  /\ Converters \in Nat \ {0}
  /\ None \notin ImageCalls \cup {"empty", "part", "whole"}

VARIABLES
  processing, \* the number of places taken in Service.processing
  temporary,  \* contents of the temporary files, by image
  file,       \* contents of the published files
  uploaded,   \* history: images whose upload was answered with success
  cut         \* history: uploads that a fault cut short

imageVars == <<processing, temporary, file, uploaded, cut>>

ImagesInit ==
  /\ processing = 0
  /\ temporary = [i \in Pictures |-> None] /\ file = [i \in Pictures |-> None]
  /\ uploaded = {} /\ cut = {}

-----------------------------------------------------------------------------
Store(p) == Begin(p, [at |-> "acquire", id |-> begun + 1]) /\ UNCHANGED imageVars

\* A client that waits may give up.
Acquire(p) ==
  /\ At(p, "acquire")
  /\ \/ processing < Converters /\ Goto(p, "convert") /\ processing' = processing + 1
     \/ Return(p) /\ UNCHANGED processing
  /\ UNCHANGED <<temporary, file, uploaded, cut>>

\* Reading, the policy's plan, decoding, scaling and encoding, each of which can refuse the
\* image or find the client gone.
Convert(p) ==
  /\ At(p, "convert")
  /\ \/ Goto(p, "create") /\ UNCHANGED processing
     \/ Return(p) /\ processing' = processing - 1
  /\ UNCHANGED <<temporary, file, uploaded, cut>>

CreateTemporary(p) ==
  /\ At(p, "create") /\ Goto(p, "write")
  /\ temporary' = [temporary EXCEPT ![req[p].id] = "empty"]
  /\ UNCHANGED <<processing, file, uploaded, cut>>

\* Mutant: the image is renamed before it is written.
WriteTemporaryLate(p) ==
  /\ At(p, "write") /\ Goto(p, "rename")
  /\ UNCHANGED imageVars

WriteTemporary(p) ==
  /\ At(p, "write") /\ Goto(p, "rename")
  /\ temporary' = [temporary EXCEPT ![req[p].id] = "whole"]
  /\ UNCHANGED <<processing, file, uploaded, cut>>

Rename(p) ==
  LET i == req[p].id IN
  /\ At(p, "rename") /\ Goto(p, "audit")
  /\ file' = [file EXCEPT ![i] = temporary[i]]
  /\ temporary' = [temporary EXCEPT ![i] = None]
  /\ UNCHANGED <<processing, uploaded, cut>>

\* Mutant: the place is given back twice.
FinishTwice(p) ==
  /\ At(p, "audit") /\ Return(p)
  /\ processing' = processing - 2
  /\ uploaded' = uploaded \cup {req[p].id}
  /\ UNCHANGED <<temporary, file, cut>>

\* The audit event, which may get lost, and the answer.
Finish(p) ==
  /\ At(p, "audit") /\ Return(p)
  /\ processing' = processing - 1
  /\ uploaded' = uploaded \cup {req[p].id}
  /\ UNCHANGED <<temporary, file, cut>>

\* What Open finds under a published image's name.
Served(i) == file[i]

-----------------------------------------------------------------------------
\* Creating, writing or renaming the file fails; the file is removed.
FailUpload(p) ==
  LET i == req[p].id IN
  /\ p \in InFlight /\ req[p].at \in {"create", "write", "rename"}
  /\ Fault(p, None)
  /\ processing' = processing - 1
  /\ temporary' = [temporary EXCEPT ![i] = None]
  /\ UNCHANGED <<file, uploaded, cut>>

\* While it is being written, the file may hold a part of the image.
CrashUploads ==
  /\ Crash
  /\ processing' = 0
  /\ \E partly \in SUBSET {p \in InFlight : req[p].at = "write"} :
       temporary' = [i \in Pictures |-> IF \E p \in partly : req[p].id = i THEN "part" ELSE temporary[i]]
  /\ cut' = cut \cup {req[p].id : p \in InFlight}
  /\ UNCHANGED <<file, uploaded>>

ImagesNext ==
  \/ \E p \in Requests :
       \/ Store(p) \/ Acquire(p) \/ Convert(p) \/ CreateTemporary(p) \/ WriteTemporary(p) \/ Rename(p)
       \/ Finish(p) \/ FailUpload(p)
  \/ CrashUploads

-----------------------------------------------------------------------------
\* Every variable has its type, and each handler is at a call of its operation.
ImagesTypeOK ==
  /\ HandlersIn("images", ImageCalls)
  /\ processing \in 0 .. Converters
  /\ temporary \in [Pictures -> {"empty", "part", "whole", None}]
  /\ file \in [Pictures -> {"empty", "part", "whole", None}]
  /\ uploaded \subseteq Pictures /\ cut \subseteq Pictures

\* The handlers between Acquire and their answer.
Converting == {p \in Of("images") : req[p].at # "acquire"}

\* Whatever an upload ends with, its place at the converter is free again: none is lost, which
\* would end all uploads after two, and none is given back twice (media.Store).
PlacesReturned == processing = Cardinality(Converting)

\* An image is served whole or not at all, and every one that was answered for is served,
\* whatever was cut short (media.write); what stays behind is from a crash.
ServedWhole ==
  /\ \A i \in Pictures : Served(i) \in {"whole", None}
  /\ \A i \in uploaded : Served(i) = "whole"
  /\ \A i \in Pictures : temporary[i] # None => i \in cut \/ \E p \in Converting : req[p].id = i

\* Uploads never run out of places, and leave whole images.
ImagesPromise == PlacesReturned /\ ServedWhole
=============================================================================
