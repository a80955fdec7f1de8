----------------------- MODULE PublicServices_proofs ------------------------
(***************************************************************************)
(* Proofs about the services whose records anybody may read: each has a    *)
(* specification of its own here, with any number of handlers, since a     *)
(* behaviour handles the requests of one service.                          *)
(***************************************************************************)
EXTENDS Handlers_proofs, Images, Community, Sponsors, Documents, Votes, Patches, Mirrors

-----------------------------------------------------------------------------
(* Images.                                                                 *)

ImagesSpec == HandlersInit /\ service = "images" /\ ImagesInit /\ [][ImagesNext]_<<handlers, imageVars>>

\* Every upload has an image of its own.
ImagesApart ==
  /\ \A p \in InFlight : req[p].id <= begun
  /\ \A p, q \in InFlight : req[p].id = req[q].id => p = q

\* What an upload has done is as far as its next call says.
ImagesMade ==
  /\ \A p \in InFlight : req[p].at = "rename" => temporary[req[p].id] = "whole"
  /\ \A p \in InFlight : req[p].at = "audit" => file[req[p].id] = "whole"
  /\ \A i \in Pictures : temporary[i] # None =>
       i \in cut \/ \E p \in InFlight : req[p].at \in {"write", "rename"} /\ req[p].id = i

ImagesInv ==
  /\ service = "images" /\ ImagesTypeOK /\ IsFiniteSet(Converting)
  /\ ImagesApart /\ ImagesMade /\ ImagesPromise

LEMMA ImageCallsAreCalls ==
  ASSUME NEW c \in ImageCalls
  PROVE  c # None /\ c.id \in Pictures /\ c.at \in {"acquire", "convert", "create", "write", "rename", "audit"}
<1>1. None \notin ImageCalls
  BY ImagesAssumption
<1> QED
  BY <1>1 DEF ImageCalls

LEMMA ImageCallMoved ==
  ASSUME NEW c \in ImageCalls, NEW place \in {"acquire", "convert", "create", "write", "rename", "audit"}
  PROVE  LET d == [c EXCEPT !.at = place] IN d \in ImageCalls /\ d.at = place /\ d.id = c.id
BY DEF ImageCalls

LEMMA ImageHandlers ==
  ASSUME ImagesInv
  PROVE  /\ req \in [Requests -> ImageCalls \cup {None}] /\ begun \in 0 .. MaxRequests /\ faults \in 0 .. MaxFaults
         /\ service \in Services
         /\ \A p \in InFlight : p \in Requests /\ req[p] \in ImageCalls
         /\ \A p \in Requests : p \in InFlight <=> req[p] # None
         /\ Converting = {p \in InFlight : req[p].at # "acquire"}
BY DEF ImagesInv, ImagesTypeOK, HandlersIn, InFlight, Converting, Of

\* An upload goes on to its next call.
LEMMA ImageGoes ==
  ASSUME ImagesInv, NEW p \in Requests, p \in InFlight,
         NEW place \in {"convert", "create", "write", "rename", "audit"}, Goto(p, place)
  PROVE  /\ HandlersIn("images", ImageCalls)' /\ service' = "images" /\ begun' = begun /\ faults' = faults
         /\ InFlight' = InFlight /\ Converting' = Converting \cup {p}
         /\ req'[p].at = place /\ req'[p].id = req[p].id /\ req[p].id \in Pictures
         /\ \A q \in Requests \ {p} : req'[q] = req[q]
<1> DEFINE c == [req[p] EXCEPT !.at = place]
<1>1. c \in ImageCalls /\ c # None /\ c.at = place /\ c.id = req[p].id /\ req[p].id \in Pictures
  <2>1. req[p] \in ImageCalls
    BY ImageHandlers
  <2>2. place \in {"acquire", "convert", "create", "write", "rename", "audit"}
    OBVIOUS
  <2>3. c \in ImageCalls /\ c.at = place /\ c.id = req[p].id
    BY <2>1, <2>2, ImageCallMoved
  <2> QED
    BY <2>1, <2>3, ImageCallsAreCalls
<1> HIDE DEF c
<1>2. Continue(p, c)
  BY DEF Goto, c
<1>3. /\ req' \in [Requests -> ImageCalls \cup {None}] /\ Moves(p, c)
      /\ UNCHANGED <<service, begun, faults>>
  BY <1>1, <1>2, ImageHandlers, Continued
<1>4. service' = "images" /\ InFlight' = InFlight
  BY <1>1, <1>3, ImageHandlers DEF Moves, InFlight, ImagesInv
<1>5. Converting' = Converting \cup {p}
  BY <1>1, <1>3, <1>4, ImageHandlers DEF Moves, Converting, Of
<1> QED
  BY <1>1, <1>3, <1>4, <1>5, ImageHandlers DEF Moves, HandlersIn

\* An upload ends, by an answer or a failure.
LEMMA ImageEnds ==
  ASSUME ImagesInv, NEW p \in Requests, p \in InFlight, Return(p) \/ Fault(p, None)
  PROVE  /\ HandlersIn("images", ImageCalls)' /\ service' = "images" /\ begun' = begun
         /\ InFlight' = InFlight \ {p} /\ Converting' = Converting \ {p}
         /\ \A q \in Requests \ {p} : req'[q] = req[q]
<1>1. /\ req' \in [Requests -> ImageCalls \cup {None}] /\ Moves(p, None)
      /\ faults' \in 0 .. MaxFaults /\ UNCHANGED <<service, begun>>
  <2>1. CASE Return(p)
    BY <2>1, ImageHandlers, Returned
  <2>2. CASE Fault(p, None)
    <3> DEFINE n == None
    <3>1. n \in ImageCalls \cup {None} /\ Fault(p, n)
      BY <2>2
    <3> QED
      BY <3>1, ImageHandlers, Faulted
  <2> QED
    BY <2>1, <2>2
<1>2. service' = "images" /\ InFlight' = InFlight \ {p}
  BY <1>1, ImageHandlers DEF Moves, InFlight, ImagesInv
<1>3. Converting' = Converting \ {p}
  BY <1>1, <1>2, ImageHandlers DEF Moves, Converting, Of
<1> QED
  BY <1>1, <1>2, <1>3, ImageHandlers DEF Moves, HandlersIn

LEMMA ImagesStart == HandlersInit /\ service = "images" /\ ImagesInit => ImagesInv
<1> SUFFICES ASSUME HandlersInit, service = "images", ImagesInit
             PROVE  ImagesInv
  OBVIOUS
<1>1. InFlight = {} /\ Converting = {}
  BY DEF HandlersInit, InFlight, Converting, Of
<1>2. ImagesTypeOK
  BY ImagesAssumption, HandlersAssumption DEF HandlersInit, ImagesInit, ImagesTypeOK, HandlersIn
<1>3. IsFiniteSet(Converting) /\ Cardinality(Converting) = 0
  BY <1>1, FS_EmptySet
<1>4. PlacesReturned
  BY <1>3 DEF PlacesReturned, ImagesInit
<1>5. ServedWhole
  BY DEF ServedWhole, Served, ImagesInit
<1>6. ImagesMade
  BY <1>1 DEF ImagesInit, ImagesMade
<1> QED
  BY <1>1, <1>6, <1>2, <1>3, <1>4, <1>5 DEF ImagesInv, ImagesApart, ImagesMade, ImagesPromise

\* An upload takes or gives back its place at the converter.
LEMMA PlaceTaken ==
  ASSUME ImagesInv, NEW p \in Requests, p \notin Converting, processing < Converters,
         Converting' = Converting \cup {p}, processing' = processing + 1
  PROVE  IsFiniteSet(Converting)' /\ PlacesReturned' /\ processing' \in 0 .. Converters
<1>1. IsFiniteSet(Converting \cup {p}) /\ Cardinality(Converting \cup {p}) = Cardinality(Converting) + 1
  BY FS_AddElement DEF ImagesInv
<1> QED
  BY <1>1, ImagesAssumption DEF ImagesInv, ImagesPromise, PlacesReturned, ImagesTypeOK

LEMMA PlaceKept ==
  ASSUME ImagesInv, Converting' = Converting, processing' = processing
  PROVE  IsFiniteSet(Converting)' /\ PlacesReturned' /\ processing' \in 0 .. Converters
BY DEF ImagesInv, ImagesPromise, PlacesReturned, ImagesTypeOK

LEMMA PlaceGivenBack ==
  ASSUME ImagesInv, NEW p \in Converting,
         Converting' = Converting \ {p}, processing' = processing - 1
  PROVE  IsFiniteSet(Converting)' /\ PlacesReturned' /\ processing' \in 0 .. Converters
<1>1. IsFiniteSet(Converting \ {p}) /\ Cardinality(Converting \ {p}) = Cardinality(Converting) - 1
  BY FS_RemoveElement DEF ImagesInv
<1>2. Cardinality(Converting) \in Nat /\ Cardinality(Converting \ {p}) \in Nat
  BY <1>1, FS_CardinalityType DEF ImagesInv
<1> QED
  BY <1>1, <1>2, ImagesAssumption DEF ImagesInv, ImagesPromise, PlacesReturned, ImagesTypeOK

\* No step but the first gives an upload its image.
LEMMA ImagesStayApart ==
  ASSUME ImagesInv, InFlight' \subseteq InFlight, begun' = begun,
         \A p \in InFlight' : req'[p].id = req[p].id
  PROVE  ImagesApart'
BY DEF ImagesInv, ImagesApart

\* What is served is whole where the files are as their uploads say.
LEMMA ServedPrimed ==
  ASSUME service' = "images", ImagesMade', \A i \in Pictures : file'[i] \in {"whole", None},
         \A i \in uploaded' : file'[i] = "whole"
  PROVE  ServedWhole'
BY DEF ImagesMade, ServedWhole, Served, Converting, Of

LEMMA ServedAlready ==
  ASSUME ImagesInv
  PROVE  (\A i \in Pictures : file[i] \in {"whole", None}) /\ (\A i \in uploaded : file[i] = "whole")
BY DEF ImagesInv, ImagesPromise, ServedWhole, Served

LEMMA ImagesKept == ImagesInv /\ [ImagesNext]_<<handlers, imageVars>> => ImagesInv'
<1> SUFFICES ASSUME ImagesInv, [ImagesNext]_<<handlers, imageVars>>
             PROVE  ImagesInv'
  OBVIOUS
<1> USE ImageHandlers
<1>1. ASSUME NEW p \in Requests, Store(p)
      PROVE  ImagesInv'
  <2> DEFINE c == [at |-> "acquire", id |-> begun + 1]
  <2>1. Begin(p, c) /\ UNCHANGED imageVars
    BY <1>1 DEF Store
  <2>2. c \in ImageCalls /\ c # None
    <3>1. begun + 1 \in Pictures
      BY <2>1, HandlersAssumption DEF Begin, Pictures
    <3> QED
      BY <3>1, ImagesAssumption DEF ImageCalls
  <2>3. c.at = "acquire" /\ c.id = begun + 1
    OBVIOUS
  <2> HIDE DEF c
  <2>4. /\ req[p] = None /\ req' \in [Requests -> ImageCalls \cup {None}] /\ Moves(p, c)
        /\ begun + 1 \in 1 .. MaxRequests /\ begun' = begun + 1 /\ begun' \in 0 .. MaxRequests
        /\ UNCHANGED <<service, faults>>
    BY <2>1, <2>2, Begun
  <2>5. service' = "images" /\ InFlight' = InFlight \cup {p} /\ p \notin InFlight
    BY <2>2, <2>4 DEF Moves, InFlight, ImagesInv
  <2>6. Converting' = Converting
    BY <2>3, <2>4, <2>5 DEF Moves, Converting, Of
  <2>7. ImagesApart'
    BY <2>3, <2>4, <2>5 DEF ImagesInv, ImagesApart, Moves, ImageCalls, Pictures
  <2>8. ImagesMade'
    BY <2>1, <2>3, <2>4, <2>5 DEF ImagesInv, ImagesMade, Moves, imageVars
  <2>9. IsFiniteSet(Converting)' /\ PlacesReturned'
    BY <2>1, <2>6, PlaceKept DEF imageVars
  <2>10. ImagesTypeOK'
    BY <2>1, <2>4, <2>5 DEF ImagesInv, ImagesTypeOK, HandlersIn, imageVars
  <2>11. ServedWhole'
    BY <2>1, <2>5, <2>8, ServedAlready, ServedPrimed DEF imageVars
  <2> QED
    BY <2>5, <2>7, <2>8, <2>9, <2>10, <2>11 DEF ImagesInv, ImagesPromise
<1>2. ASSUME NEW p \in Requests, Acquire(p)
      PROVE  ImagesInv'
  <2>1. p \in InFlight /\ req[p].at = "acquire" /\ p \notin Converting
    BY <1>2 DEF Acquire, At
  <2>2. UNCHANGED <<temporary, file, uploaded, cut>>
    BY <1>2 DEF Acquire
  <2>3. CASE Goto(p, "convert") /\ processing < Converters /\ processing' = processing + 1
    <3>1. /\ HandlersIn("images", ImageCalls)' /\ service' = "images" /\ begun' = begun
          /\ InFlight' = InFlight /\ Converting' = Converting \cup {p}
          /\ req'[p].at = "convert" /\ req'[p].id = req[p].id
          /\ \A q \in Requests \ {p} : req'[q] = req[q]
      BY <2>1, <2>3, ImageGoes
    <3>2. ImagesApart'
      BY <3>1, ImagesStayApart
    <3>3. ImagesMade'
      BY <2>1, <2>2, <3>1, ImageHandlers DEF ImagesInv, ImagesMade
    <3>4. IsFiniteSet(Converting)' /\ PlacesReturned' /\ processing' \in 0 .. Converters
      BY <2>1, <2>3, <3>1, PlaceTaken
    <3>5. ServedWhole'
      BY <2>2, <3>1, <3>3, ServedAlready, ServedPrimed
    <3> QED
      BY <2>2, <3>1, <3>2, <3>3, <3>4, <3>5 DEF ImagesInv, ImagesTypeOK, ImagesPromise
  <2>4. CASE Return(p) /\ UNCHANGED processing
    <3>1. /\ HandlersIn("images", ImageCalls)' /\ service' = "images" /\ begun' = begun
          /\ InFlight' = InFlight \ {p} /\ Converting' = Converting \ {p}
          /\ \A q \in Requests \ {p} : req'[q] = req[q]
      BY <2>1, <2>4, ImageEnds
    <3>2. ImagesApart'
      BY <3>1, ImagesStayApart
    <3>3. ImagesMade'
      BY <2>1, <2>2, <3>1, ImageHandlers DEF ImagesInv, ImagesMade
    <3>4. IsFiniteSet(Converting)' /\ PlacesReturned' /\ processing' \in 0 .. Converters
      BY <2>1, <2>4, <3>1, PlaceKept
    <3>5. ServedWhole'
      BY <2>2, <3>1, <3>3, ServedAlready, ServedPrimed
    <3> QED
      BY <2>2, <3>1, <3>2, <3>3, <3>4, <3>5 DEF ImagesInv, ImagesTypeOK, ImagesPromise
  <2> QED
    BY <1>2, <2>3, <2>4 DEF Acquire
<1>3. ASSUME NEW p \in Requests, Convert(p)
      PROVE  ImagesInv'
  <2>1. p \in InFlight /\ req[p].at = "convert" /\ p \in Converting
    BY <1>3 DEF Convert, At
  <2>2. UNCHANGED <<temporary, file, uploaded, cut>>
    BY <1>3 DEF Convert
  <2>3. CASE Goto(p, "create") /\ UNCHANGED processing
    <3>1. /\ HandlersIn("images", ImageCalls)' /\ service' = "images" /\ begun' = begun
          /\ InFlight' = InFlight /\ Converting' = Converting \cup {p}
          /\ req'[p].at = "create" /\ req'[p].id = req[p].id
          /\ \A q \in Requests \ {p} : req'[q] = req[q]
      BY <2>1, <2>3, ImageGoes
    <3>2. ImagesApart'
      BY <3>1, ImagesStayApart
    <3>3. ImagesMade'
      BY <2>1, <2>2, <3>1, ImageHandlers DEF ImagesInv, ImagesMade
    <3>4. IsFiniteSet(Converting)' /\ PlacesReturned' /\ processing' \in 0 .. Converters
      BY <2>1, <2>3, <3>1, PlaceKept
    <3>5. ServedWhole'
      BY <2>2, <3>1, <3>3, ServedAlready, ServedPrimed
    <3> QED
      BY <2>2, <3>1, <3>2, <3>3, <3>4, <3>5 DEF ImagesInv, ImagesTypeOK, ImagesPromise
  <2>4. CASE Return(p) /\ processing' = processing - 1
    <3>1. /\ HandlersIn("images", ImageCalls)' /\ service' = "images" /\ begun' = begun
          /\ InFlight' = InFlight \ {p} /\ Converting' = Converting \ {p}
          /\ \A q \in Requests \ {p} : req'[q] = req[q]
      BY <2>1, <2>4, ImageEnds
    <3>2. ImagesApart'
      BY <3>1, ImagesStayApart
    <3>3. ImagesMade'
      BY <2>1, <2>2, <3>1, ImageHandlers DEF ImagesInv, ImagesMade
    <3>4. IsFiniteSet(Converting)' /\ PlacesReturned' /\ processing' \in 0 .. Converters
      BY <2>1, <2>4, <3>1, PlaceGivenBack
    <3>5. ServedWhole'
      BY <2>2, <3>1, <3>3, ServedAlready, ServedPrimed
    <3> QED
      BY <2>2, <3>1, <3>2, <3>3, <3>4, <3>5 DEF ImagesInv, ImagesTypeOK, ImagesPromise
  <2> QED
    BY <1>3, <2>3, <2>4 DEF Convert
<1>4. ASSUME NEW p \in Requests, CreateTemporary(p)
      PROVE  ImagesInv'
  <2> DEFINE i == req[p].id
  <2>1. p \in InFlight /\ req[p].at = "create" /\ p \in Converting
    BY <1>4 DEF CreateTemporary, At
  <2>2. UNCHANGED <<processing, file, uploaded, cut>> /\ temporary' = [temporary EXCEPT ![i] = "empty"]
    BY <1>4 DEF CreateTemporary
  <2>3. /\ HandlersIn("images", ImageCalls)' /\ service' = "images" /\ begun' = begun
        /\ InFlight' = InFlight /\ Converting' = Converting \cup {p}
        /\ req'[p].at = "write" /\ req'[p].id = i /\ i \in Pictures
        /\ \A q \in Requests \ {p} : req'[q] = req[q]
    BY <1>4, <2>1, ImageGoes DEF CreateTemporary
  <2> HIDE DEF i
  <2>4. \A q \in InFlight \ {p} : req[q].id # i
    BY <2>1 DEF ImagesInv, ImagesApart, i
  <2>5. ImagesApart'
    BY <2>3, ImagesStayApart DEF i
  <2>6. temporary \in [Pictures -> {"empty", "part", "whole", None}]
    BY DEF ImagesInv, ImagesTypeOK
  <2>7. temporary' \in [Pictures -> {"empty", "part", "whole", None}]
    BY <2>2, <2>6
  <2>8. ImagesMade'
    BY <2>1, <2>2, <2>3, <2>4, <2>6, ImageCallsAreCalls DEF ImagesInv, ImagesMade
  <2>9. IsFiniteSet(Converting)' /\ PlacesReturned' /\ processing' \in 0 .. Converters
    BY <2>1, <2>2, <2>3, PlaceKept
  <2>10. ServedWhole'
    BY <2>2, <2>3, <2>8, ServedAlready, ServedPrimed
  <2> QED
    BY <2>2, <2>3, <2>5, <2>7, <2>8, <2>9, <2>10 DEF ImagesInv, ImagesTypeOK, ImagesPromise
<1>5. ASSUME NEW p \in Requests, WriteTemporary(p)
      PROVE  ImagesInv'
  <2> DEFINE i == req[p].id
  <2>1. p \in InFlight /\ req[p].at = "write" /\ p \in Converting
    BY <1>5 DEF WriteTemporary, At
  <2>2. UNCHANGED <<processing, file, uploaded, cut>> /\ temporary' = [temporary EXCEPT ![i] = "whole"]
    BY <1>5 DEF WriteTemporary
  <2>3. /\ HandlersIn("images", ImageCalls)' /\ service' = "images" /\ begun' = begun
        /\ InFlight' = InFlight /\ Converting' = Converting \cup {p}
        /\ req'[p].at = "rename" /\ req'[p].id = i /\ i \in Pictures
        /\ \A q \in Requests \ {p} : req'[q] = req[q]
    BY <1>5, <2>1, ImageGoes DEF WriteTemporary
  <2> HIDE DEF i
  <2>4. \A q \in InFlight \ {p} : req[q].id # i
    BY <2>1 DEF ImagesInv, ImagesApart, i
  <2>5. ImagesApart'
    BY <2>3, ImagesStayApart DEF i
  <2>6. temporary \in [Pictures -> {"empty", "part", "whole", None}]
    BY DEF ImagesInv, ImagesTypeOK
  <2>7. /\ temporary' \in [Pictures -> {"empty", "part", "whole", None}]
        /\ temporary'[i] = "whole" /\ \A j \in Pictures \ {i} : temporary'[j] = temporary[j]
    BY <2>2, <2>3, <2>6
  <2>8. ImagesMade'
    <3>1. \A q \in InFlight' : req'[q].at = "rename" => temporary'[req'[q].id] = "whole"
      BY <2>1, <2>3, <2>4, <2>7, ImageCallsAreCalls DEF ImagesInv, ImagesMade
    <3>2. \A q \in InFlight' : req'[q].at = "audit" => file'[req'[q].id] = "whole"
      BY <2>1, <2>2, <2>3 DEF ImagesInv, ImagesMade
    <3>3. \A j \in Pictures : temporary'[j] # None =>
            j \in cut' \/ \E q \in InFlight' : req'[q].at \in {"write", "rename"} /\ req'[q].id = j
      <4> SUFFICES ASSUME NEW j \in Pictures, temporary'[j] # None
                   PROVE  j \in cut' \/ \E q \in InFlight' : req'[q].at \in {"write", "rename"} /\ req'[q].id = j
        OBVIOUS
      <4>1. CASE j = i
        BY <2>1, <2>3, <4>1
      <4>2. CASE j # i
        <5>1. temporary[j] # None
          BY <2>7, <4>2
        <5>2. j \in cut \/ \E q \in InFlight : req[q].at \in {"write", "rename"} /\ req[q].id = j
          BY <5>1 DEF ImagesInv, ImagesMade
        <5> QED
          BY <2>2, <2>3, <4>2, <5>2 DEF i
      <4> QED
        BY <4>1, <4>2
    <3> QED
      BY <3>1, <3>2, <3>3 DEF ImagesMade
  <2>9. IsFiniteSet(Converting)' /\ PlacesReturned' /\ processing' \in 0 .. Converters
    BY <2>1, <2>2, <2>3, PlaceKept
  <2>10. ServedWhole'
    BY <2>2, <2>3, <2>8, ServedAlready, ServedPrimed
  <2> QED
    BY <2>2, <2>3, <2>5, <2>7, <2>8, <2>9, <2>10 DEF ImagesInv, ImagesTypeOK, ImagesPromise
<1>6. ASSUME NEW p \in Requests, Rename(p)
      PROVE  ImagesInv'
  <2> DEFINE i == req[p].id
  <2>1. p \in InFlight /\ req[p].at = "rename" /\ p \in Converting
    BY <1>6 DEF Rename, At
  <2>2. /\ UNCHANGED <<processing, uploaded, cut>>
        /\ file' = [file EXCEPT ![i] = temporary[i]] /\ temporary' = [temporary EXCEPT ![i] = None]
    BY <1>6 DEF Rename
  <2>3. /\ HandlersIn("images", ImageCalls)' /\ service' = "images" /\ begun' = begun
        /\ InFlight' = InFlight /\ Converting' = Converting \cup {p}
        /\ req'[p].at = "audit" /\ req'[p].id = i /\ i \in Pictures
        /\ \A q \in Requests \ {p} : req'[q] = req[q]
    BY <1>6, <2>1, ImageGoes DEF Rename
  <2>4. temporary[i] = "whole"
    BY <2>1 DEF ImagesInv, ImagesMade
  <2> HIDE DEF i
  <2>5. \A q \in InFlight \ {p} : req[q].id # i
    BY <2>1 DEF ImagesInv, ImagesApart, i
  <2>6. ImagesApart'
    BY <2>3, ImagesStayApart DEF i
  <2>7. /\ temporary \in [Pictures -> {"empty", "part", "whole", None}]
        /\ file \in [Pictures -> {"empty", "part", "whole", None}]
        /\ uploaded \subseteq Pictures
    BY DEF ImagesInv, ImagesTypeOK
  <2>8. /\ temporary' \in [Pictures -> {"empty", "part", "whole", None}]
        /\ file' \in [Pictures -> {"empty", "part", "whole", None}]
        /\ temporary'[i] = None /\ \A j \in Pictures \ {i} : temporary'[j] = temporary[j]
        /\ file'[i] = "whole" /\ \A j \in Pictures \ {i} : file'[j] = file[j]
    BY <2>2, <2>3, <2>4, <2>7
  <2>9. ImagesMade'
    BY <2>1, <2>2, <2>3, <2>5, <2>8, ImageCallsAreCalls DEF ImagesInv, ImagesMade, i
  <2>10. IsFiniteSet(Converting)' /\ PlacesReturned' /\ processing' \in 0 .. Converters
    BY <2>1, <2>2, <2>3, PlaceKept
  <2>11. ServedWhole'
    BY <2>2, <2>3, <2>7, <2>8, <2>9, ServedAlready, ServedPrimed
  <2> QED
    BY <2>2, <2>3, <2>6, <2>8, <2>9, <2>10, <2>11 DEF ImagesInv, ImagesTypeOK, ImagesPromise
<1>7. ASSUME NEW p \in Requests, Finish(p)
      PROVE  ImagesInv'
  <2> DEFINE i == req[p].id
  <2>1. p \in InFlight /\ req[p].at = "audit" /\ p \in Converting
    BY <1>7 DEF Finish, At
  <2>2. UNCHANGED <<temporary, file, cut>> /\ uploaded' = uploaded \cup {i}
    BY <1>7 DEF Finish
  <2>3. /\ HandlersIn("images", ImageCalls)' /\ service' = "images" /\ begun' = begun
        /\ InFlight' = InFlight \ {p} /\ Converting' = Converting \ {p}
        /\ \A q \in Requests \ {p} : req'[q] = req[q]
    BY <1>7, <2>1, ImageEnds DEF Finish
  <2>4. i \in Pictures /\ file[i] = "whole"
    BY <2>1, ImageCallsAreCalls DEF ImagesInv, ImagesMade
  <2>5. ImagesApart'
    BY <2>3, ImagesStayApart
  <2>6. ImagesMade'
    BY <2>1, <2>2, <2>3 DEF ImagesInv, ImagesMade
  <2>7. IsFiniteSet(Converting)' /\ PlacesReturned' /\ processing' \in 0 .. Converters
    BY <1>7, <2>1, <2>3, PlaceGivenBack DEF Finish
  <2> HIDE DEF i
  <2>8. ServedWhole'
    BY <2>2, <2>3, <2>4, <2>6, ServedAlready, ServedPrimed
  <2> QED
    BY <2>2, <2>3, <2>4, <2>5, <2>6, <2>7, <2>8 DEF ImagesInv, ImagesTypeOK, ImagesPromise
<1>8. ASSUME NEW p \in Requests, FailUpload(p)
      PROVE  ImagesInv'
  <2> DEFINE i == req[p].id
  <2>1. p \in InFlight /\ req[p].at \in {"create", "write", "rename"} /\ p \in Converting
    BY <1>8 DEF FailUpload
  <2>2. UNCHANGED <<file, uploaded, cut>> /\ temporary' = [temporary EXCEPT ![i] = None]
    BY <1>8 DEF FailUpload
  <2>3. /\ HandlersIn("images", ImageCalls)' /\ service' = "images" /\ begun' = begun
        /\ InFlight' = InFlight \ {p} /\ Converting' = Converting \ {p}
        /\ \A q \in Requests \ {p} : req'[q] = req[q]
    BY <1>8, <2>1, ImageEnds DEF FailUpload
  <2>4. i \in Pictures
    BY <2>1, ImageCallsAreCalls
  <2>5. \A q \in InFlight \ {p} : req[q].id # i
    BY <2>1 DEF ImagesInv, ImagesApart
  <2>6. ImagesApart'
    BY <2>3, ImagesStayApart
  <2> HIDE DEF i
  <2>7. temporary \in [Pictures -> {"empty", "part", "whole", None}]
    BY DEF ImagesInv, ImagesTypeOK
  <2>8. /\ temporary' \in [Pictures -> {"empty", "part", "whole", None}]
        /\ temporary'[i] = None /\ \A j \in Pictures \ {i} : temporary'[j] = temporary[j]
    BY <2>2, <2>4, <2>7
  <2>9. ImagesMade'
    BY <2>1, <2>2, <2>3, <2>5, <2>8, ImageCallsAreCalls DEF ImagesInv, ImagesMade, i
  <2>10. IsFiniteSet(Converting)' /\ PlacesReturned' /\ processing' \in 0 .. Converters
    BY <1>8, <2>1, <2>3, PlaceGivenBack DEF FailUpload
  <2>11. ServedWhole'
    BY <2>2, <2>3, <2>9, ServedAlready, ServedPrimed
  <2> QED
    BY <2>2, <2>3, <2>6, <2>8, <2>9, <2>10, <2>11 DEF ImagesInv, ImagesTypeOK, ImagesPromise
<1>9. ASSUME CrashUploads
      PROVE  ImagesInv'
  <2>1. /\ req' \in [Requests -> ImageCalls \cup {None}] /\ (\A p \in Requests : req'[p] = None)
        /\ faults' \in 0 .. MaxFaults /\ UNCHANGED <<service, begun>>
    BY <1>9, Crashed DEF CrashUploads
  <2>2. service' = "images" /\ InFlight' = {} /\ Converting' = {}
    BY <2>1 DEF InFlight, Converting, Of, ImagesInv
  <2>3. PICK partly \in SUBSET {p \in InFlight : req[p].at = "write"} :
          temporary' = [i \in Pictures |-> IF \E p \in partly : req[p].id = i THEN "part" ELSE temporary[i]]
    BY <1>9 DEF CrashUploads
  <2>4. processing' = 0 /\ cut' = cut \cup {req[p].id : p \in InFlight} /\ UNCHANGED <<file, uploaded>>
    BY <1>9 DEF CrashUploads
  <2>5. ImagesTypeOK'
    <3>1. temporary' \in [Pictures -> {"empty", "part", "whole", None}]
      BY <2>3 DEF ImagesInv, ImagesTypeOK
    <3>2. cut' \subseteq Pictures
      BY <2>4, ImageCallsAreCalls DEF ImagesInv, ImagesTypeOK
    <3> QED
      BY <2>1, <2>4, <3>1, <3>2, ImagesAssumption DEF ImagesInv, ImagesTypeOK, HandlersIn
  <2>6. IsFiniteSet(Converting)' /\ PlacesReturned'
    BY <2>2, <2>4, FS_EmptySet DEF PlacesReturned
  <2>7. ImagesMade'
    <3>1. \A i \in Pictures : temporary'[i] # None => i \in cut'
      BY <2>3, <2>4 DEF ImagesInv, ImagesMade
    <3> QED
      BY <2>2, <3>1 DEF ImagesMade
  <2>8. ServedWhole'
    BY <2>2, <2>4, <2>7, ServedAlready, ServedPrimed
  <2> QED
    BY <2>2, <2>5, <2>6, <2>7, <2>8 DEF ImagesInv, ImagesApart, ImagesPromise
<1>10. ASSUME UNCHANGED <<handlers, imageVars>>
       PROVE  ImagesInv'
  BY <1>10 DEF handlers, imageVars, ImagesInv, ImagesTypeOK, HandlersIn, InFlight, Converting, Of,
               ImagesApart, ImagesMade, ImagesPromise, PlacesReturned, ServedWhole, Served
<1> QED
  BY <1>1, <1>2, <1>3, <1>4, <1>5, <1>6, <1>7, <1>8, <1>9, <1>10 DEF ImagesNext

\* Uploads never run out of places and leave whole images, however many are made at a time and
\* whatever cuts them short (media.Store and write).
THEOREM UploadsSafe == ImagesSpec => []ImagesPromise
<1>1. ImagesSpec => []ImagesInv
  BY ImagesStart, ImagesKept, PTL DEF ImagesSpec
<1>2. ImagesInv => ImagesPromise
  BY DEF ImagesInv
<1> QED
  BY <1>1, <1>2, PTL

-----------------------------------------------------------------------------
(* The community.                                                          *)

CommunitySpec ==
  HandlersInit /\ service = "community" /\ CommunityInit /\ [][CommunityNext]_<<handlers, communityVars>>

Writing(p)   == p \in InFlight /\ req[p].at \notin {"known", "setSubscribed"}
Notifying(p) == p \in InFlight /\ req[p].at = "notify"
Untold(m)    == owed[m] = {} /\ \A a \in Participants : told[m][a] = 0
Replied(m)   == letter[m] # None /\ letter[m].parent # None /\ m \in threaded

\* Every message is written by one request, and notified of after that.
WritersApart ==
  /\ \A p \in Requests : Writing(p) => req[p].id <= begun
  /\ \A p, q \in Requests : Writing(p) /\ Writing(q) /\ req[p].id = req[q].id => p = q
  /\ \A m \in LetterIds : (m > begun => letter[m] = None) /\ (letter[m] = None => Untold(m))
  /\ \A p \in Requests : Writing(p) =>
       /\ req[p].at \in {"space", "root", "thread", "reply"} => letter[req[p].id] = None
       /\ req[p].at # "notify" => Untold(req[p].id)

\* Posts and indexed messages are stored, and who answers whom is as it should be.
LettersInPlace ==
  /\ RepliesBelong
  /\ \A m \in LetterIds : letter[m] # None /\ letter[m].parent = None => letter[m].thread = m
  /\ \A m \in threaded : letter[m] # None
  /\ \A t \in posts : t \in threaded /\ letter[t].parent = None

\* A post's or a reply's message is as its request has it, once it is stored.
WritersInOrder ==
  \A p \in InFlight :
    LET r == req[p] IN
    /\ r.at \in {"rootIndex", "post"} => letter[r.id] = [thread |-> r.id, parent |-> None, author |-> r.actor]
    /\ r.at = "post" => r.id \in threaded
    /\ r.at = "reply" => r.thread \in posts /\ IsParent(r.thread, r.parent)
    /\ r.at \in {"replyIndex", "subscribeReply", "subscribers"} =>
         letter[r.id] = [thread |-> r.thread, parent |-> r.parent, author |-> r.actor]
    /\ r.at \in {"subscribeReply", "subscribers"} => r.id \in threaded
    /\ r.at \in {"thread", "reply", "replyIndex", "subscribeReply", "subscribers"} =>
         \A a \in r.before : <<r.thread, a>> \in subscription \cup left

\* Who is to be notified of a reply is still to be notified, has been or has written it.
NotifiersInOrder ==
  /\ \A m \in LetterIds, a \in Participants :
       told[m][a] <= 1 /\ (told[m][a] > 0 => Replied(m) /\ letter[m].author # a)
  /\ \A p \in Requests : Notifying(p) =>
       LET r == req[p] IN
       /\ Replied(r.id) /\ letter[r.id].author = r.actor
       /\ \A a \in r.todo : told[r.id][a] = 0
       /\ \A a \in owed[r.id] : a \in r.todo \/ told[r.id][a] = 1 \/ a = r.actor
  /\ \A m \in LetterIds :
       (\E p \in Requests : Notifying(p) /\ req[p].id = m)
         \/ \A a \in owed[m] : told[m][a] = 1 \/ letter[m].author = a

CommunityInv ==
  /\ service = "community" /\ CommunityTypeOK
  /\ WritersApart /\ LettersInPlace /\ WritersInOrder /\ NotifiersInOrder

LEMMA CommunityCallForms ==
  ASSUME NEW c \in CommunityCalls
  PROVE  /\ c # None /\ c.actor \in Participants
         /\ c.at \in {"space", "root", "rootIndex", "post", "subscribePost", "announce", "thread", "reply",
                      "replyIndex", "subscribeReply", "subscribers", "notify", "known", "setSubscribed"}
         /\ c.at \notin {"known", "setSubscribed"} => c.id \in LetterIds
         /\ c.at \in {"thread", "reply", "replyIndex", "subscribeReply", "subscribers"} =>
              c.thread \in LetterIds /\ c.parent \in LetterIds /\ c.before \subseteq Participants
         /\ c.at = "notify" => c.todo \subseteq Participants
         /\ c.at \in {"known", "setSubscribed"} => c.thread \in LetterIds /\ c.subscribed \in BOOLEAN
<1>1. None \notin CommunityCalls
  BY CommunityAssumption
<1>2. CASE c \in [at : {"space", "root", "rootIndex", "post", "subscribePost", "announce"}, actor : Participants,
                  space : OwnerSpaces \cup OpenSpaces, id : LetterIds]
  BY <1>1, <1>2
<1>3. CASE c \in [at : {"thread", "reply", "replyIndex", "subscribeReply", "subscribers"}, actor : Participants,
                  id : LetterIds, thread : LetterIds, parent : LetterIds, before : SUBSET Participants]
  BY <1>1, <1>3
<1>4. CASE c \in [at : {"notify"}, actor : Participants, id : LetterIds, todo : SUBSET Participants]
  BY <1>1, <1>4
<1>5. CASE c \in [at : {"known", "setSubscribed"}, actor : Participants, thread : LetterIds, subscribed : BOOLEAN]
  BY <1>1, <1>5
<1> QED
  BY <1>2, <1>3, <1>4, <1>5 DEF CommunityCalls

LEMMA PostCallMoved ==
  ASSUME NEW c \in CommunityCalls,
         c.at \in {"space", "root", "rootIndex", "post", "subscribePost", "announce"},
         NEW place \in {"space", "root", "rootIndex", "post", "subscribePost", "announce"}
  PROVE  LET d == [c EXCEPT !.at = place] IN
         d \in CommunityCalls /\ d.at = place /\ d.id = c.id /\ d.actor = c.actor
<1>1. c \in [at : {"space", "root", "rootIndex", "post", "subscribePost", "announce"}, actor : Participants,
             space : OwnerSpaces \cup OpenSpaces, id : LetterIds]
  BY DEF CommunityCalls
<1> QED
  BY <1>1 DEF CommunityCalls

LEMMA ReplyCallMoved ==
  ASSUME NEW c \in CommunityCalls,
         c.at \in {"thread", "reply", "replyIndex", "subscribeReply", "subscribers"},
         NEW place \in {"thread", "reply", "replyIndex", "subscribeReply", "subscribers"}
  PROVE  LET d == [c EXCEPT !.at = place] IN
         /\ d \in CommunityCalls /\ d.at = place /\ d.id = c.id /\ d.actor = c.actor
         /\ d.thread = c.thread /\ d.parent = c.parent /\ d.before = c.before
<1>1. c \in [at : {"thread", "reply", "replyIndex", "subscribeReply", "subscribers"}, actor : Participants,
             id : LetterIds, thread : LetterIds, parent : LetterIds, before : SUBSET Participants]
  BY DEF CommunityCalls
<1> QED
  BY <1>1 DEF CommunityCalls

LEMMA NotifyCallMoved ==
  ASSUME NEW c \in CommunityCalls, c.at = "notify", NEW a
  PROVE  LET d == [c EXCEPT !.todo = @ \ {a}] IN
         d \in CommunityCalls /\ d.at = "notify" /\ d.id = c.id /\ d.actor = c.actor /\ d.todo = c.todo \ {a}
<1>1. c \in [at : {"notify"}, actor : Participants, id : LetterIds, todo : SUBSET Participants]
  BY DEF CommunityCalls
<1> QED
  BY <1>1 DEF CommunityCalls

LEMMA SubscribeCallMoved ==
  ASSUME NEW c \in CommunityCalls, c.at = "known"
  PROVE  LET d == [c EXCEPT !.at = "setSubscribed"] IN d \in CommunityCalls /\ d.at = "setSubscribed"
<1>1. c \in [at : {"known", "setSubscribed"}, actor : Participants, thread : LetterIds, subscribed : BOOLEAN]
  BY DEF CommunityCalls
<1> QED
  BY <1>1 DEF CommunityCalls

LEMMA CommunityHandlers ==
  ASSUME CommunityInv
  PROVE  /\ req \in [Requests -> CommunityCalls \cup {None}] /\ begun \in 0 .. MaxRequests /\ faults \in 0 .. MaxFaults
         /\ service \in Services
         /\ \A p \in InFlight : p \in Requests /\ req[p] \in CommunityCalls
         /\ \A p \in Requests : p \in InFlight <=> req[p] # None
BY DEF CommunityInv, CommunityTypeOK, HandlersIn, InFlight

LEMMA CommunityGoes ==
  ASSUME CommunityInv, NEW p \in Requests, NEW c \in CommunityCalls \cup {None}, Continue(p, c) \/ Fault(p, c)
  PROVE  /\ HandlersIn("community", CommunityCalls)' /\ service' = "community" /\ begun' = begun
         /\ req'[p] = c /\ (p \in InFlight' <=> c # None) /\ Others(p)
<1>1. /\ req' \in [Requests -> CommunityCalls \cup {None}] /\ Moves(p, c)
      /\ faults' \in 0 .. MaxFaults /\ UNCHANGED <<service, begun>>
  BY CommunityHandlers, Continued, Faulted
<1> QED
  BY <1>1, Moved, CommunityHandlers DEF HandlersIn, CommunityInv

LEMMA CommunityEnds ==
  ASSUME CommunityInv, NEW p \in Requests, Return(p) \/ Fault(p, None)
  PROVE  /\ HandlersIn("community", CommunityCalls)' /\ service' = "community" /\ begun' = begun
         /\ p \notin InFlight' /\ Others(p)
<1> DEFINE n == None
<1>1. n \in CommunityCalls \cup {None} /\ (Continue(p, n) \/ Fault(p, n))
  BY DEF Return
<1> QED
  BY <1>1, CommunityGoes

LEMMA CommunityBegins ==
  ASSUME CommunityInv, NEW p \in Requests, NEW c \in CommunityCalls, Begin(p, c)
  PROVE  /\ HandlersIn("community", CommunityCalls)' /\ service' = "community"
         /\ begun + 1 \in LetterIds /\ begun' = begun + 1
         /\ p \notin InFlight /\ req'[p] = c /\ p \in InFlight' /\ Others(p)
<1>1. /\ req[p] = None /\ req' \in [Requests -> CommunityCalls \cup {None}] /\ Moves(p, c)
      /\ begun + 1 \in 1 .. MaxRequests /\ begun' = begun + 1 /\ begun' \in 0 .. MaxRequests
      /\ UNCHANGED <<service, faults>>
  BY CommunityHandlers, Begun
<1>2. c # None
  BY CommunityCallForms
<1> QED
  BY <1>1, <1>2, Moved, CommunityHandlers DEF HandlersIn, CommunityInv, LetterIds

\* The same of the next state.
UntoldNext(m)  == owed'[m] = {} /\ \A a \in Participants : told'[m][a] = 0
RepliedNext(m) == letter'[m] # None /\ letter'[m].parent # None /\ m \in threaded'

LEMMA WritersStayApart ==
  ASSUME CommunityInv, NEW p \in Requests, Others(p), begun' = begun,
         Writing(p)' => Writing(p) /\ req'[p].id = req[p].id,
         \A m \in LetterIds : ~ (Writing(p) /\ m = req[p].id) =>
           letter'[m] = letter[m] /\ told'[m] = told[m] /\ owed'[m] = owed[m],
         Writing(p) => (letter'[req[p].id] = None => UntoldNext(req[p].id)),
         Writing(p)' =>
           /\ req'[p].at \in {"space", "root", "thread", "reply"} => letter'[req[p].id] = None
           /\ req'[p].at # "notify" => UntoldNext(req[p].id)
  PROVE  WritersApart'
<1>1. \A q \in Requests \ {p} :
        (Writing(q)' <=> Writing(q)) /\ req'[q] = req[q] /\ (Writing(q) => req[q].id \in LetterIds)
  BY CommunityHandlers, CommunityCallForms DEF Others, Writing
<1>2. \A q \in Requests : Writing(q)' => Writing(q) /\ req'[q].id = req[q].id
  BY <1>1
<1>3. Writing(p) => req[p].id \in LetterIds
  BY CommunityHandlers, CommunityCallForms DEF Writing
<1>4. \A m \in LetterIds : ~ (Writing(p) /\ m = req[p].id) => (Untold(m) <=> UntoldNext(m))
  BY DEF Untold, UntoldNext
<1>5. \A q \in Requests : Writing(q)' => req'[q].id <= begun'
  BY <1>2 DEF CommunityInv, WritersApart
<1>6. \A q, r \in Requests : Writing(q)' /\ Writing(r)' /\ req'[q].id = req'[r].id => q = r
  BY <1>2 DEF CommunityInv, WritersApart
<1>7. \A m \in LetterIds : (m > begun' => letter'[m] = None) /\ (letter'[m] = None => UntoldNext(m))
  <2>1. begun \in Nat
    BY CommunityHandlers
  <2>2. \A m \in LetterIds : m \in Nat
    BY DEF LetterIds
  <2> QED
    BY <1>3, <1>4, <2>1, <2>2 DEF CommunityInv, WritersApart
<1>8. \A q \in Requests : Writing(q)' =>
        /\ req'[q].at \in {"space", "root", "thread", "reply"} => letter'[req'[q].id] = None
        /\ req'[q].at # "notify" => UntoldNext(req'[q].id)
  <2> SUFFICES ASSUME NEW q \in Requests, Writing(q)'
               PROVE  /\ req'[q].at \in {"space", "root", "thread", "reply"} => letter'[req'[q].id] = None
                      /\ req'[q].at # "notify" => UntoldNext(req'[q].id)
    OBVIOUS
  <2>1. CASE q = p
    BY <2>1
  <2>2. CASE q # p
    <3>1. Writing(q) /\ req'[q] = req[q] /\ req[q].id \in LetterIds
      BY <1>1, <2>2
    <3>2. ~ (Writing(p) /\ req[q].id = req[p].id)
      BY <2>2, <3>1 DEF CommunityInv, WritersApart
    <3>3. /\ letter'[req[q].id] = letter[req[q].id] /\ told'[req[q].id] = told[req[q].id]
          /\ owed'[req[q].id] = owed[req[q].id]
      BY <3>1, <3>2
    <3>4. /\ req[q].at \in {"space", "root", "thread", "reply"} => letter[req[q].id] = None
          /\ req[q].at # "notify" => Untold(req[q].id)
      BY <3>1 DEF CommunityInv, WritersApart
    <3> QED
      BY <3>1, <3>3, <3>4 DEF Untold, UntoldNext
  <2> QED
    BY <2>1, <2>2
<1> QED
  BY <1>5, <1>6, <1>7, <1>8 DEF WritersApart, Untold, UntoldNext

\* No message, post or entry is lost, and who leaves is remembered.
NothingLost ==
  /\ \A m \in LetterIds : letter[m] # None => letter'[m] = letter[m]
  /\ threaded \subseteq threaded' /\ posts \subseteq posts'
  /\ subscription \cup left \subseteq subscription' \cup left'

\* What handler p's call finds, of WritersInOrder.
FoundBy(p) ==
  LET r == req[p] IN
  /\ r.at \in {"rootIndex", "post"} => letter[r.id] = [thread |-> r.id, parent |-> None, author |-> r.actor]
  /\ r.at = "post" => r.id \in threaded
  /\ r.at = "reply" => r.thread \in posts /\ IsParent(r.thread, r.parent)
  /\ r.at \in {"replyIndex", "subscribeReply", "subscribers"} =>
       letter[r.id] = [thread |-> r.thread, parent |-> r.parent, author |-> r.actor]
  /\ r.at \in {"subscribeReply", "subscribers"} => r.id \in threaded
  /\ r.at \in {"thread", "reply", "replyIndex", "subscribeReply", "subscribers"} =>
       \A a \in r.before : <<r.thread, a>> \in subscription \cup left

LEMMA LettersAreLetters ==
  ASSUME NEW i \in LetterIds, NEW j \in LetterIds \cup {None}, NEW a \in Participants
  PROVE  /\ [thread |-> i, parent |-> j, author |-> a] \in Letter
         /\ [thread |-> i, parent |-> j, author |-> a] # None
<1>1. None \notin Letter
  BY CommunityAssumption
<1> QED
  BY <1>1 DEF Letter

LEMMA WritersStayInOrder ==
  ASSUME CommunityInv, NEW p \in Requests, Others(p), NothingLost,
         p \in InFlight' => FoundBy(p)'
  PROVE  WritersInOrder'
<1>1. \A q \in InFlight' : FoundBy(q)'
  <2> SUFFICES ASSUME NEW q \in InFlight', q # p
               PROVE  FoundBy(q)'
    OBVIOUS
  <2>1. q \in Requests
    BY DEF InFlight
  <2>2. q \in InFlight /\ req'[q] = req[q] /\ req[q] \in CommunityCalls
    BY <2>1, CommunityHandlers DEF Others
  <2>3. FoundBy(q)
    BY <2>2 DEF CommunityInv, WritersInOrder, FoundBy
  <2>4. PICK r \in CommunityCalls : r = req[q]
    BY <2>2
  <2>5. r.at \in {"rootIndex", "post"} => letter'[r.id] = [thread |-> r.id, parent |-> None, author |-> r.actor]
    BY <2>3, <2>4, CommunityCallForms, LettersAreLetters DEF FoundBy, NothingLost
  <2>6. r.at = "reply" => r.thread \in posts' /\ IsParent(r.thread, r.parent)'
    <3> SUFFICES ASSUME r.at = "reply"
                 PROVE  r.thread \in posts' /\ IsParent(r.thread, r.parent)'
      OBVIOUS
    <3>1. r.thread \in posts /\ letter[r.parent] # None /\ letter[r.parent].thread = letter[r.thread].thread
      BY <2>3, <2>4 DEF FoundBy, IsParent
    <3>2. letter[r.thread] # None /\ r.thread \in LetterIds /\ r.parent \in LetterIds
      BY <3>1, CommunityCallForms DEF CommunityInv, LettersInPlace
    <3> QED
      BY <3>1, <3>2 DEF NothingLost, IsParent
  <2>7. r.at \in {"replyIndex", "subscribeReply", "subscribers"} =>
          letter'[r.id] = [thread |-> r.thread, parent |-> r.parent, author |-> r.actor]
    BY <2>3, <2>4, CommunityCallForms, LettersAreLetters DEF FoundBy, NothingLost
  <2>8. /\ r.at = "post" => r.id \in threaded'
        /\ r.at \in {"subscribeReply", "subscribers"} => r.id \in threaded'
        /\ r.at \in {"thread", "reply", "replyIndex", "subscribeReply", "subscribers"} =>
             \A a \in r.before : <<r.thread, a>> \in subscription' \cup left'
    BY <2>3, <2>4 DEF FoundBy, NothingLost
  <2> QED
    BY <2>2, <2>4, <2>5, <2>6, <2>7, <2>8 DEF FoundBy
<1> QED
  BY <1>1 DEF WritersInOrder, FoundBy

\* A step that notifies nobody.
LEMMA NotifiersStayInOrder ==
  ASSUME CommunityInv, NEW p \in Requests, Others(p), NothingLost, UNCHANGED <<told, owed>>,
         ~ Notifying(p), ~ Notifying(p)'
  PROVE  NotifiersInOrder'
<1>1. \A q \in Requests : (Notifying(q)' <=> Notifying(q)) /\ (Notifying(q) => req'[q] = req[q])
  BY DEF Notifying, Others
<1>2. \A m \in LetterIds : Replied(m) => RepliedNext(m) /\ letter'[m] = letter[m]
  BY DEF Replied, RepliedNext, NothingLost
<1>3. \A m \in LetterIds, a \in Participants :
        told'[m][a] <= 1 /\ (told'[m][a] > 0 => RepliedNext(m) /\ letter'[m].author # a)
  BY <1>2 DEF CommunityInv, NotifiersInOrder
<1>4. \A q \in Requests : Notifying(q)' =>
        LET r == req'[q] IN
        /\ RepliedNext(r.id) /\ letter'[r.id].author = r.actor
        /\ \A a \in r.todo : told'[r.id][a] = 0
        /\ \A a \in owed'[r.id] : a \in r.todo \/ told'[r.id][a] = 1 \/ a = r.actor
  <2> SUFFICES ASSUME NEW q \in Requests, Notifying(q)
               PROVE  LET r == req[q] IN
                      /\ RepliedNext(r.id) /\ letter'[r.id].author = r.actor
                      /\ \A a \in r.todo : told'[r.id][a] = 0
                      /\ \A a \in owed'[r.id] : a \in r.todo \/ told'[r.id][a] = 1 \/ a = r.actor
    BY <1>1
  <2>1. PICK r \in CommunityCalls : r = req[q] /\ r.id \in LetterIds
    BY CommunityHandlers, CommunityCallForms DEF Notifying
  <2>2. /\ Replied(r.id) /\ letter[r.id].author = r.actor
        /\ \A a \in r.todo : told[r.id][a] = 0
        /\ \A a \in owed[r.id] : a \in r.todo \/ told[r.id][a] = 1 \/ a = r.actor
    BY <2>1 DEF CommunityInv, NotifiersInOrder
  <2> QED
    BY <1>2, <2>1, <2>2
<1>5. \A m \in LetterIds :
        (\E q \in Requests : Notifying(q)' /\ req'[q].id = m)
          \/ \A a \in owed'[m] : told'[m][a] = 1 \/ letter'[m].author = a
  <2> SUFFICES ASSUME NEW m \in LetterIds, ~ \E q \in Requests : Notifying(q) /\ req[q].id = m
               PROVE  \A a \in owed[m] : told[m][a] = 1 \/ letter'[m].author = a
    BY <1>1
  <2>1. CASE letter[m] = None
    BY <2>1 DEF CommunityInv, WritersApart, Untold
  <2>2. CASE letter[m] # None
    BY <2>2 DEF CommunityInv, NotifiersInOrder, NothingLost
  <2> QED
    BY <2>1, <2>2
<1> QED
  BY <1>3, <1>4, <1>5 DEF NotifiersInOrder, Replied, RepliedNext

\* A step that stores messages, posts or subscriptions, and notifies nobody.
LEMMA CommunityStored ==
  ASSUME CommunityInv, NEW p \in Requests, Others(p), begun' = begun,
         CommunityTypeOK', service' = "community", LettersInPlace', NothingLost, UNCHANGED <<told, owed>>,
         ~ Notifying(p), ~ Notifying(p)', p \in InFlight' => FoundBy(p)',
         Writing(p)' => Writing(p) /\ req'[p].id = req[p].id,
         \A m \in LetterIds : ~ (Writing(p) /\ m = req[p].id) => letter'[m] = letter[m],
         Writing(p)' => (req'[p].at \in {"space", "root", "thread", "reply"} => letter'[req[p].id] = None)
  PROVE  CommunityInv'
<1>1. Writing(p) => req[p].id \in LetterIds /\ UntoldNext(req[p].id)
  <2> SUFFICES ASSUME Writing(p)
               PROVE  req[p].id \in LetterIds /\ UntoldNext(req[p].id)
    OBVIOUS
  <2>1. req[p].id \in LetterIds
    BY CommunityHandlers, CommunityCallForms DEF Writing
  <2>2. Untold(req[p].id)
    BY DEF CommunityInv, WritersApart, Notifying, Writing
  <2> QED
    BY <2>1, <2>2 DEF Untold, UntoldNext
<1>2. WritersApart'
  BY <1>1, WritersStayApart
<1>3. WritersInOrder'
  BY WritersStayInOrder
<1>4. NotifiersInOrder'
  BY NotifiersStayInOrder
<1> QED
  BY <1>2, <1>3, <1>4 DEF CommunityInv

LEMMA CommunityQuiet ==
  ASSUME CommunityInv, NEW p \in Requests, Others(p), begun' = begun, UNCHANGED communityVars,
         HandlersIn("community", CommunityCalls)', service' = "community",
         ~ Notifying(p), ~ Notifying(p)', p \in InFlight' => FoundBy(p)',
         Writing(p)' =>
           /\ Writing(p) /\ req'[p].id = req[p].id
           /\ req'[p].at \in {"space", "root", "thread", "reply"} => req[p].at \in {"space", "root", "thread", "reply"}
  PROVE  CommunityInv'
<1>1. CommunityTypeOK'
  BY DEF CommunityInv, CommunityTypeOK, communityVars
<1>2. LettersInPlace'
  BY DEF CommunityInv, LettersInPlace, RepliesBelong, communityVars
<1>3. NothingLost
  BY DEF NothingLost, communityVars
<1>4. Writing(p)' => (req'[p].at \in {"space", "root", "thread", "reply"} => letter'[req[p].id] = None)
  BY DEF CommunityInv, WritersApart, communityVars
<1> QED
  BY <1>1, <1>2, <1>3, <1>4, CommunityStored DEF communityVars

\* The start of a request.
LEMMA CommunityBeginQuiet ==
  ASSUME CommunityInv, NEW p \in Requests, NEW c \in CommunityCalls, Begin(p, c), UNCHANGED communityVars,
         \/ c.at = "known"
         \/ c.at = "space" /\ c.id = begun + 1
         \/ /\ c.at = "thread" /\ c.id = begun + 1
            /\ \A a \in c.before : <<c.thread, a>> \in subscription
  PROVE  CommunityInv'
<1>1. /\ HandlersIn("community", CommunityCalls)' /\ service' = "community"
      /\ begun + 1 \in LetterIds /\ begun' = begun + 1
      /\ p \notin InFlight /\ req'[p] = c /\ p \in InFlight' /\ Others(p)
  BY CommunityBegins
<1>2. UNCHANGED <<letter, threaded, posts, subscription, left, told, owed>>
  BY DEF communityVars
<1>3. begun \in Nat /\ \A m \in LetterIds : m \in Nat
  BY CommunityHandlers DEF LetterIds
<1>4. CommunityTypeOK'
  BY <1>1, <1>2 DEF CommunityInv, CommunityTypeOK
<1>5. LettersInPlace'
  BY <1>2 DEF CommunityInv, LettersInPlace, RepliesBelong
<1>6. NothingLost
  BY <1>2 DEF NothingLost
<1>7. FoundBy(p)'
  BY <1>1, <1>2 DEF FoundBy
<1>8. WritersInOrder'
  BY <1>1, <1>6, <1>7, WritersStayInOrder
<1>9. ~ Notifying(p) /\ ~ Notifying(p)'
  BY <1>1 DEF Notifying
<1>10. NotifiersInOrder'
  BY <1>1, <1>2, <1>6, <1>9, NotifiersStayInOrder
<1>11. WritersApart'
  <2>1. \A q \in Requests \ {p} : Writing(q)' =>
          Writing(q) /\ req'[q] = req[q] /\ req[q].id \in LetterIds /\ req[q].id <= begun
    <3>1. \A q \in Requests \ {p} : Writing(q)' => Writing(q) /\ req'[q] = req[q] /\ req[q].id \in LetterIds
      BY <1>1, CommunityHandlers, CommunityCallForms DEF Writing, Others
    <3> QED
      BY <3>1 DEF CommunityInv, WritersApart
  <2>2. Writing(p)' => req'[p].id = begun + 1
    BY <1>1 DEF Writing
  <2>3. letter[begun + 1] = None /\ Untold(begun + 1)
    BY <1>1, <1>3 DEF CommunityInv, WritersApart
  <2>4. \A q \in Requests : Writing(q)' => req'[q].id <= begun'
    BY <1>1, <1>3, <2>1, <2>2
  <2>5. \A q, r \in Requests : Writing(q)' /\ Writing(r)' /\ req'[q].id = req'[r].id => q = r
    BY <1>3, <2>1, <2>2 DEF CommunityInv, WritersApart
  <2>6. \A m \in LetterIds : (m > begun' => letter'[m] = None) /\ (letter'[m] = None => UntoldNext(m))
    BY <1>1, <1>2, <1>3 DEF CommunityInv, WritersApart, Untold, UntoldNext
  <2>7. \A q \in Requests : Writing(q)' =>
          /\ req'[q].at \in {"space", "root", "thread", "reply"} => letter'[req'[q].id] = None
          /\ req'[q].at # "notify" => UntoldNext(req'[q].id)
    BY <1>2, <2>1, <2>2, <2>3 DEF CommunityInv, WritersApart, Untold, UntoldNext
  <2> QED
    BY <2>4, <2>5, <2>6, <2>7 DEF WritersApart, Untold, UntoldNext
<1> QED
  BY <1>1, <1>4, <1>5, <1>8, <1>10, <1>11 DEF CommunityInv

LEMMA CommunityRequested ==
  ASSUME CommunityInv, NEW p \in Requests, NEW a \in Participants,
         \/ \E space \in OwnerSpaces \cup OpenSpaces : CreatePost(p, a, space)
         \/ \E t \in LetterIds, m \in LetterIds : AddReply(p, a, t, m)
         \/ \E t \in LetterIds, subscribed \in BOOLEAN : SubscribeThread(p, a, t, subscribed)
  PROVE  CommunityInv'
<1>1. ASSUME NEW space \in OwnerSpaces \cup OpenSpaces, CreatePost(p, a, space)
      PROVE  CommunityInv'
  <2>1. PICK c : c = [at |-> "space", actor |-> a, space |-> space, id |-> begun + 1]
    OBVIOUS
  <2>2. Begin(p, c) /\ UNCHANGED communityVars
    BY <1>1, <2>1 DEF CreatePost
  <2>3. begun + 1 \in LetterIds
    BY <2>2, HandlersAssumption, CommunityHandlers DEF Begin, LetterIds
  <2>4. c \in CommunityCalls /\ c.at = "space" /\ c.id = begun + 1
    BY <2>1, <2>3 DEF CommunityCalls
  <2> QED
    BY <2>2, <2>4, CommunityBeginQuiet
<1>2. ASSUME NEW t \in LetterIds, NEW m \in LetterIds, AddReply(p, a, t, m)
      PROVE  CommunityInv'
  <2>1. PICK c : c = [at |-> "thread", actor |-> a, id |-> begun + 1, thread |-> t, parent |-> m,
                      before |-> {b \in Participants : <<t, b>> \in subscription}]
    OBVIOUS
  <2>2. Begin(p, c) /\ UNCHANGED communityVars
    BY <1>2, <2>1 DEF AddReply
  <2>3. begun + 1 \in LetterIds
    BY <2>2, HandlersAssumption, CommunityHandlers DEF Begin, LetterIds
  <2>4. c \in [at : {"thread", "reply", "replyIndex", "subscribeReply", "subscribers"}, actor : Participants,
               id : LetterIds, thread : LetterIds, parent : LetterIds, before : SUBSET Participants]
    BY <2>1, <2>3
  <2>5. /\ c \in CommunityCalls /\ c.at = "thread" /\ c.id = begun + 1
        /\ \A b \in c.before : <<c.thread, b>> \in subscription
    BY <2>1, <2>4 DEF CommunityCalls
  <2> QED
    BY <2>2, <2>5, CommunityBeginQuiet
<1>3. ASSUME NEW t \in LetterIds, NEW subscribed \in BOOLEAN, SubscribeThread(p, a, t, subscribed)
      PROVE  CommunityInv'
  <2>1. PICK c : c = [at |-> "known", actor |-> a, thread |-> t, subscribed |-> subscribed]
    OBVIOUS
  <2>2. c \in CommunityCalls /\ c.at = "known"
    BY <2>1 DEF CommunityCalls
  <2> QED
    BY <1>3, <2>1, <2>2, CommunityBeginQuiet DEF SubscribeThread
<1> QED
  BY <1>1, <1>2, <1>3

\* The calls that store nothing.
LEMMA CommunityLooked ==
  ASSUME CommunityInv, NEW p \in Requests,
         CheckSpace(p) \/ AnnouncePost(p) \/ LoadThread(p) \/ FindThread(p) \/ FailCommunityCall(p)
  PROVE  CommunityInv'
<1>1. PICK r \in CommunityCalls : r = req[p] /\ p \in InFlight
  BY CommunityHandlers DEF CheckSpace, AnnouncePost, LoadThread, FindThread, FailCommunityCall, At
<1>2. UNCHANGED communityVars /\ r.at # "notify" /\ ~ Notifying(p)
  BY <1>1 DEF CheckSpace, AnnouncePost, LoadThread, FindThread, FailCommunityCall, At, Notifying
<1>3. CASE Return(p) \/ Fault(p, None)
  <2>1. /\ HandlersIn("community", CommunityCalls)' /\ service' = "community" /\ begun' = begun
        /\ p \notin InFlight' /\ Others(p)
    BY <1>3, CommunityEnds
  <2> QED
    BY <1>2, <2>1, CommunityQuiet DEF Notifying, Writing
<1>4. CASE r.at = "space" /\ Goto(p, "root")
  <2>1. PICK c \in CommunityCalls : c = [r EXCEPT !.at = "root"] /\ c.at = "root" /\ c.id = r.id
    BY <1>4, PostCallMoved, ZenonT(60)
  <2>2. Continue(p, c)
    BY <1>1, <1>4, <2>1 DEF Goto
  <2>3. /\ HandlersIn("community", CommunityCalls)' /\ service' = "community" /\ begun' = begun
        /\ req'[p] = c /\ Others(p)
    BY <2>2, CommunityGoes
  <2> QED
    BY <1>1, <1>2, <1>4, <2>1, <2>3, CommunityQuiet DEF Notifying, Writing, FoundBy
<1>5. CASE /\ r.at = "thread" /\ Goto(p, "reply")
           /\ r.thread \in posts /\ IsParent(r.thread, r.parent)
  <2>1. PICK c \in CommunityCalls :
          /\ c = [r EXCEPT !.at = "reply"] /\ c.at = "reply" /\ c.id = r.id
          /\ c.thread = r.thread /\ c.parent = r.parent /\ c.before = r.before
    BY <1>5, ReplyCallMoved, ZenonT(60)
  <2>2. Continue(p, c)
    BY <1>1, <1>5, <2>1 DEF Goto
  <2>3. /\ HandlersIn("community", CommunityCalls)' /\ service' = "community" /\ begun' = begun
        /\ req'[p] = c /\ Others(p)
    BY <2>2, CommunityGoes
  <2>4. \A a \in r.before : <<r.thread, a>> \in subscription \cup left
    BY <1>1, <1>5 DEF CommunityInv, WritersInOrder
  <2>5. FoundBy(p)'
    BY <1>2, <1>5, <2>1, <2>3, <2>4 DEF FoundBy, IsParent, communityVars
  <2> QED
    BY <1>1, <1>2, <1>5, <2>1, <2>3, <2>5, CommunityQuiet DEF Notifying, Writing
<1>6. CASE r.at = "known" /\ Goto(p, "setSubscribed")
  <2>1. PICK c \in CommunityCalls : c = [r EXCEPT !.at = "setSubscribed"] /\ c.at = "setSubscribed"
    BY <1>6, SubscribeCallMoved
  <2>2. Continue(p, c)
    BY <1>1, <1>6, <2>1 DEF Goto
  <2>3. /\ HandlersIn("community", CommunityCalls)' /\ service' = "community" /\ begun' = begun
        /\ req'[p] = c /\ Others(p)
    BY <2>2, CommunityGoes
  <2> QED
    BY <1>1, <1>2, <1>6, <2>1, <2>3, CommunityQuiet DEF Notifying, Writing, FoundBy
<1> QED
  BY <1>1, <1>3, <1>4, <1>5, <1>6 DEF CheckSpace, AnnouncePost, LoadThread, FindThread, FailCommunityCall, At

\* A post's message, its index entry, the post and the author's subscription are stored.
LEMMA PostMade ==
  ASSUME CommunityInv, NEW p \in Requests,
         StoreRoot(p) \/ IndexRoot(p) \/ StorePost(p) \/ SubscribeAuthor(p)
  PROVE  CommunityInv'
<1>1. PICK r \in CommunityCalls :
        r = req[p] /\ p \in InFlight /\ r.at \in {"root", "rootIndex", "post", "subscribePost"}
  BY CommunityHandlers DEF StoreRoot, IndexRoot, StorePost, SubscribeAuthor, At
<1>2. r.id \in LetterIds /\ r.actor \in Participants
  BY <1>1, CommunityCallForms
<1>3. PICK next \in {"rootIndex", "post", "subscribePost", "announce"} :
        /\ Goto(p, next)
        /\ next = CASE r.at = "root" -> "rootIndex" [] r.at = "rootIndex" -> "post"
                    [] r.at = "post" -> "subscribePost" [] r.at = "subscribePost" -> "announce"
  BY <1>1 DEF StoreRoot, IndexRoot, StorePost, SubscribeAuthor, At
<1>4. PICK c \in CommunityCalls :
        c = [r EXCEPT !.at = next] /\ c.at = next /\ c.id = r.id /\ c.actor = r.actor /\ c # None
  <2>1. PICK c : c = [r EXCEPT !.at = next]
    OBVIOUS
  <2>2. /\ r.at \in {"space", "root", "rootIndex", "post", "subscribePost", "announce"}
        /\ next \in {"space", "root", "rootIndex", "post", "subscribePost", "announce"}
    BY <1>1
  <2>3. c \in CommunityCalls /\ c.at = next /\ c.id = r.id /\ c.actor = r.actor
    BY <2>1, <2>2, PostCallMoved
  <2> QED
    BY <2>1, <2>3, CommunityCallForms
<1>5. Continue(p, c)
  BY <1>1, <1>3, <1>4 DEF Goto
<1>6. /\ HandlersIn("community", CommunityCalls)' /\ service' = "community" /\ begun' = begun
      /\ req'[p] = c /\ p \in InFlight' /\ Others(p)
  BY <1>4, <1>5, CommunityGoes
<1>7. ~ Notifying(p) /\ ~ Notifying(p)' /\ Writing(p) /\ req'[p].id = req[p].id
  BY <1>1, <1>3, <1>4, <1>6 DEF Notifying, Writing
<1>8. FoundBy(p) /\ LettersInPlace /\ CommunityTypeOK
  BY <1>1 DEF CommunityInv, WritersInOrder, FoundBy
<1>9. PICK root : root = [thread |-> r.id, parent |-> None, author |-> r.actor]
  OBVIOUS
<1>10. root \in Letter /\ root # None /\ root.thread = r.id /\ root.parent = None
  BY <1>2, <1>9, LettersAreLetters
<1>11. CASE r.at = "root"
  <2>1. /\ letter' = [letter EXCEPT ![r.id] = root] /\ next = "rootIndex"
        /\ UNCHANGED <<threaded, posts, subscription, left, told, owed>>
    BY <1>1, <1>3, <1>9, <1>11 DEF StoreRoot, IndexRoot, StorePost, SubscribeAuthor, At
  <2>2. letter[r.id] = None
    BY <1>1, <1>7, <1>11 DEF CommunityInv, WritersApart
  <2>3. letter \in [LetterIds -> Letter \cup {None}]
    BY <1>8 DEF CommunityTypeOK
  <2>4. /\ letter' \in [LetterIds -> Letter \cup {None}] /\ letter'[r.id] = root
        /\ \A m \in LetterIds \ {r.id} : letter'[m] = letter[m]
    BY <1>2, <1>10, <2>1, <2>3
  <2>5. CommunityTypeOK'
    BY <1>6, <1>8, <2>1, <2>4 DEF CommunityTypeOK
  <2>6. NothingLost
    BY <2>1, <2>2, <2>4 DEF NothingLost
  <2>7. \A m \in LetterIds : letter[m] # None => letter'[m] = letter[m]
    BY <2>6 DEF NothingLost
  <2>8. LettersInPlace'
    <3>1. RepliesBelong'
      <4> SUFFICES ASSUME NEW m \in LetterIds, letter'[m] # None, letter'[m].parent # None
                   PROVE  /\ letter'[letter'[m].parent] # None
                          /\ letter'[letter'[m].parent].thread = letter'[m].thread
                          /\ letter'[m].thread \in posts'
        BY DEF RepliesBelong
      <4>1. m # r.id /\ letter'[m] = letter[m]
        BY <1>10, <2>4
      <4>2. /\ letter[letter[m].parent] # None
            /\ letter[letter[m].parent].thread = letter[m].thread
            /\ letter[m].thread \in posts
        BY <1>8, <4>1 DEF LettersInPlace, RepliesBelong
      <4>3. letter[m].parent \in LetterIds
        BY <2>3, <4>1 DEF Letter
      <4> QED
        BY <2>1, <2>7, <4>1, <4>2, <4>3
    <3>2. \A m \in LetterIds : letter'[m] # None /\ letter'[m].parent = None => letter'[m].thread = m
      BY <1>8, <1>10, <2>4 DEF LettersInPlace
    <3>3. threaded \subseteq LetterIds /\ posts \subseteq LetterIds
      BY <1>8 DEF CommunityTypeOK
    <3>4. /\ \A m \in threaded' : letter'[m] # None
          /\ \A t \in posts' : t \in threaded' /\ letter'[t].parent = None
      BY <1>8, <2>1, <2>7, <3>3 DEF LettersInPlace
    <3> QED
      BY <3>1, <3>2, <3>4 DEF LettersInPlace
  <2>9. FoundBy(p)'
    BY <1>4, <1>6, <1>9, <2>1, <2>4 DEF FoundBy
  <2> QED
    BY <1>1, <1>4, <1>6, <1>7, <2>1, <2>4, <2>5, <2>6, <2>8, <2>9, CommunityStored
<1>12. CASE r.at = "rootIndex"
  <2>1. /\ threaded' = threaded \cup {r.id} /\ next = "post"
        /\ UNCHANGED <<letter, posts, subscription, left, told, owed>>
    BY <1>1, <1>3, <1>12 DEF StoreRoot, IndexRoot, StorePost, SubscribeAuthor, At
  <2>2. letter[r.id] = root
    BY <1>1, <1>8, <1>9, <1>12 DEF FoundBy
  <2>3. CommunityTypeOK'
    BY <1>2, <1>6, <1>8, <2>1 DEF CommunityTypeOK
  <2>4. NothingLost
    BY <2>1 DEF NothingLost
  <2>5. LettersInPlace'
    BY <1>8, <1>10, <2>1, <2>2 DEF LettersInPlace, RepliesBelong
  <2>6. FoundBy(p)'
    BY <1>4, <1>6, <1>9, <2>1, <2>2 DEF FoundBy
  <2> QED
    BY <1>1, <1>4, <1>6, <1>7, <2>1, <2>3, <2>4, <2>5, <2>6, CommunityStored
<1>13. CASE r.at = "post"
  <2>1. /\ posts' = posts \cup {r.id} /\ next = "subscribePost"
        /\ UNCHANGED <<letter, threaded, subscription, left, told, owed>>
    BY <1>1, <1>3, <1>13 DEF StoreRoot, IndexRoot, StorePost, SubscribeAuthor, At
  <2>2. letter[r.id] = root /\ r.id \in threaded
    BY <1>1, <1>8, <1>9, <1>13 DEF FoundBy
  <2>3. CommunityTypeOK'
    BY <1>2, <1>6, <1>8, <2>1 DEF CommunityTypeOK
  <2>4. NothingLost
    BY <2>1 DEF NothingLost
  <2>5. LettersInPlace'
    BY <1>8, <1>10, <2>1, <2>2 DEF LettersInPlace, RepliesBelong
  <2>6. FoundBy(p)'
    BY <1>4, <1>6, <2>1 DEF FoundBy
  <2> QED
    BY <1>1, <1>4, <1>6, <1>7, <2>1, <2>3, <2>4, <2>5, <2>6, CommunityStored
<1>14. CASE r.at = "subscribePost"
  <2>1. /\ subscription' = subscription \cup {<<r.id, r.actor>>} /\ next = "announce"
        /\ UNCHANGED <<letter, threaded, posts, left, told, owed>>
    BY <1>1, <1>3, <1>14 DEF StoreRoot, IndexRoot, StorePost, SubscribeAuthor, At
  <2>2. CommunityTypeOK'
    BY <1>2, <1>6, <1>8, <2>1 DEF CommunityTypeOK, Subscribing
  <2>3. NothingLost
    BY <2>1 DEF NothingLost
  <2>4. LettersInPlace'
    BY <1>8, <2>1 DEF LettersInPlace, RepliesBelong
  <2>5. FoundBy(p)'
    BY <1>4, <1>6, <2>1 DEF FoundBy
  <2> QED
    BY <1>1, <1>4, <1>6, <1>7, <2>1, <2>2, <2>3, <2>4, <2>5, CommunityStored
<1> QED
  BY <1>1, <1>11, <1>12, <1>13, <1>14

\* A reply's message, its index entry and the author's subscription are stored.
LEMMA ReplyMade ==
  ASSUME CommunityInv, NEW p \in Requests,
         StoreReply(p) \/ IndexReply(p) \/ SubscribeReplier(p)
  PROVE  CommunityInv'
<1>1. PICK r \in CommunityCalls :
        r = req[p] /\ p \in InFlight /\ r.at \in {"reply", "replyIndex", "subscribeReply"}
  BY CommunityHandlers DEF StoreReply, IndexReply, SubscribeReplier, At
<1>2. r.id \in LetterIds /\ r.actor \in Participants /\ r.thread \in LetterIds /\ r.parent \in LetterIds
  BY <1>1, CommunityCallForms
<1>3. PICK next \in {"replyIndex", "subscribeReply", "subscribers"} :
        /\ Goto(p, next)
        /\ next = CASE r.at = "reply" -> "replyIndex" [] r.at = "replyIndex" -> "subscribeReply"
                    [] r.at = "subscribeReply" -> "subscribers"
  BY <1>1 DEF StoreReply, IndexReply, SubscribeReplier, At
<1>4. PICK c \in CommunityCalls :
        /\ c = [r EXCEPT !.at = next] /\ c.at = next /\ c.id = r.id /\ c.actor = r.actor
        /\ c.thread = r.thread /\ c.parent = r.parent /\ c.before = r.before /\ c # None
  <2>1. PICK c : c = [r EXCEPT !.at = next]
    OBVIOUS
  <2>2. /\ r.at \in {"thread", "reply", "replyIndex", "subscribeReply", "subscribers"}
        /\ next \in {"thread", "reply", "replyIndex", "subscribeReply", "subscribers"}
    BY <1>1
  <2>3. /\ c \in CommunityCalls /\ c.at = next /\ c.id = r.id /\ c.actor = r.actor
        /\ c.thread = r.thread /\ c.parent = r.parent /\ c.before = r.before
    BY <2>1, <2>2, ReplyCallMoved, ZenonT(60)
  <2> QED
    BY <2>1, <2>3, CommunityCallForms
<1>5. Continue(p, c)
  BY <1>1, <1>3, <1>4 DEF Goto
<1>6. /\ HandlersIn("community", CommunityCalls)' /\ service' = "community" /\ begun' = begun
      /\ req'[p] = c /\ p \in InFlight' /\ Others(p)
  BY <1>4, <1>5, CommunityGoes
<1>7. ~ Notifying(p) /\ ~ Notifying(p)' /\ Writing(p) /\ req'[p].id = req[p].id
  BY <1>1, <1>3, <1>4, <1>6 DEF Notifying, Writing
<1>8. FoundBy(p) /\ LettersInPlace /\ CommunityTypeOK
  BY <1>1 DEF CommunityInv, WritersInOrder, FoundBy
<1>9. \A a \in r.before : <<r.thread, a>> \in subscription \cup left
  BY <1>1, <1>8 DEF FoundBy
<1>10. PICK reply : reply = [thread |-> r.thread, parent |-> r.parent, author |-> r.actor]
  OBVIOUS
<1>11. reply \in Letter /\ reply # None /\ reply.thread = r.thread /\ reply.parent = r.parent /\ r.parent # None
  <2>1. r.parent # None
    BY <1>2, CommunityAssumption
  <2> QED
    BY <1>2, <1>10, <2>1, LettersAreLetters
<1>12. CASE r.at = "reply"
  <2>1. /\ letter' = [letter EXCEPT ![r.id] = reply] /\ next = "replyIndex"
        /\ UNCHANGED <<threaded, posts, subscription, left, told, owed>>
    BY <1>1, <1>3, <1>10, <1>12 DEF StoreReply, IndexReply, SubscribeReplier, At
  <2>2. letter[r.id] = None
    BY <1>1, <1>7, <1>12 DEF CommunityInv, WritersApart
  <2>3. letter \in [LetterIds -> Letter \cup {None}]
    BY <1>8 DEF CommunityTypeOK
  <2>4. /\ letter' \in [LetterIds -> Letter \cup {None}] /\ letter'[r.id] = reply
        /\ \A m \in LetterIds \ {r.id} : letter'[m] = letter[m]
    BY <1>2, <1>11, <2>1, <2>3
  <2>5. CommunityTypeOK'
    BY <1>6, <1>8, <2>1, <2>4 DEF CommunityTypeOK
  <2>6. NothingLost
    BY <2>1, <2>2, <2>4 DEF NothingLost
  <2>7. \A m \in LetterIds : letter[m] # None => letter'[m] = letter[m]
    BY <2>6 DEF NothingLost
  <2>8. /\ r.thread \in posts /\ letter[r.thread] # None /\ letter[r.thread].thread = r.thread
        /\ letter[r.parent] # None /\ letter[r.parent].thread = r.thread
    <3>1. r.thread \in posts /\ letter[r.parent] # None /\ letter[r.parent].thread = letter[r.thread].thread
      BY <1>1, <1>8, <1>12 DEF FoundBy, IsParent
    <3>2. letter[r.thread] # None /\ letter[r.thread].thread = r.thread
      BY <1>2, <1>8, <3>1 DEF LettersInPlace
    <3> QED
      BY <3>1, <3>2
  <2>9. LettersInPlace'
    <3>1. RepliesBelong'
      <4> SUFFICES ASSUME NEW m \in LetterIds, letter'[m] # None, letter'[m].parent # None
                   PROVE  /\ letter'[letter'[m].parent] # None
                          /\ letter'[letter'[m].parent].thread = letter'[m].thread
                          /\ letter'[m].thread \in posts'
        BY DEF RepliesBelong
      <4>1. CASE m = r.id
        BY <1>2, <1>11, <2>1, <2>4, <2>7, <2>8, <4>1
      <4>2. CASE m # r.id
        <5>1. letter'[m] = letter[m]
          BY <2>4, <4>2
        <5>2. /\ letter[letter[m].parent] # None
              /\ letter[letter[m].parent].thread = letter[m].thread
              /\ letter[m].thread \in posts
          BY <1>8, <5>1 DEF LettersInPlace, RepliesBelong
        <5>3. letter[m].parent \in LetterIds
          BY <2>3, <5>1 DEF Letter
        <5> QED
          BY <2>1, <2>7, <5>1, <5>2, <5>3
      <4> QED
        BY <4>1, <4>2
    <3>2. \A m \in LetterIds : letter'[m] # None /\ letter'[m].parent = None => letter'[m].thread = m
      BY <1>8, <1>11, <2>4 DEF LettersInPlace
    <3>3. threaded \subseteq LetterIds /\ posts \subseteq LetterIds
      BY <1>8 DEF CommunityTypeOK
    <3>4. /\ \A m \in threaded' : letter'[m] # None
          /\ \A t \in posts' : t \in threaded' /\ letter'[t].parent = None
      BY <1>8, <2>1, <2>7, <3>3 DEF LettersInPlace
    <3> QED
      BY <3>1, <3>2, <3>4 DEF LettersInPlace
  <2>10. FoundBy(p)'
    BY <1>4, <1>6, <1>9, <1>10, <2>1, <2>4 DEF FoundBy
  <2> QED
    BY <1>1, <1>4, <1>6, <1>7, <2>1, <2>4, <2>5, <2>6, <2>9, <2>10, CommunityStored
<1>13. CASE r.at = "replyIndex"
  <2>1. /\ threaded' = threaded \cup {r.id} /\ next = "subscribeReply"
        /\ UNCHANGED <<letter, posts, subscription, left, told, owed>>
    BY <1>1, <1>3, <1>13 DEF StoreReply, IndexReply, SubscribeReplier, At
  <2>2. letter[r.id] = reply
    BY <1>1, <1>8, <1>10, <1>13 DEF FoundBy
  <2>3. CommunityTypeOK'
    BY <1>2, <1>6, <1>8, <2>1 DEF CommunityTypeOK
  <2>4. NothingLost
    BY <2>1 DEF NothingLost
  <2>5. LettersInPlace'
    BY <1>8, <1>11, <2>1, <2>2 DEF LettersInPlace, RepliesBelong
  <2>6. FoundBy(p)'
    BY <1>4, <1>6, <1>9, <1>10, <2>1, <2>2 DEF FoundBy
  <2> QED
    BY <1>1, <1>4, <1>6, <1>7, <2>1, <2>3, <2>4, <2>5, <2>6, CommunityStored
<1>14. CASE r.at = "subscribeReply"
  <2>1. /\ subscription' = subscription \cup {<<r.thread, r.actor>>} /\ next = "subscribers"
        /\ UNCHANGED <<letter, threaded, posts, left, told, owed>>
    BY <1>1, <1>3, <1>14 DEF StoreReply, IndexReply, SubscribeReplier, At
  <2>2. letter[r.id] = reply /\ r.id \in threaded
    BY <1>1, <1>8, <1>10, <1>14 DEF FoundBy
  <2>3. CommunityTypeOK'
    BY <1>2, <1>6, <1>8, <2>1 DEF CommunityTypeOK, Subscribing
  <2>4. NothingLost
    BY <2>1 DEF NothingLost
  <2>5. LettersInPlace'
    BY <1>8, <2>1 DEF LettersInPlace, RepliesBelong
  <2>6. FoundBy(p)'
    BY <1>4, <1>6, <1>9, <1>10, <2>1, <2>2 DEF FoundBy
  <2> QED
    BY <1>1, <1>4, <1>6, <1>7, <2>1, <2>3, <2>4, <2>5, <2>6, CommunityStored
<1> QED
  BY <1>1, <1>12, <1>13, <1>14

LEMMA SubscriptionSet ==
  ASSUME CommunityInv, NEW p \in Requests, SetSubscribed(p)
  PROVE  CommunityInv'
<1>1. PICK r \in CommunityCalls : r = req[p] /\ p \in InFlight /\ r.at = "setSubscribed"
  BY CommunityHandlers DEF SetSubscribed, At
<1>2. r.thread \in LetterIds /\ r.actor \in Participants
  BY <1>1, CommunityCallForms
<1>3. /\ Return(p) /\ UNCHANGED <<letter, threaded, posts, told, owed>>
      /\ subscription' = IF r.subscribed THEN subscription \cup {<<r.thread, r.actor>>}
                         ELSE subscription \ {<<r.thread, r.actor>>}
      /\ left' = IF r.subscribed THEN left ELSE left \cup {<<r.thread, r.actor>>}
  BY <1>1 DEF SetSubscribed
<1>4. /\ HandlersIn("community", CommunityCalls)' /\ service' = "community" /\ begun' = begun
      /\ p \notin InFlight' /\ Others(p)
  BY <1>3, CommunityEnds
<1>5. CommunityTypeOK'
  <2>1. <<r.thread, r.actor>> \in Subscribing
    BY <1>2 DEF Subscribing
  <2> QED
    BY <1>3, <1>4, <2>1 DEF CommunityInv, CommunityTypeOK
<1>6. NothingLost
  BY <1>3 DEF NothingLost
<1>7. LettersInPlace'
  BY <1>3 DEF CommunityInv, LettersInPlace, RepliesBelong
<1> QED
  BY <1>1, <1>3, <1>4, <1>5, <1>6, <1>7, CommunityStored DEF Notifying, Writing

\* A step of a handler that notifies, after which only its own reply's notifications differ.
LEMMA NotifierStepped ==
  ASSUME CommunityInv, NEW p \in Requests, NEW i \in LetterIds, Writing(p), req[p].id = i,
         Others(p), begun' = begun, HandlersIn("community", CommunityCalls)', service' = "community",
         UNCHANGED <<letter, threaded, posts, subscription, left>>,
         told' \in [LetterIds -> [Participants -> Nat]], owed' \in [LetterIds -> SUBSET Participants],
         \A m \in LetterIds \ {i} : told'[m] = told[m] /\ owed'[m] = owed[m],
         Replied(i),
         Writing(p)' => Notifying(p)' /\ req'[p].id = i,
         p \in InFlight' => Writing(p)',
         \A a \in Participants : told'[i][a] <= 1 /\ (told'[i][a] > 0 => letter[i].author # a),
         Notifying(p)' =>
           /\ letter[i].author = req'[p].actor
           /\ \A a \in req'[p].todo : told'[i][a] = 0
           /\ \A a \in owed'[i] : a \in req'[p].todo \/ told'[i][a] = 1 \/ a = req'[p].actor,
         p \notin InFlight' => \A a \in owed'[i] : told'[i][a] = 1 \/ letter[i].author = a
  PROVE  CommunityInv'
<1>1. CommunityTypeOK'
  BY DEF CommunityInv, CommunityTypeOK
<1>2. LettersInPlace'
  BY DEF CommunityInv, LettersInPlace, RepliesBelong
<1>3. WritersApart'
  <2>1. letter[i] # None
    BY DEF Replied
  <2> QED
    BY <2>1, WritersStayApart DEF Notifying
<1>4. WritersInOrder'
  <2>1. NothingLost
    BY DEF NothingLost
  <2>2. p \in InFlight' => FoundBy(p)'
    BY DEF FoundBy, Notifying
  <2> QED
    BY <2>1, <2>2, WritersStayInOrder
<1>5. \A q \in Requests \ {p} :
        /\ Notifying(q)' <=> Notifying(q)
        /\ Notifying(q) => req'[q] = req[q] /\ req[q].id \in LetterIds /\ req[q].id # i
  <2> SUFFICES ASSUME NEW q \in Requests \ {p}
               PROVE  /\ Notifying(q)' <=> Notifying(q)
                      /\ Notifying(q) => req'[q] = req[q] /\ req[q].id \in LetterIds /\ req[q].id # i
    OBVIOUS
  <2>1. Notifying(q)' <=> Notifying(q)
    BY DEF Notifying, Others
  <2>2. Notifying(q) => req'[q] = req[q] /\ req[q].id \in LetterIds
    BY CommunityHandlers, CommunityCallForms DEF Notifying, Others
  <2>3. Notifying(q) => Writing(q)
    BY DEF Notifying, Writing
  <2> QED
    BY <2>1, <2>2, <2>3 DEF CommunityInv, WritersApart
<1>6. \A m \in LetterIds, a \in Participants :
        told'[m][a] <= 1 /\ (told'[m][a] > 0 => RepliedNext(m) /\ letter'[m].author # a)
  <2> SUFFICES ASSUME NEW m \in LetterIds, NEW a \in Participants
               PROVE  told'[m][a] <= 1 /\ (told'[m][a] > 0 => RepliedNext(m) /\ letter'[m].author # a)
    OBVIOUS
  <2>1. CASE m = i
    BY <2>1 DEF Replied, RepliedNext
  <2>2. CASE m # i
    BY <2>2 DEF CommunityInv, NotifiersInOrder, Replied, RepliedNext
  <2> QED
    BY <2>1, <2>2
<1>7. \A q \in Requests : Notifying(q)' =>
        LET r == req'[q] IN
        /\ RepliedNext(r.id) /\ letter'[r.id].author = r.actor
        /\ \A a \in r.todo : told'[r.id][a] = 0
        /\ \A a \in owed'[r.id] : a \in r.todo \/ told'[r.id][a] = 1 \/ a = r.actor
  <2> SUFFICES ASSUME NEW q \in Requests, Notifying(q)'
               PROVE  LET r == req'[q] IN
                      /\ RepliedNext(r.id) /\ letter'[r.id].author = r.actor
                      /\ \A a \in r.todo : told'[r.id][a] = 0
                      /\ \A a \in owed'[r.id] : a \in r.todo \/ told'[r.id][a] = 1 \/ a = r.actor
    OBVIOUS
  <2>1. CASE q = p
    <3>1. Writing(p)'
      BY <2>1 DEF Notifying
    <3> QED
      BY <2>1, <3>1 DEF Replied, RepliedNext
  <2>2. CASE q # p
    <3>1. Notifying(q) /\ req'[q] = req[q] /\ req[q].id \in LetterIds /\ req[q].id # i
      BY <1>5, <2>2
    <3> QED
      BY <3>1 DEF CommunityInv, NotifiersInOrder, Replied, RepliedNext
  <2> QED
    BY <2>1, <2>2
<1>8. \A m \in LetterIds :
        (\E q \in Requests : Notifying(q)' /\ req'[q].id = m)
          \/ \A a \in owed'[m] : told'[m][a] = 1 \/ letter'[m].author = a
  <2> SUFFICES ASSUME NEW m \in LetterIds, ~ \E q \in Requests : Notifying(q)' /\ req'[q].id = m
               PROVE  \A a \in owed'[m] : told'[m][a] = 1 \/ letter'[m].author = a
    OBVIOUS
  <2>1. CASE m = i
    BY <2>1 DEF Others
  <2>2. CASE m # i
    <3>1. ~ \E q \in Requests : Notifying(q) /\ req[q].id = m
      BY <1>5, <2>2
    <3> QED
      BY <2>2, <3>1 DEF CommunityInv, NotifiersInOrder
  <2> QED
    BY <2>1, <2>2
<1> QED
  BY <1>1, <1>2, <1>3, <1>4, <1>6, <1>7, <1>8 DEF CommunityInv, NotifiersInOrder, Replied, RepliedNext

LEMMA SubscribersRead ==
  ASSUME CommunityInv, NEW p \in Requests, ReadSubscribers(p)
  PROVE  CommunityInv'
<1>1. PICK r \in CommunityCalls : r = req[p] /\ p \in InFlight /\ r.at = "subscribers"
  BY CommunityHandlers DEF ReadSubscribers, At
<1>2. PICK i \in LetterIds : i = r.id
  BY <1>1, CommunityCallForms
<1>3. r.actor \in Participants /\ r.thread \in LetterIds /\ r.parent \in LetterIds /\ r.before \subseteq Participants
  BY <1>1, CommunityCallForms
<1>4. PICK c : c = [at |-> "notify", actor |-> r.actor, id |-> i, todo |-> Subscribers(r.thread)]
  OBVIOUS
<1>5. c \in CommunityCalls /\ c.at = "notify" /\ c.id = i /\ c.actor = r.actor /\ c.todo = Subscribers(r.thread)
  <2>1. Subscribers(r.thread) \in SUBSET Participants
    BY DEF Subscribers
  <2> QED
    BY <1>3, <1>4, <2>1 DEF CommunityCalls
<1>6. PICK mine : mine = {a \in r.before : <<r.thread, a>> \notin left}
  OBVIOUS
<1>7. /\ Continue(p, c) /\ owed' = [owed EXCEPT ![i] = mine]
      /\ UNCHANGED <<letter, threaded, posts, subscription, left, told>>
  BY <1>1, <1>2, <1>4, <1>6 DEF ReadSubscribers
<1>8. /\ HandlersIn("community", CommunityCalls)' /\ service' = "community" /\ begun' = begun
      /\ req'[p] = c /\ p \in InFlight' /\ Others(p)
  BY <1>5, <1>7, CommunityGoes, CommunityCallForms
<1>9. Writing(p) /\ Notifying(p)' /\ Untold(i)
  <2>1. Writing(p) /\ Notifying(p)'
    BY <1>1, <1>5, <1>8 DEF Writing, Notifying
  <2> QED
    BY <1>1, <1>2, <2>1 DEF CommunityInv, WritersApart
<1>10. /\ letter[i] = [thread |-> r.thread, parent |-> r.parent, author |-> r.actor] /\ i \in threaded
       /\ \A a \in r.before : <<r.thread, a>> \in subscription \cup left
  BY <1>1, <1>2 DEF CommunityInv, WritersInOrder
<1>11. Replied(i) /\ letter[i].author = r.actor
  <2>1. r.parent # None
    BY <1>3, CommunityAssumption
  <2> QED
    BY <1>2, <1>3, <1>10, <2>1, LettersAreLetters DEF Replied
<1>12. told \in [LetterIds -> [Participants -> Nat]] /\ owed \in [LetterIds -> SUBSET Participants]
  BY DEF CommunityInv, CommunityTypeOK
<1>13. /\ owed' \in [LetterIds -> SUBSET Participants] /\ owed'[i] = mine
       /\ \A m \in LetterIds \ {i} : owed'[m] = owed[m]
  BY <1>3, <1>6, <1>7, <1>12
<1>14. \A a \in mine : a \in Subscribers(r.thread)
  BY <1>3, <1>6, <1>10 DEF Subscribers
<1>15. \A a \in Participants : told'[i][a] = 0
  BY <1>7, <1>9 DEF Untold
<1>16. \A a \in req'[p].todo : told'[i][a] = 0
  BY <1>5, <1>8, <1>15 DEF Subscribers
<1> QED
  BY <1>1, <1>2, <1>5, <1>7, <1>8, <1>9, <1>11, <1>12, <1>13, <1>14, <1>15, <1>16, NotifierStepped DEF Writing

LEMMA SubscriberNotified ==
  ASSUME CommunityInv, NEW p \in Requests, NotifySubscriber(p)
  PROVE  CommunityInv'
<1>1. PICK r \in CommunityCalls : r = req[p] /\ p \in InFlight /\ r.at = "notify"
  BY CommunityHandlers DEF NotifySubscriber, At
<1>2. PICK i \in LetterIds : i = r.id
  BY <1>1, CommunityCallForms
<1>3. r.actor \in Participants /\ r.todo \subseteq Participants
  BY <1>1, CommunityCallForms
<1>4. Writing(p) /\ Notifying(p)
  BY <1>1 DEF Writing, Notifying
<1>5. /\ Replied(i) /\ letter[i].author = r.actor
      /\ \A a \in r.todo : told[i][a] = 0
      /\ \A a \in owed[i] : a \in r.todo \/ told[i][a] = 1 \/ a = r.actor
      /\ \A a \in Participants : told[i][a] <= 1 /\ (told[i][a] > 0 => letter[i].author # a)
  BY <1>1, <1>2, <1>4 DEF CommunityInv, NotifiersInOrder
<1>6. told \in [LetterIds -> [Participants -> Nat]] /\ owed \in [LetterIds -> SUBSET Participants]
  BY DEF CommunityInv, CommunityTypeOK
<1>7. UNCHANGED <<letter, threaded, posts, subscription, left>>
  BY DEF NotifySubscriber
<1>8. CASE r.todo = {} /\ Return(p) /\ UNCHANGED <<told, owed>>
  <2>1. /\ HandlersIn("community", CommunityCalls)' /\ service' = "community" /\ begun' = begun
        /\ p \notin InFlight' /\ Others(p)
    BY <1>8, CommunityEnds
  <2> QED
    BY <1>1, <1>2, <1>4, <1>5, <1>6, <1>7, <1>8, <2>1, NotifierStepped DEF Writing, Notifying
<1>9. ASSUME NEW a \in r.todo,
             \/ /\ Continue(p, [r EXCEPT !.todo = @ \ {a}])
                /\ told' = IF a = r.actor THEN told ELSE [told EXCEPT ![r.id][a] = @ + 1]
                /\ owed' = owed
             \/ /\ Fault(p, [r EXCEPT !.todo = @ \ {a}])
                /\ told' = told
                /\ owed' = [owed EXCEPT ![r.id] = @ \ {a}]
      PROVE  CommunityInv'
  <2>1. PICK c \in CommunityCalls :
          /\ c = [r EXCEPT !.todo = @ \ {a}]
          /\ c.at = "notify" /\ c.id = i /\ c.actor = r.actor /\ c.todo = r.todo \ {a}
    BY <1>1, <1>2, NotifyCallMoved
  <2>2. Continue(p, c) \/ Fault(p, c)
    BY <1>9, <2>1
  <2>3. /\ HandlersIn("community", CommunityCalls)' /\ service' = "community" /\ begun' = begun
        /\ req'[p] = c /\ p \in InFlight' /\ Others(p)
    BY <2>1, <2>2, CommunityGoes, CommunityCallForms
  <2>4. Writing(p)' /\ Notifying(p)'
    BY <2>1, <2>3 DEF Writing, Notifying
  <2>5. a \in Participants /\ told[i][a] = 0 /\ told[i] \in [Participants -> Nat]
    BY <1>3, <1>5, <1>6
  <2>6. CASE told' = told /\ owed' = [owed EXCEPT ![i] = @ \ {a}]
    <3>1. /\ owed' \in [LetterIds -> SUBSET Participants] /\ owed'[i] = owed[i] \ {a}
          /\ \A m \in LetterIds \ {i} : owed'[m] = owed[m]
      BY <1>6, <2>6
    <3> QED
      BY <1>1, <1>2, <1>4, <1>5, <1>6, <1>7, <2>1, <2>3, <2>4, <2>6, <3>1, NotifierStepped
  <2>7. CASE told' = told /\ owed' = owed /\ a = r.actor
    BY <1>1, <1>2, <1>4, <1>5, <1>6, <1>7, <2>1, <2>3, <2>4, <2>7, NotifierStepped
  <2>8. CASE told' = [told EXCEPT ![i][a] = @ + 1] /\ owed' = owed /\ a # r.actor
    <3>1. told' = [told EXCEPT ![i] = [told[i] EXCEPT ![a] = told[i][a] + 1]]
      BY <2>8
    <3>2. PICK mine : mine = [told[i] EXCEPT ![a] = told[i][a] + 1]
      OBVIOUS
    <3>3. mine \in [Participants -> Nat] /\ mine[a] = 1 /\ \A b \in Participants \ {a} : mine[b] = told[i][b]
      BY <2>5, <3>2
    <3>4. /\ told' \in [LetterIds -> [Participants -> Nat]] /\ told'[i] = mine
          /\ \A m \in LetterIds \ {i} : told'[m] = told[m]
      BY <1>6, <3>1, <3>2, <3>3
    <3>5. \A b \in Participants : told'[i][b] <= 1 /\ (told'[i][b] > 0 => letter[i].author # b)
      BY <1>5, <2>8, <3>3, <3>4
    <3>6. /\ \A b \in c.todo : told'[i][b] = 0
          /\ \A b \in owed'[i] : b \in c.todo \/ told'[i][b] = 1 \/ b = c.actor
      BY <1>3, <1>5, <1>6, <2>1, <2>8, <3>3, <3>4
    <3> QED
      BY <1>1, <1>2, <1>4, <1>5, <1>6, <1>7, <2>1, <2>3, <2>4, <2>8, <3>4, <3>5, <3>6, NotifierStepped
  <2> QED
    BY <1>2, <1>9, <2>6, <2>7, <2>8
<1> QED
  BY <1>1, <1>8, <1>9 DEF NotifySubscriber

LEMMA CommunityCrashed ==
  ASSUME CommunityInv, CrashCommunity
  PROVE  CommunityInv'
<1>1. /\ req' \in [Requests -> CommunityCalls \cup {None}] /\ (\A p \in Requests : req'[p] = None)
      /\ faults' \in 0 .. MaxFaults /\ UNCHANGED <<service, begun>>
  BY CommunityHandlers, Crashed DEF CrashCommunity
<1>2. service' = "community" /\ InFlight' = {}
  BY <1>1 DEF InFlight, CommunityInv
<1>3. /\ owed' = [m \in LetterIds |->
                    IF \E p \in InFlight : req[p].at = "notify" /\ req[p].id = m THEN {} ELSE owed[m]]
      /\ UNCHANGED <<letter, threaded, posts, subscription, left, told>>
  BY DEF CrashCommunity
<1>4. owed \in [LetterIds -> SUBSET Participants]
  BY DEF CommunityInv, CommunityTypeOK
<1>5. CommunityTypeOK'
  <2>1. owed' \in [LetterIds -> SUBSET Participants]
    BY <1>3, <1>4
  <2> QED
    BY <1>1, <1>3, <2>1 DEF CommunityInv, CommunityTypeOK, HandlersIn
<1>6. LettersInPlace'
  BY <1>3 DEF CommunityInv, LettersInPlace, RepliesBelong
<1>7. WritersApart' /\ WritersInOrder'
  <2>1. \A m \in LetterIds : Untold(m) => UntoldNext(m)
    BY <1>3 DEF Untold, UntoldNext
  <2> QED
    BY <1>1, <1>2, <1>3, <2>1 DEF CommunityInv, WritersApart, WritersInOrder, Writing, Untold, UntoldNext
<1>8. NotifiersInOrder'
  <2>1. \A m \in LetterIds : \A a \in owed'[m] : told'[m][a] = 1 \/ letter'[m].author = a
    <3> SUFFICES ASSUME NEW m \in LetterIds, NEW a \in owed'[m]
                 PROVE  told[m][a] = 1 \/ letter[m].author = a
      BY <1>3
    <3>1. (~ \E p \in InFlight : req[p].at = "notify" /\ req[p].id = m) /\ a \in owed[m]
      BY <1>3
    <3>2. ~ \E p \in Requests : Notifying(p) /\ req[p].id = m
      BY <3>1 DEF Notifying
    <3> QED
      BY <3>1, <3>2 DEF CommunityInv, NotifiersInOrder
  <2> QED
    BY <1>2, <1>3, <2>1 DEF CommunityInv, NotifiersInOrder, Notifying, Replied
<1> QED
  BY <1>2, <1>5, <1>6, <1>7, <1>8 DEF CommunityInv

LEMMA CommunityStart == HandlersInit /\ service = "community" /\ CommunityInit => CommunityInv
<1> SUFFICES ASSUME HandlersInit, service = "community", CommunityInit
             PROVE  CommunityInv
  OBVIOUS
<1>1. InFlight = {}
  BY DEF HandlersInit, InFlight
<1>2. CommunityTypeOK
  BY HandlersAssumption DEF HandlersInit, HandlersIn, CommunityInit, CommunityTypeOK
<1>3. WritersApart /\ WritersInOrder
  BY <1>1 DEF CommunityInit, WritersApart, WritersInOrder, Writing, Untold
<1>4. LettersInPlace
  BY DEF CommunityInit, LettersInPlace, RepliesBelong
<1>5. NotifiersInOrder
  BY <1>1 DEF CommunityInit, NotifiersInOrder, Notifying
<1> QED
  BY <1>2, <1>3, <1>4, <1>5 DEF CommunityInv

LEMMA CommunityKept == CommunityInv /\ [CommunityNext]_<<handlers, communityVars>> => CommunityInv'
<1> SUFFICES ASSUME CommunityInv, [CommunityNext]_<<handlers, communityVars>>
             PROVE  CommunityInv'
  OBVIOUS
<1>1. CASE UNCHANGED <<handlers, communityVars>>
  BY <1>1 DEF handlers, communityVars, CommunityInv, CommunityTypeOK, HandlersIn, InFlight, LettersInPlace,
              RepliesBelong, WritersApart, WritersInOrder, NotifiersInOrder, Writing, Notifying, Untold, Replied, IsParent
<1> QED
  BY <1>1, CommunityRequested, CommunityLooked, PostMade, ReplyMade, SubscriptionSet, SubscribersRead,
     SubscriberNotified, CommunityCrashed DEF CommunityNext

\* What is in place can be read.
LEMMA PostsReadable == CommunityInv => PostsWhole
<1> SUFFICES ASSUME CommunityInv
             PROVE  PostsWhole
  OBVIOUS
<1>1. letter \in [LetterIds -> Letter \cup {None}] /\ posts \subseteq LetterIds /\ threaded \subseteq LetterIds
  BY DEF CommunityInv, CommunityTypeOK
<1>2. \A t : MessagesByThread(t) = {m \in threaded : letter[m].thread = t} /\ MessagesByThread(t) # None
  <2> SUFFICES ASSUME NEW t
               PROVE  MessagesByThread(t) = {m \in threaded : letter[m].thread = t} /\ MessagesByThread(t) # None
    OBVIOUS
  <2>1. MessagesByThread(t) = {m \in threaded : letter[m].thread = t}
    BY DEF CommunityInv, LettersInPlace, MessagesByThread
  <2> QED
    BY <1>1, <2>1, CommunityAssumption
<1>3. \A t \in posts :
        /\ letter[t] \in Letter /\ letter[t] # None /\ letter[t].thread = t /\ letter[t].parent = None /\ t \in threaded
        /\ ViewFor(t) = [root |-> letter[t], replies |-> {m \in threaded : letter[m].thread = t} \ {t}]
  <2> SUFFICES ASSUME NEW t \in posts
               PROVE  /\ letter[t] \in Letter /\ letter[t] # None /\ letter[t].thread = t
                      /\ letter[t].parent = None /\ t \in threaded
                      /\ ViewFor(t) = [root |-> letter[t], replies |-> {m \in threaded : letter[m].thread = t} \ {t}]
    OBVIOUS
  <2>1. letter[t] # None /\ letter[t].parent = None /\ t \in threaded /\ t \in LetterIds
    BY <1>1 DEF CommunityInv, LettersInPlace
  <2>2. letter[t] \in Letter /\ letter[t].thread = t
    BY <1>1, <2>1 DEF CommunityInv, LettersInPlace
  <2> QED
    BY <1>2, <2>1, <2>2 DEF ViewFor
<1>4. \A t \in posts : /\ ViewFor(t) \in [root : Letter, replies : SUBSET LetterIds] /\ ViewFor(t) # None
                       /\ ViewFor(t).root = letter[t]
                       /\ ViewFor(t).replies = {m \in threaded : letter[m].thread = t} \ {t}
  <2> SUFFICES ASSUME NEW t \in posts
               PROVE  /\ ViewFor(t) \in [root : Letter, replies : SUBSET LetterIds] /\ ViewFor(t) # None
                      /\ ViewFor(t).root = letter[t]
                      /\ ViewFor(t).replies = {m \in threaded : letter[m].thread = t} \ {t}
    OBVIOUS
  <2>1. {m \in threaded : letter[m].thread = t} \ {t} \in SUBSET LetterIds
    BY <1>1
  <2> QED
    BY <1>3, <2>1, CommunityAssumption
<1>5. QueryThreads # None
  <2>1. \A t \in posts : SummaryOf(t) \in [id : LetterIds, author : Participants, replyCount : Nat]
    <3> SUFFICES ASSUME NEW t \in posts
                 PROVE  SummaryOf(t) \in [id : LetterIds, author : Participants, replyCount : Nat]
      OBVIOUS
    <3>1. ViewFor(t).replies \subseteq LetterIds
      BY <1>1, <1>4
    <3>2. IsFiniteSet(LetterIds)
      BY HandlersAssumption, FS_Interval DEF LetterIds
    <3>3. Cardinality(ViewFor(t).replies) \in Nat
      BY <3>1, <3>2, FS_Subset, FS_CardinalityType
    <3>4. letter[t].author \in Participants
      BY <1>3 DEF Letter
    <3> QED
      BY <1>1, <3>3, <3>4 DEF SummaryOf
  <2>2. QueryThreads = [t \in posts |-> SummaryOf(t)]
    BY <1>4 DEF QueryThreads
  <2>3. QueryThreads \in [posts -> [id : LetterIds, author : Participants, replyCount : Nat]]
    BY <2>1, <2>2
  <2> QED
    BY <1>1, <2>3, CommunityAssumption
<1>6. CleanupMailboxProjections
  BY <1>2, <1>3 DEF CleanupMailboxProjections
<1>7. \A t \in posts : ViewFor(t).root.parent = None /\ t \in threaded
  BY <1>3, <1>4
<1>8. \A m \in LetterIds : (\E a \in Participants : told[m][a] > 0) => m \in ViewFor(letter[m].thread).replies
  <2> SUFFICES ASSUME NEW m \in LetterIds, NEW a \in Participants, told[m][a] > 0
               PROVE  m \in ViewFor(letter[m].thread).replies
    OBVIOUS
  <2>1. letter[m] # None /\ letter[m].parent # None /\ m \in threaded
    BY DEF CommunityInv, NotifiersInOrder, Replied
  <2>2. letter[m].thread \in posts
    BY <2>1 DEF CommunityInv, LettersInPlace, RepliesBelong
  <2>3. m # letter[m].thread
    BY <1>3, <2>1, <2>2
  <2> QED
    BY <1>4, <2>1, <2>2, <2>3
<1> QED
  BY <1>5, <1>6, <1>7, <1>8 DEF PostsWhole

LEMMA CommunityAgrees == CommunityInv => CommunityPromise
<1> SUFFICES ASSUME CommunityInv
             PROVE  CommunityPromise
  OBVIOUS
<1>1. SubscribersTold
  <2>1. \A m \in LetterIds, a \in Participants :
          told[m][a] <= IF letter[m] # None /\ letter[m].author = a THEN 0 ELSE 1
    <3> SUFFICES ASSUME NEW m \in LetterIds, NEW a \in Participants
                 PROVE  told[m][a] <= IF letter[m] # None /\ letter[m].author = a THEN 0 ELSE 1
      OBVIOUS
    <3>1. told[m][a] \in Nat
      BY DEF CommunityInv, CommunityTypeOK
    <3> QED
      BY <3>1 DEF CommunityInv, NotifiersInOrder
  <2>2. \A m \in LetterIds :
          (\E p \in Of("community") : req[p].at = "notify" /\ req[p].id = m)
            \/ \A a \in owed[m] : told[m][a] = 1 \/ letter[m].author = a
    BY DEF CommunityInv, NotifiersInOrder, Notifying, Of
  <2> QED
    BY <2>1, <2>2 DEF SubscribersTold
<1> QED
  BY <1>1, PostsReadable DEF CommunityPromise, CommunityInv, LettersInPlace

\* No post breaks its page, the list or the next start, every reply is in its place, and each
\* subscriber is notified of it once, whatever is cut short and whoever writes at the same time
\* (community.CreatePost, AddReply, ViewFor and QueryThreads).
THEOREM PostsTogether == CommunitySpec => []CommunityPromise
<1>1. CommunitySpec => []CommunityInv
  BY CommunityStart, CommunityKept, PTL DEF CommunitySpec
<1>2. CommunityInv => CommunityPromise
  BY CommunityAgrees
<1> QED
  BY <1>1, <1>2, PTL

-----------------------------------------------------------------------------
(* The sponsors' page.                                                     *)

SponsorsSpec ==
  HandlersInit /\ service = "sponsors" /\ SponsorsInit /\ [][SponsorsNext]_<<handlers, sponsorVars>>

\* What is cached was fetched not before the time that it is kept by, and expires by it.
CacheInOrder ==
  /\ cache = None <=> ~ known
  /\ cache = None <=> expires = None
  /\ cache # None =>
       /\ expires = cache.refreshed + Lifetime /\ cache.refreshed <= cache.fetched
       /\ \A t \in Tiers : cache.listing.members[t] \cap cache.listing.once = {}

\* Whoever fetches has found the cache expired.
FetchersInOrder ==
  \A p \in InFlight : req[p].at = "fetch" => req[p].now <= hour /\ (expires = None \/ expires <= req[p].now)

SponsorsInv ==
  /\ service = "sponsors" /\ SponsorsTypeOK
  /\ CacheInOrder /\ FetchersInOrder /\ SponsorsFresh /\ ThankedOnce

LEMMA SponsorsHandlers ==
  ASSUME SponsorsInv
  PROVE  /\ req \in [Requests -> SponsorCalls \cup {None}] /\ begun \in 0 .. MaxRequests /\ faults \in 0 .. MaxFaults
         /\ service \in Services
         /\ \A p \in InFlight :
              /\ p \in Requests /\ req[p] \in SponsorCalls /\ req[p].now \in Times
              /\ req[p].at \in {"lock", "check", "fetch"}
         /\ \A p \in Requests : p \in InFlight <=> req[p] # None
         /\ \A p \in InFlight : req[p].at # "lock" <=> mutex = p
         /\ mutex # None => mutex \in InFlight
         /\ hour \in Nat /\ hour \in Times
         /\ None \notin SponsorCalls /\ None \notin Requests
<1>1. /\ req \in [Requests -> SponsorCalls \cup {None}] /\ begun \in 0 .. MaxRequests /\ faults \in 0 .. MaxFaults
      /\ service \in Services /\ service = "sponsors"
      /\ {p \in InFlight : req[p].at # "lock"} = {mutex} \ {None}
      /\ hour \in Times
  BY DEF SponsorsInv, SponsorsTypeOK, HandlersIn, Of
<1>2. \A p \in InFlight : p \in Requests /\ req[p] \in SponsorCalls
  BY <1>1 DEF InFlight
<1>3. \A p \in InFlight : req[p].now \in Times /\ req[p].at \in {"lock", "check", "fetch"}
  BY <1>2 DEF SponsorCalls
<1>4. None \notin SponsorCalls /\ None \notin Requests
  BY NoSponsorsAssumption, HandlersAssumption
<1>5. \A p \in InFlight : req[p].at # "lock" <=> mutex = p
  BY <1>1, <1>2, <1>4
<1>6. mutex # None => mutex \in InFlight
  BY <1>1
<1>7. hour \in Nat
  BY <1>1, SponsorsAssumption DEF Times
<1>8. \A p \in Requests : p \in InFlight <=> req[p] # None
  BY DEF InFlight
<1> QED
  BY <1>1, <1>2, <1>3, <1>4, <1>5, <1>6, <1>7, <1>8

\* A step of handler p to its call c, with or without the lock.
LEMMA SponsorsGoes ==
  ASSUME SponsorsInv, NEW p \in Requests, NEW c \in SponsorCalls \cup {None},
         Continue(p, c) \/ Fault(p, c),
         IF c = None \/ c.at = "lock" THEN mutex' = None /\ mutex = p ELSE mutex' = p /\ mutex \in {None, p}
  PROVE  /\ HandlersIn("sponsors", SponsorCalls)' /\ service' = "sponsors"
         /\ {q \in Of("sponsors") : req[q].at # "lock"}' = {mutex'} \ {None}
         /\ req'[p] = c /\ (p \in InFlight' <=> c # None) /\ Others(p)
<1>1. /\ req' \in [Requests -> SponsorCalls \cup {None}] /\ Moves(p, c)
      /\ faults' \in 0 .. MaxFaults /\ UNCHANGED <<service, begun>>
  BY SponsorsHandlers, Continued, Faulted
<1>2. req'[p] = c /\ (p \in InFlight' <=> c # None) /\ Others(p) /\ service' = "sponsors"
  BY <1>1, Moved DEF SponsorsInv
<1>3. \A q \in Requests \ {p} : q \in InFlight' => req'[q].at = "lock"
  BY <1>2, SponsorsHandlers DEF Others
<1>4. InFlight' \subseteq Requests
  BY DEF InFlight
<1>5. {q \in InFlight' : req'[q].at # "lock"} = {mutex'} \ {None}
  <2>1. CASE c = None \/ c.at = "lock"
    BY <1>2, <1>3, <1>4, <2>1
  <2>2. CASE c # None /\ c.at # "lock"
    BY <1>2, <1>3, <1>4, <2>2, SponsorsHandlers
  <2> QED
    BY <2>1, <2>2
<1>6. {q \in Of("sponsors") : req[q].at # "lock"}' = {mutex'} \ {None}
  BY <1>2, <1>5 DEF Of
<1>7. HandlersIn("sponsors", SponsorCalls)'
  BY <1>1, SponsorsHandlers DEF HandlersIn
<1> QED
  BY <1>2, <1>6, <1>7

\* The others' calls are as before, where the hour, the cache and its expiry are.
LEMMA FetchersStay ==
  ASSUME SponsorsInv, NEW p \in Requests, Others(p), UNCHANGED <<hour, expires>>,
         p \in InFlight' /\ req'[p].at = "fetch" => req'[p].now <= hour /\ (expires = None \/ expires <= req'[p].now)
  PROVE  FetchersInOrder'
<1>1. InFlight' \subseteq Requests
  BY DEF InFlight
<1> QED
  BY <1>1 DEF SponsorsInv, FetchersInOrder, Others

LEMMA SponsorCallsAre ==
  ASSUME NEW now \in Times, NEW place \in {"lock", "check", "fetch"}
  PROVE  LET c == [at |-> place, now |-> now] IN
         c \in SponsorCalls /\ c # None /\ c.at = place /\ c.now = now
<1>1. [at |-> place, now |-> now] \in SponsorCalls
  BY DEF SponsorCalls
<1> QED
  BY <1>1, NoSponsorsAssumption

LEMMA ListedOnce ==
  ASSUME NEW report \in Reports
  PROVE  /\ Listed(report) \in Listing
         /\ \A t \in Tiers : Listed(report).members[t] \cap Listed(report).once = {}
<1>1. report.contributed \subseteq Supporters
  BY DEF Reports
<1>2. [t \in Tiers |-> {s \in Supporters : <<s, t>> \in report.memberships}] \in [Tiers -> SUBSET Supporters]
  OBVIOUS
<1>3. {s \in report.contributed : \A t \in Tiers : <<s, t>> \notin report.memberships} \in SUBSET Supporters
  BY <1>1
<1> QED
  BY <1>2, <1>3 DEF Listed, Listing

LEMMA SponsorsKept == SponsorsInv /\ [SponsorsNext]_<<handlers, sponsorVars>> => SponsorsInv'
<1> SUFFICES ASSUME SponsorsInv, [SponsorsNext]_<<handlers, sponsorVars>>
             PROVE  SponsorsInv'
  OBVIOUS
<1> USE SponsorsHandlers
<1>t. /\ cache \in Cached \cup {None} /\ expires \in Nat \cup {None} /\ answer \in Answer \cup {None}
      /\ hour \in Times /\ known \in BOOLEAN
      /\ Lifetime \in Nat \ {0} /\ None \notin Cached \cup Answer /\ Times \subseteq Nat
  BY SponsorsAssumption, NoSponsorsAssumption DEF SponsorsInv, SponsorsTypeOK, Times
<1>i. CacheInOrder /\ FetchersInOrder /\ SponsorsFresh /\ ThankedOnce
  BY DEF SponsorsInv
<1>1. ASSUME Pass
      PROVE  SponsorsInv'
  <2>1. hour < MaxHours /\ hour' = hour + 1 /\ UNCHANGED <<service, req, begun, faults, mutex, cache, expires, answer, known>>
    BY <1>1 DEF Pass, handlers
  <2>2. hour' \in Times
    BY <1>t, <2>1, SponsorsAssumption DEF Times
  <2>3. SponsorsTypeOK'
    BY <2>1, <2>2 DEF SponsorsInv, SponsorsTypeOK, HandlersIn, Of, InFlight
  <2>4. CacheInOrder' /\ SponsorsFresh' /\ ThankedOnce'
    BY <1>i, <2>1 DEF CacheInOrder, SponsorsFresh, ThankedOnce
  <2>5. FetchersInOrder'
    <3> SUFFICES ASSUME NEW p \in InFlight', req'[p].at = "fetch"
                 PROVE  req'[p].now <= hour' /\ (expires' = None \/ expires' <= req'[p].now)
      BY DEF FetchersInOrder
    <3>1. p \in InFlight /\ req' = req
      BY <2>1 DEF InFlight
    <3>2. req[p].now \in Nat /\ req[p].now <= hour /\ (expires = None \/ expires <= req[p].now)
      BY <1>t, <1>i, <3>1 DEF FetchersInOrder
    <3> QED
      BY <1>t, <2>1, <3>1, <3>2
  <2> QED
    BY <2>1, <2>3, <2>4, <2>5 DEF SponsorsInv
<1>2. ASSUME NEW p \in Requests, Collective(p)
      PROVE  SponsorsInv'
  <2>1. PICK c : c = [at |-> "lock", now |-> hour]
    OBVIOUS
  <2>2. c \in SponsorCalls /\ c # None /\ c.at = "lock"
    BY <1>t, <2>1, SponsorCallsAre
  <2>3. Begin(p, c) /\ UNCHANGED sponsorVars
    BY <1>2, <2>1 DEF Collective
  <2>4. /\ req[p] = None /\ req' \in [Requests -> SponsorCalls \cup {None}] /\ Moves(p, c)
        /\ begun' \in 0 .. MaxRequests /\ UNCHANGED <<service, faults>>
    BY <2>2, <2>3, Begun
  <2>5. req'[p] = c /\ p \in InFlight' /\ p \notin InFlight /\ Others(p) /\ service' = "sponsors"
    BY <2>2, <2>4, Moved DEF SponsorsInv
  <2>6. UNCHANGED <<hour, mutex, cache, expires, answer, known>>
    BY <2>3 DEF sponsorVars
  <2>7. {q \in Of("sponsors") : req[q].at # "lock"}' = {mutex'} \ {None}
    <3>1. InFlight' = InFlight \cup {p} /\ InFlight \subseteq Requests
      BY <2>5 DEF Others, InFlight
    <3>2. {q \in InFlight' : req'[q].at # "lock"} = {q \in InFlight : req[q].at # "lock"}
      BY <2>2, <2>5, <3>1 DEF Others
    <3> QED
      BY <2>5, <2>6, <3>2 DEF Of, SponsorsInv, SponsorsTypeOK
  <2>8. SponsorsTypeOK'
    BY <2>4, <2>6, <2>7 DEF SponsorsInv, SponsorsTypeOK, HandlersIn
  <2>9. CacheInOrder' /\ SponsorsFresh' /\ ThankedOnce'
    BY <1>i, <2>6 DEF CacheInOrder, SponsorsFresh, ThankedOnce
  <2>10. FetchersInOrder'
    BY <2>2, <2>5, <2>6, FetchersStay
  <2> QED
    BY <2>5, <2>8, <2>9, <2>10 DEF SponsorsInv
<1>3. ASSUME NEW p \in Requests, Lock(p)
      PROVE  SponsorsInv'
  <2>1. p \in InFlight /\ req[p].at = "lock" /\ UNCHANGED <<hour, cache, expires, answer, known>>
        /\ mutex = None /\ mutex' = p
    BY <1>3 DEF Lock, At
  <2>2. PICK c : c = [at |-> "check", now |-> req[p].now] /\ Continue(p, c)
    <3>1. [req[p] EXCEPT !.at = "check"] = [at |-> "check", now |-> req[p].now]
      BY <2>1 DEF SponsorCalls
    <3> QED
      BY <1>3, <3>1 DEF Lock, Goto
  <2>3. c \in SponsorCalls /\ c # None /\ c.at = "check"
    BY <2>1, <2>2, SponsorCallsAre
  <2>4. /\ HandlersIn("sponsors", SponsorCalls)' /\ service' = "sponsors"
        /\ {q \in Of("sponsors") : req[q].at # "lock"}' = {mutex'} \ {None}
        /\ req'[p] = c /\ Others(p)
    BY <2>1, <2>2, <2>3, SponsorsGoes
  <2>5. SponsorsTypeOK'
    BY <1>t, <2>1, <2>4 DEF SponsorsTypeOK
  <2>6. CacheInOrder' /\ SponsorsFresh' /\ ThankedOnce'
    BY <1>i, <2>1 DEF CacheInOrder, SponsorsFresh, ThankedOnce
  <2>7. FetchersInOrder'
    BY <2>1, <2>3, <2>4, FetchersStay
  <2> QED
    BY <2>4, <2>5, <2>6, <2>7 DEF SponsorsInv
<1>4. ASSUME NEW p \in Requests, CheckCache(p)
      PROVE  SponsorsInv'
  <2>1. p \in InFlight /\ req[p].at = "check" /\ mutex = p /\ UNCHANGED <<hour, cache, expires, known>>
    BY <1>4 DEF CheckCache, At
  <2>2. CASE /\ expires # None /\ hour < expires
             /\ Return(p) /\ mutex' = None /\ answer' = Answered(hour, cache, FALSE)
    <3>1. PICK c : c = None /\ Continue(p, c)
      BY <2>2 DEF Return
    <3>2. /\ HandlersIn("sponsors", SponsorCalls)' /\ service' = "sponsors"
          /\ {q \in Of("sponsors") : req[q].at # "lock"}' = {mutex'} \ {None}
          /\ p \notin InFlight' /\ Others(p)
      BY <2>1, <2>2, <3>1, SponsorsGoes
    <3>3. /\ answer' \in Answer /\ answer'.now = hour /\ answer'.item = cache /\ answer'.failed = FALSE
      BY <1>t, <2>2 DEF Answered, Answer
    <3>4. SponsorsTypeOK'
      BY <1>t, <2>1, <3>2, <3>3 DEF SponsorsTypeOK
    <3>5. CacheInOrder'
      BY <1>i, <2>1 DEF CacheInOrder
    <3>6. SponsorsFresh' /\ ThankedOnce'
      <4>1. cache # None /\ cache \in Cached
        BY <1>t, <1>i, <2>2 DEF CacheInOrder
      <4>2. cache.fetched \in Nat /\ cache.refreshed \in Nat
        BY <1>t, <4>1 DEF Cached
      <4>3. cache.fetched + Lifetime > hour
        BY <1>t, <1>i, <2>2, <4>1, <4>2 DEF CacheInOrder
      <4> QED
        BY <1>i, <3>3, <4>1, <4>3 DEF SponsorsFresh, ThankedOnce, CacheInOrder
    <3>7. FetchersInOrder'
      BY <2>1, <3>2, FetchersStay
    <3> QED
      BY <3>2, <3>4, <3>5, <3>6, <3>7 DEF SponsorsInv
  <2>3. CASE /\ ~ (expires # None /\ hour < expires)
             /\ Continue(p, [at |-> "fetch", now |-> hour]) /\ UNCHANGED <<mutex, answer>>
    <3>1. PICK c : c = [at |-> "fetch", now |-> hour] /\ Continue(p, c)
      BY <2>3
    <3>2. c \in SponsorCalls /\ c # None /\ c.at = "fetch" /\ c.now = hour
      BY <1>t, <3>1, SponsorCallsAre
    <3>3. /\ HandlersIn("sponsors", SponsorCalls)' /\ service' = "sponsors"
          /\ {q \in Of("sponsors") : req[q].at # "lock"}' = {mutex'} \ {None}
          /\ req'[p] = c /\ Others(p)
      BY <2>1, <2>3, <3>1, <3>2, SponsorsGoes
    <3>4. SponsorsTypeOK'
      BY <1>t, <2>1, <2>3, <3>3 DEF SponsorsTypeOK
    <3>5. CacheInOrder' /\ SponsorsFresh' /\ ThankedOnce'
      BY <1>i, <2>1, <2>3 DEF CacheInOrder, SponsorsFresh, ThankedOnce
    <3>6. expires = None \/ expires <= hour
      BY <1>t, <2>3
    <3>7. FetchersInOrder'
      BY <2>1, <3>2, <3>3, <3>6, FetchersStay
    <3> QED
      BY <3>3, <3>4, <3>5, <3>7 DEF SponsorsInv
  <2> QED
    BY <1>4, <2>2, <2>3 DEF CheckCache
<1>5. ASSUME NEW p \in Requests, Fetch(p)
      PROVE  SponsorsInv'
  <2>1. p \in InFlight /\ req[p].at = "fetch" /\ mutex = p /\ mutex' = None /\ hour' = hour /\ known' = TRUE
    BY <1>5 DEF Fetch, At
  <2>2. PICK now \in Times : now = req[p].now
    BY <2>1
  <2>3. now <= hour
    BY <1>i, <2>1, <2>2 DEF FetchersInOrder
  <2>4. PICK report \in Reports :
          cache' = [listing |-> Listed(report), fetched |-> hour, refreshed |-> now]
    BY <1>5, <2>2 DEF Fetch
  <2>5. /\ expires' = now + Lifetime /\ answer' = Answered(now, cache', FALSE)
        /\ Return(p)
    BY <1>5, <2>2 DEF Fetch
  <2>6. PICK c : c = None /\ Continue(p, c)
    BY <2>5 DEF Return
  <2>7. /\ HandlersIn("sponsors", SponsorCalls)' /\ service' = "sponsors"
        /\ {q \in Of("sponsors") : req[q].at # "lock"}' = {mutex'} \ {None}
        /\ p \notin InFlight' /\ Others(p)
    BY <2>1, <2>6, SponsorsGoes
  <2>8. /\ cache' \in Cached /\ cache' # None /\ cache'.fetched = hour /\ cache'.refreshed = now
        /\ \A t \in Tiers : cache'.listing.members[t] \cap cache'.listing.once = {}
    BY <1>t, <2>4, ListedOnce DEF Cached
  <2>9. /\ answer' \in Answer /\ answer'.now = now /\ answer'.item = cache' /\ answer'.failed = FALSE
    BY <1>t, <2>5, <2>8 DEF Answered, Answer
  <2>10. expires' \in Nat /\ expires' # None
    BY <1>t, <2>5, NoSponsorsAssumption
  <2>11. SponsorsTypeOK'
    BY <1>t, <2>1, <2>7, <2>8, <2>9, <2>10 DEF SponsorsTypeOK
  <2>12. CacheInOrder'
    BY <2>1, <2>3, <2>5, <2>8, <2>10 DEF CacheInOrder
  <2>13. SponsorsFresh' /\ ThankedOnce'
    <3>1. hour + Lifetime > now
      BY <1>t, <2>3
    <3> QED
      BY <2>8, <2>9, <3>1 DEF SponsorsFresh, ThankedOnce
  <2>14. FetchersInOrder'
    <3>1. \A q \in InFlight' : req'[q].at # "fetch"
      BY <2>1, <2>7 DEF Others, InFlight
    <3> QED
      BY <3>1 DEF FetchersInOrder
  <2> QED
    BY <2>7, <2>11, <2>12, <2>13, <2>14 DEF SponsorsInv
<1>6. ASSUME NEW p \in Requests, FetchFailed(p)
      PROVE  SponsorsInv'
  <2>1. /\ p \in InFlight /\ req[p].at = "fetch" /\ mutex = p /\ mutex' = None
        /\ UNCHANGED <<hour, cache, expires, known>> /\ answer' = Answered(req[p].now, cache, TRUE)
    BY <1>6 DEF FetchFailed, At
  <2>2. PICK c : c = None /\ Fault(p, c)
    BY <1>6 DEF FetchFailed
  <2>3. /\ HandlersIn("sponsors", SponsorCalls)' /\ service' = "sponsors"
        /\ {q \in Of("sponsors") : req[q].at # "lock"}' = {mutex'} \ {None}
        /\ p \notin InFlight' /\ Others(p)
    BY <2>1, <2>2, SponsorsGoes
  <2>4. answer' \in Answer /\ answer'.item = cache /\ answer'.failed = TRUE
    BY <1>t, <2>1 DEF Answered, Answer
  <2>5. SponsorsTypeOK'
    BY <1>t, <2>1, <2>3, <2>4 DEF SponsorsTypeOK
  <2>6. CacheInOrder' /\ SponsorsFresh' /\ ThankedOnce'
    BY <1>i, <2>1, <2>4 DEF CacheInOrder, SponsorsFresh, ThankedOnce
  <2>7. FetchersInOrder'
    BY <2>1, <2>3, FetchersStay
  <2> QED
    BY <2>3, <2>5, <2>6, <2>7 DEF SponsorsInv
<1>7. ASSUME CrashSponsors
      PROVE  SponsorsInv'
  <2>1. /\ req' \in [Requests -> SponsorCalls \cup {None}] /\ (\A p \in Requests : req'[p] = None)
        /\ faults' \in 0 .. MaxFaults /\ UNCHANGED <<service, begun>>
    BY <1>7, Crashed DEF CrashSponsors
  <2>2. service' = "sponsors" /\ InFlight' = {}
    BY <2>1 DEF InFlight, SponsorsInv
  <2>3. /\ mutex' = None /\ cache' = None /\ expires' = None
        /\ answer' = None /\ known' = FALSE /\ hour' = hour
    BY <1>7 DEF CrashSponsors
  <2>4. {q \in Of("sponsors") : req[q].at # "lock"}' = {mutex'} \ {None}
    BY <2>2, <2>3 DEF Of
  <2>5. SponsorsTypeOK'
    BY <1>t, <2>1, <2>3, <2>4 DEF SponsorsTypeOK, HandlersIn
  <2>6. CacheInOrder' /\ SponsorsFresh' /\ ThankedOnce' /\ FetchersInOrder'
    BY <2>2, <2>3 DEF CacheInOrder, SponsorsFresh, ThankedOnce, FetchersInOrder
  <2> QED
    BY <2>2, <2>5, <2>6 DEF SponsorsInv
<1>8. CASE UNCHANGED <<handlers, sponsorVars>>
  BY <1>8 DEF handlers, sponsorVars, SponsorsInv, SponsorsTypeOK, HandlersIn, Of, InFlight,
              CacheInOrder, FetchersInOrder, SponsorsFresh, ThankedOnce
<1> QED
  BY <1>1, <1>2, <1>3, <1>4, <1>5, <1>6, <1>7, <1>8 DEF SponsorsNext

LEMMA SponsorsStart == HandlersInit /\ service = "sponsors" /\ SponsorsInit => SponsorsInv
<1> SUFFICES ASSUME HandlersInit, service = "sponsors", SponsorsInit
             PROVE  SponsorsInv
  OBVIOUS
<1>1. InFlight = {} /\ Of("sponsors") = {}
  BY DEF HandlersInit, InFlight, Of
<1>2. SponsorsTypeOK
  <2>1. HandlersIn("sponsors", SponsorCalls)
    BY HandlersAssumption DEF HandlersInit, HandlersIn
  <2>2. hour \in Times /\ known \in BOOLEAN
    <3>1. hour \in Times
      BY SponsorsAssumption DEF SponsorsInit, Times
    <3>2. known \in BOOLEAN
      BY DEF SponsorsInit
    <3> QED
      BY <3>1, <3>2
  <2>3. cache = None /\ expires = None /\ answer = None /\ mutex = None
    BY DEF SponsorsInit
  <2>4. {p \in Of("sponsors") : req[p].at # "lock"} = {mutex} \ {None}
    BY <1>1, <2>3
  <2> QED
    BY <2>1, <2>2, <2>3, <2>4 DEF SponsorsTypeOK
<1> QED
  BY <1>1, <1>2 DEF SponsorsInv, SponsorsInit, CacheInOrder, FetchersInOrder, SponsorsFresh, ThankedOnce

\* A fetch is by a handler that has found the cache expired.
LEMMA FetchesHourly ==
  SponsorsInv /\ [SponsorsNext]_<<handlers, sponsorVars>>
    => (cache' \notin {cache, None} => expires = None \/ expires <= cache'.refreshed)
<1> SUFFICES ASSUME SponsorsInv, [SponsorsNext]_<<handlers, sponsorVars>>, cache' \notin {cache, None}
             PROVE  expires = None \/ expires <= cache'.refreshed
  OBVIOUS
<1>1. PICK p \in Requests : Fetch(p)
  BY DEF SponsorsNext, Pass, Collective, Lock, CheckCache, FetchFailed, CrashSponsors, sponsorVars
<1>2. p \in InFlight /\ req[p].at = "fetch"
  BY <1>1 DEF Fetch, At
<1>3. PICK report \in Reports :
        cache' = [listing |-> Listed(report), fetched |-> hour, refreshed |-> req[p].now]
  BY <1>1 DEF Fetch
<1> QED
  BY <1>2, <1>3 DEF SponsorsInv, FetchersInOrder

\* However many readers wait and whatever fails, they see data that is less than an hour old,
\* which was asked for once in the hour, or what was fetched last (sponsor.Collective).
THEOREM SponsorsUpToDate == SponsorsSpec => SponsorsPromise
<1>1. SponsorsSpec => []SponsorsInv
  BY SponsorsStart, SponsorsKept, PTL DEF SponsorsSpec
<1>2. SponsorsInv => SponsorsFresh /\ ThankedOnce
  BY DEF SponsorsInv
<1>3. SponsorsInv /\ [SponsorsNext]_<<handlers, sponsorVars>>
        => [cache' \notin {cache, None} => expires = None \/ expires <= cache'.refreshed]_sponsorVars
  BY FetchesHourly
<1> QED
  BY <1>1, <1>2, <1>3, PTL DEF SponsorsSpec, SponsorsPromise, FetchedHourly

-----------------------------------------------------------------------------
(* Documents.                                                              *)

DocumentsSpec ==
  HandlersInit /\ service = "documents" /\ DocumentsInit /\ [][DocumentsNext]_<<handlers, documentVars>>

\* Pages D are as release r has them, and those of D are not in the catalogue.
Carried(r, D) == \A g \in D : g \in paths /\ document[g] = "published" /\ revision[g] = r
Gone(D) == \A g \in D : document[g] # "published"

\* What start p has imported is as far as its next call says.
ImportedSoFar(p) ==
  LET c == req[p] IN
  /\ c.at = "pages" => Carried(c.release, ReleasePages[c.release] \ c.todo)
  /\ c.at \in {"object", "path"} =>
       /\ Carried(c.release, ReleasePages[c.release] \ (c.todo \cup {c.page}))
       /\ revision[c.page] = c.release /\ touched = c.release
  /\ c.at = "path" => document[c.page] = "published"
  /\ c.at \in {"retire", "retiredPath"} =>
       /\ Carried(c.release, ReleasePages[c.release])
       /\ c.todo \subseteq Redirects[c.release] /\ Gone(Redirects[c.release] \ c.todo)
  /\ c.at = "retiredPath" => touched = c.release
  /\ c.at = "mark" => Carried(c.release, ReleasePages[c.release]) /\ Gone(Redirects[c.release])

\* A start that imports found no marker, or none it could read.
ImportWanted(p) == req[p].at # "marker" => req[p].release \notin markers \ misread

\* The release that wrote last is imported whole once its marker says so.
ImportWhole ==
  \A r \in markers \ misread : touched = r => Carried(r, ReleasePages[r]) /\ Gone(Redirects[r])

StartedAlone ==
  /\ \A p, q \in InFlight : p = q
  /\ InFlight # {} => serving = None

DocumentsInv ==
  /\ service = "documents" /\ DocumentsTypeOK /\ StartedAlone /\ CatalogueReadable
  /\ \A p \in InFlight : ImportedSoFar(p) /\ ImportWanted(p)
  /\ ImportWhole /\ serving \in markers \cup {None}

DocumentPlaces == {"marker", "pages", "retire", "mark", "object", "path", "retiredPath"}

LEMMA DocumentCallsAreCalls ==
  ASSUME NEW c \in DocumentCalls
  PROVE  /\ c # None /\ c.release \in Releases /\ c.todo \subseteq Pages /\ c.at \in DocumentPlaces
         /\ c.at \in {"object", "path", "retiredPath"} => c.page \in Pages
<1>1. None \notin DocumentCalls
  BY DocumentsAssumption
<1> QED
  BY <1>1 DEF DocumentCalls, DocumentPlaces

LEMMA DocumentCallForms ==
  ASSUME NEW r \in Releases, NEW T \in SUBSET Pages
  PROVE  /\ \A place \in {"marker", "pages", "retire", "mark"} :
              [at |-> place, release |-> r, todo |-> T] \in DocumentCalls
         /\ \A place \in {"object", "path", "retiredPath"} : \A g \in Pages :
              [at |-> place, release |-> r, todo |-> T, page |-> g] \in DocumentCalls
BY DEF DocumentCalls

\* The rest of a call stays as it moves on.
LEMMA DocumentCallMoved ==
  ASSUME NEW c \in DocumentCalls
  PROVE  /\ c.at = "object" =>
              LET d == [c EXCEPT !.at = "path"] IN
              d \in DocumentCalls /\ d.at = "path" /\ d.release = c.release /\ d.todo = c.todo /\ d.page = c.page
         /\ c.at = "retire" =>
              LET d == [c EXCEPT !.at = "mark"] IN
              d \in DocumentCalls /\ d.at = "mark" /\ d.release = c.release
<1>1. CASE c \in [at : {"marker", "pages", "retire", "mark"}, release : Releases, todo : SUBSET Pages]
  BY <1>1 DEF DocumentCalls
<1>2. CASE c \in [at : {"object", "path", "retiredPath"}, release : Releases, todo : SUBSET Pages, page : Pages]
  BY <1>2 DEF DocumentCalls
<1> QED
  BY <1>1, <1>2 DEF DocumentCalls

LEMMA DocumentSkips ==
  ASSUME NEW c \in DocumentCalls, c.at = "retire", NEW g \in Pages,
         NEW d, d = [c EXCEPT !.todo = @ \ {g}]
  PROVE  d \in DocumentCalls /\ d.at = "retire" /\ d.release = c.release /\ d.todo = c.todo \ {g}
<1>1. c \in [at : {"marker", "pages", "retire", "mark"}, release : Releases, todo : SUBSET Pages]
  BY DEF DocumentCalls
<1> QED
  BY <1>1 DEF DocumentCalls

LEMMA DocumentHandlers ==
  ASSUME DocumentsInv
  PROVE  /\ req \in [Requests -> DocumentCalls \cup {None}] /\ begun \in 0 .. MaxRequests /\ faults \in 0 .. MaxFaults
         /\ service \in Services
         /\ \A p \in InFlight : p \in Requests /\ req[p] \in DocumentCalls /\ InFlight = {p}
         /\ \A p \in Requests : p \in InFlight <=> req[p] # None
BY DEF DocumentsInv, DocumentsTypeOK, HandlersIn, InFlight, StartedAlone

\* The start goes on to its next call.
LEMMA DocumentGoes ==
  ASSUME DocumentsInv, NEW p \in Requests, p \in InFlight, NEW c \in DocumentCalls, Continue(p, c)
  PROVE  /\ HandlersIn("documents", DocumentCalls)' /\ service' = "documents"
         /\ InFlight' = {p} /\ req'[p] = c /\ serving = None
<1>1. /\ req' \in [Requests -> DocumentCalls \cup {None}] /\ Moves(p, c)
      /\ UNCHANGED <<service, begun, faults>>
  BY DocumentHandlers, Continued
<1>2. service' = "documents" /\ InFlight' = {p}
  BY <1>1, DocumentHandlers, DocumentCallsAreCalls DEF Moves, InFlight, DocumentsInv
<1>3. serving = None
  BY DEF DocumentsInv, StartedAlone
<1> QED
  BY <1>1, <1>2, <1>3, DocumentHandlers DEF Moves, HandlersIn

\* The start ends, by serving or by a failure.
LEMMA DocumentEnds ==
  ASSUME DocumentsInv, NEW p \in Requests, p \in InFlight, Return(p) \/ Fault(p, None)
  PROVE  HandlersIn("documents", DocumentCalls)' /\ service' = "documents" /\ InFlight' = {}
<1>1. /\ req' \in [Requests -> DocumentCalls \cup {None}] /\ Moves(p, None)
      /\ faults' \in 0 .. MaxFaults /\ UNCHANGED <<service, begun>>
  <2>1. CASE Return(p)
    BY <2>1, DocumentHandlers, Returned
  <2>2. CASE Fault(p, None)
    <3>1. PICK n : n = None /\ Fault(p, n)
      BY <2>2
    <3> QED
      BY <3>1, DocumentHandlers, Faulted
  <2> QED
    BY <2>1, <2>2
<1>2. service' = "documents" /\ InFlight' = {}
  BY <1>1, DocumentHandlers DEF Moves, InFlight, DocumentsInv
<1> QED
  BY <1>1, <1>2, DocumentHandlers DEF Moves, HandlersIn

LEMMA DocumentsStart == HandlersInit /\ service = "documents" /\ DocumentsInit => DocumentsInv
<1> SUFFICES ASSUME HandlersInit, service = "documents", DocumentsInit
             PROVE  DocumentsInv
  OBVIOUS
<1>1. InFlight = {}
  BY DEF HandlersInit, InFlight
<1>2. DocumentsTypeOK
  BY HandlersAssumption DEF HandlersInit, DocumentsInit, DocumentsTypeOK, HandlersIn
<1>3. CatalogueReadable
  BY DocumentsAssumption DEF CatalogueReadable, Summaries, DocumentsInit
<1> QED
  BY <1>1, <1>2, <1>3 DEF DocumentsInv, StartedAlone, ImportWhole, DocumentsInit

\* What a start writes leaves every other release's import alone, and its own is not marked.
LEMMA ImportTouched ==
  ASSUME DocumentsInv, NEW p \in InFlight, req[p].at # "marker",
         touched' = req[p].release, UNCHANGED <<markers, misread>>
  PROVE  ImportWhole'
BY DEF DocumentsInv, ImportWanted, ImportWhole

LEMMA ImportKept ==
  ASSUME DocumentsInv, UNCHANGED <<document, revision, paths, touched, markers, misread>>
  PROVE  ImportWhole' /\ CatalogueReadable'
BY DEF DocumentsInv, ImportWhole, Carried, Gone, CatalogueReadable, Summaries

LEMMA DocumentsKept == DocumentsInv /\ [DocumentsNext]_<<handlers, documentVars>> => DocumentsInv'
<1> SUFFICES ASSUME DocumentsInv, [DocumentsNext]_<<handlers, documentVars>>
             PROVE  DocumentsInv'
  OBVIOUS
<1> USE DocumentHandlers
<1>t. /\ document \in [Pages -> {"published", "archived", None}] /\ revision \in [Pages -> Releases \cup {None}]
      /\ paths \subseteq Pages /\ markers \subseteq Releases /\ misread \subseteq Releases
      /\ serving \in Releases \cup {None} /\ touched \in Releases \cup {None}
      /\ serving \in markers \cup {None}
      /\ ReleasePages \in [Releases -> SUBSET Pages] /\ Redirects \in [Releases -> SUBSET Pages]
      /\ \A r \in Releases : ReleasePages[r] \cap Redirects[r] = {}
  BY ReleasesAssumption DEF DocumentsInv, DocumentsTypeOK
<1>1. ASSUME NEW p \in Requests, NEW r \in Releases, Start(p, r)
      PROVE  DocumentsInv'
  <2>1. PICK c : c = [at |-> "marker", release |-> r, todo |-> {}] /\ Begin(p, c)
    BY <1>1 DEF Start
  <2>2. c \in DocumentCalls /\ c.at = "marker" /\ c # None
    BY <2>1, DocumentCallForms, DocumentCallsAreCalls
  <2>3. /\ req' \in [Requests -> DocumentCalls \cup {None}] /\ Moves(p, c)
        /\ begun' \in 0 .. MaxRequests /\ UNCHANGED <<service, faults>>
    BY <2>1, <2>2, Begun
  <2>4. InFlight = {} /\ serving' = None /\ UNCHANGED <<document, revision, paths, markers, touched, misread>>
    BY <1>1 DEF Start
  <2>5. service' = "documents" /\ InFlight' = {p} /\ req'[p].at = "marker"
    BY <2>2, <2>3, <2>4 DEF Moves, InFlight, DocumentsInv
  <2>6. ImportedSoFar(p)' /\ ImportWanted(p)'
    BY <2>5 DEF ImportedSoFar, ImportWanted
  <2>7. ImportWhole' /\ CatalogueReadable'
    BY <2>4, ImportKept
  <2>8. DocumentsTypeOK'
    BY <1>t, <2>3, <2>4 DEF DocumentsTypeOK, HandlersIn
  <2> QED
    BY <2>4, <2>5, <2>6, <2>7, <2>8 DEF DocumentsInv, StartedAlone
<1>2. ASSUME NEW p \in Requests, CheckMarker(p)
      PROVE  DocumentsInv'
  <2>r. PICK r : r = req[p].release
    OBVIOUS
  <2>1. p \in InFlight /\ req[p].at = "marker" /\ r \in Releases
    BY <2>r, <1>2, DocumentCallsAreCalls DEF CheckMarker, At
  <2>2. UNCHANGED <<document, revision, paths, markers, touched, misread>>
    BY <2>r, <1>2 DEF CheckMarker
  <2>3. ImportWhole' /\ CatalogueReadable'
    BY <2>r, <2>2, ImportKept
  <2>4. CASE r \in markers
    <3>1. Return(p) /\ serving' = r
      BY <2>r, <1>2, <2>4 DEF CheckMarker
    <3>2. HandlersIn("documents", DocumentCalls)' /\ service' = "documents" /\ InFlight' = {}
      BY <2>r, <2>1, <3>1, DocumentEnds
    <3> QED
      BY <2>r, <1>t, <2>1, <2>2, <2>3, <2>4, <3>1, <3>2 DEF DocumentsInv, DocumentsTypeOK, StartedAlone
  <2>5. CASE r \notin markers
    <3>1. PICK c : c = [at |-> "pages", release |-> r, todo |-> ReleasePages[r]] /\ Continue(p, c) /\ serving' = serving
      BY <2>r, <1>2, <2>5 DEF CheckMarker
    <3>2. c \in DocumentCalls /\ c.at = "pages" /\ c.release = r /\ c.todo = ReleasePages[r]
      BY <2>r, <1>t, <2>1, <3>1, DocumentCallForms
    <3>3. /\ HandlersIn("documents", DocumentCalls)' /\ service' = "documents"
          /\ InFlight' = {p} /\ req'[p] = c /\ serving = None
      BY <2>r, <2>1, <3>1, <3>2, DocumentGoes
    <3>4. ImportedSoFar(p)' /\ ImportWanted(p)'
      BY <2>r, <2>2, <2>5, <3>2, <3>3 DEF ImportedSoFar, ImportWanted, Carried
    <3> QED
      BY <2>r, <1>t, <2>2, <2>3, <3>1, <3>3, <3>4 DEF DocumentsInv, DocumentsTypeOK, StartedAlone
  <2> QED
    BY <2>r, <2>4, <2>5
<1>3. ASSUME NEW p \in Requests, PutRevision(p)
      PROVE  DocumentsInv'
  <2>r. PICK r, T : r = req[p].release /\ T = req[p].todo
    OBVIOUS
  <2>1. p \in InFlight /\ req[p].at = "pages" /\ r \in Releases /\ T \subseteq Pages /\ req[p] \in DocumentCalls
    BY <2>r, <1>3, DocumentCallsAreCalls DEF PutRevision, At
  <2>2. UNCHANGED <<document, paths, markers, serving, misread>>
    BY <2>r, <1>3 DEF PutRevision
  <2>3. Carried(r, ReleasePages[r] \ T) /\ r \notin markers \ misread
    BY <2>r, <2>1 DEF DocumentsInv, ImportedSoFar, ImportWanted
  <2>4. CASE \E g \in T :
               /\ Continue(p, [at |-> "object", release |-> r, todo |-> T \ {g}, page |-> g])
               /\ revision' = [revision EXCEPT ![g] = r] /\ touched' = r
    <3>1. PICK g \in T :
            /\ Continue(p, [at |-> "object", release |-> r, todo |-> T \ {g}, page |-> g])
            /\ revision' = [revision EXCEPT ![g] = r] /\ touched' = r
      BY <2>r, <2>4
    <3>2. PICK c : c = [at |-> "object", release |-> r, todo |-> T \ {g}, page |-> g] /\ Continue(p, c)
      BY <2>r, <3>1
    <3>3. c \in DocumentCalls /\ c.at = "object" /\ c.release = r /\ c.todo = T \ {g} /\ c.page = g
      BY <2>r, <2>1, <3>2, DocumentCallForms
    <3>4. /\ HandlersIn("documents", DocumentCalls)' /\ service' = "documents"
          /\ InFlight' = {p} /\ req'[p] = c /\ serving = None
      BY <2>r, <2>1, <3>2, <3>3, DocumentGoes
    <3>5. /\ revision' \in [Pages -> Releases \cup {None}] /\ revision'[g] = r
          /\ \A h \in Pages \ {g} : revision'[h] = revision[h]
      BY <2>r, <1>t, <2>1, <3>1
    <3>6. Carried(r, ReleasePages[r] \ (T \cup {g}))'
      BY <2>r, <1>t, <2>1, <2>2, <2>3, <3>5 DEF Carried
    <3>7. ReleasePages[r] \ ((T \ {g}) \cup {g}) = ReleasePages[r] \ (T \cup {g})
      OBVIOUS
    <3>8. Carried(r, ReleasePages[r] \ ((T \ {g}) \cup {g}))'
      BY <2>r, <3>6, <3>7 DEF Carried
    <3>9. ImportedSoFar(p)'
      BY <2>r, <3>1, <3>3, <3>4, <3>5, <3>8 DEF ImportedSoFar
    <3>10. ImportWanted(p)'
      BY <2>r, <2>2, <2>3, <3>3, <3>4 DEF ImportWanted
    <3>11. ImportWhole'
      BY <2>1, <2>2, <3>1, <2>r, ImportTouched
    <3>12. CatalogueReadable'
      BY <2>r, <1>t, <2>1, <2>2, <3>5, DocumentsAssumption DEF DocumentsInv, CatalogueReadable, Summaries
    <3> QED
      BY <2>r, <1>t, <2>1, <2>2, <3>1, <3>4, <3>5, <3>9, <3>10, <3>11, <3>12 DEF DocumentsInv, DocumentsTypeOK, StartedAlone
  <2>5. CASE T = {} /\ Continue(p, [req[p] EXCEPT !.at = "retire", !.todo = Redirects[r]])
             /\ UNCHANGED <<revision, touched>>
    <3>0. PICK c0, S : /\ c0 = req[p] /\ c0 \in DocumentCalls /\ c0.at = "pages" /\ c0.release = r
                       /\ S = Redirects[r] /\ S \in SUBSET Pages
      BY <2>r, <1>t, <2>1
    <3>1. PICK c : c = [c0 EXCEPT !.at = "retire", !.todo = S] /\ Continue(p, c)
      BY <2>r, <2>5, <3>0
    <3>2. c \in DocumentCalls /\ c.at = "retire" /\ c.release = r /\ c.todo = Redirects[r]
      <4>1. c0 \in [at : {"marker", "pages", "retire", "mark"}, release : Releases, todo : SUBSET Pages]
        BY <3>0 DEF DocumentCalls
      <4> QED
        BY <3>0, <3>1, <4>1 DEF DocumentCalls
    <3>3. /\ HandlersIn("documents", DocumentCalls)' /\ service' = "documents"
          /\ InFlight' = {p} /\ req'[p] = c /\ serving = None
      BY <2>r, <2>1, <3>1, <3>2, DocumentGoes
    <3>4. Carried(r, ReleasePages[r])' /\ Gone(Redirects[r] \ Redirects[r])'
      BY <2>r, <2>2, <2>3, <2>5 DEF Carried, Gone
    <3>5. ImportedSoFar(p)' /\ ImportWanted(p)'
      BY <2>r, <2>2, <2>3, <3>2, <3>3, <3>4 DEF ImportedSoFar, ImportWanted
    <3>6. ImportWhole' /\ CatalogueReadable'
      BY <2>r, <2>2, <2>5, ImportKept
    <3> QED
      BY <2>r, <1>t, <2>2, <2>5, <3>3, <3>5, <3>6 DEF DocumentsInv, DocumentsTypeOK, StartedAlone
  <2> QED
    BY <2>r, <1>3, <2>4, <2>5 DEF PutRevision
<1>4. ASSUME NEW p \in Requests, UpsertDocument(p)
      PROVE  DocumentsInv'
  <2>r. PICK r, g, T : r = req[p].release /\ g = req[p].page /\ T = req[p].todo
    OBVIOUS
  <2>1. /\ p \in InFlight /\ req[p].at = "object" /\ r \in Releases /\ g \in Pages /\ T \subseteq Pages
        /\ req[p] \in DocumentCalls
    BY <2>r, <1>4, DocumentCallsAreCalls DEF UpsertDocument, At
  <2>2. document' = [document EXCEPT ![g] = "published"] /\ UNCHANGED <<revision, paths, markers, serving, touched, misread>>
    BY <2>r, <1>4 DEF UpsertDocument, Published
  <2>3. /\ Carried(r, ReleasePages[r] \ (T \cup {g})) /\ revision[g] = r /\ touched = r
        /\ r \notin markers \ misread
    BY <2>r, <2>1 DEF DocumentsInv, ImportedSoFar, ImportWanted
  <2>4. PICK c : c = [req[p] EXCEPT !.at = "path"] /\ Continue(p, c)
    BY <2>r, <1>4 DEF UpsertDocument, Goto
  <2>5. c \in DocumentCalls /\ c.at = "path" /\ c.release = r /\ c.todo = T /\ c.page = g
    BY <2>r, <2>1, <2>4, DocumentCallMoved
  <2>6. /\ HandlersIn("documents", DocumentCalls)' /\ service' = "documents"
        /\ InFlight' = {p} /\ req'[p] = c /\ serving = None
    BY <2>r, <2>1, <2>4, <2>5, DocumentGoes
  <2>7. /\ document' \in [Pages -> {"published", "archived", None}] /\ document'[g] = "published"
        /\ \A h \in Pages \ {g} : document'[h] = document[h]
    BY <2>r, <1>t, <2>1, <2>2
  <2>8. ImportWhole'
    BY <2>r, <2>1, <2>2, <2>3, ImportTouched
  <2>9. Carried(r, ReleasePages[r] \ (T \cup {g}))'
    BY <2>r, <1>t, <2>1, <2>2, <2>3, <2>7 DEF Carried
  <2>10. ImportedSoFar(p)'
    BY <2>r, <2>2, <2>3, <2>5, <2>6, <2>7, <2>9 DEF ImportedSoFar
  <2>11. ImportWanted(p)'
    BY <2>r, <2>2, <2>3, <2>5, <2>6 DEF ImportWanted
  <2>12. CatalogueReadable'
    BY <2>r, <2>1, <2>2, <2>3, <2>7, DocumentsAssumption DEF DocumentsInv, CatalogueReadable, Summaries
  <2> QED
    BY <2>r, <1>t, <2>2, <2>6, <2>7, <2>8, <2>10, <2>11, <2>12 DEF DocumentsInv, DocumentsTypeOK, StartedAlone
<1>5. ASSUME NEW p \in Requests, IndexPath(p)
      PROVE  DocumentsInv'
  <2>r. PICK r, g, T, place :
           /\ r = req[p].release /\ g = req[p].page /\ T = req[p].todo
           /\ place = IF req[p].at = "path" THEN "pages" ELSE "retire"
    OBVIOUS
  <2>1. /\ p \in InFlight /\ req[p].at \in {"path", "retiredPath"} /\ r \in Releases /\ g \in Pages /\ T \subseteq Pages
    BY <2>r, <1>5, DocumentCallsAreCalls DEF IndexPath
  <2>2. paths' = paths \cup {g} /\ UNCHANGED <<document, revision, markers, serving, touched, misread>>
    BY <2>r, <1>5 DEF IndexPath
  <2>3. touched = r /\ r \notin markers \ misread
    BY <2>r, <2>1 DEF DocumentsInv, ImportedSoFar, ImportWanted
  <2>4. PICK c : c = [at |-> place, release |-> r, todo |-> T] /\ Continue(p, c)
    BY <2>r, <1>5 DEF IndexPath
  <2>5. c \in DocumentCalls /\ c.at = place /\ c.release = r /\ c.todo = T
    BY <2>r, <2>1, <2>4, DocumentCallForms
  <2>6. /\ HandlersIn("documents", DocumentCalls)' /\ service' = "documents"
        /\ InFlight' = {p} /\ req'[p] = c /\ serving = None
    BY <2>r, <2>1, <2>4, <2>5, DocumentGoes
  <2>7. ImportWhole'
    BY <2>r, <2>1, <2>2, <2>3, ImportTouched
  <2>8. ASSUME req[p].at = "path"
        PROVE  ImportedSoFar(p)'
    <3>1. Carried(r, ReleasePages[r] \ (T \cup {g})) /\ revision[g] = r /\ document[g] = "published"
      BY <2>r, <2>1, <2>8 DEF DocumentsInv, ImportedSoFar
    <3>2. c.at = "pages"
      BY <2>r, <2>5, <2>8
    <3>3. Carried(r, ReleasePages[r] \ T)'
      BY <2>r, <2>2, <3>1 DEF Carried
    <3> QED
      BY <2>r, <2>5, <2>6, <3>2, <3>3 DEF ImportedSoFar
  <2>9. ASSUME req[p].at = "retiredPath"
        PROVE  ImportedSoFar(p)'
    <3>1. Carried(r, ReleasePages[r]) /\ T \subseteq Redirects[r] /\ Gone(Redirects[r] \ T)
      BY <2>r, <2>1, <2>9 DEF DocumentsInv, ImportedSoFar
    <3>2. c.at = "retire"
      BY <2>r, <2>5, <2>9
    <3>3. Carried(r, ReleasePages[r])' /\ Gone(Redirects[r] \ T)'
      BY <2>r, <2>2, <3>1 DEF Carried, Gone
    <3> QED
      BY <2>r, <2>5, <2>6, <3>1, <3>2, <3>3 DEF ImportedSoFar
  <2>10. ImportedSoFar(p)'
    BY <2>r, <2>1, <2>8, <2>9
  <2>11. ImportWanted(p)'
    BY <2>r, <2>2, <2>3, <2>5, <2>6 DEF ImportWanted
  <2>12. CatalogueReadable'
    BY <2>r, <2>2 DEF DocumentsInv, CatalogueReadable, Summaries
  <2> QED
    BY <2>r, <1>t, <2>1, <2>2, <2>6, <2>7, <2>10, <2>11, <2>12 DEF DocumentsInv, DocumentsTypeOK, StartedAlone
<1>6. ASSUME NEW p \in Requests, Retire(p)
      PROVE  DocumentsInv'
  <2>r. PICK r, T : r = req[p].release /\ T = req[p].todo
    OBVIOUS
  <2>1. p \in InFlight /\ req[p].at = "retire" /\ r \in Releases /\ T \subseteq Pages /\ req[p] \in DocumentCalls
    BY <2>r, <1>6, DocumentCallsAreCalls DEF Retire, At
  <2>2. UNCHANGED <<revision, paths, markers, serving, misread>>
    BY <2>r, <1>6 DEF Retire
  <2>3. /\ Carried(r, ReleasePages[r]) /\ T \subseteq Redirects[r] /\ Gone(Redirects[r] \ T)
        /\ r \notin markers \ misread
    BY <2>r, <2>1 DEF DocumentsInv, ImportedSoFar, ImportWanted
  <2>4. ASSUME NEW g \in T, document[g] = "published",
               Continue(p, [at |-> "retiredPath", release |-> r, todo |-> T \ {g}, page |-> g]),
               document' = [document EXCEPT ![g] = "archived"], touched' = r
        PROVE  DocumentsInv'
    <3>1. PICK c : c = [at |-> "retiredPath", release |-> r, todo |-> T \ {g}, page |-> g] /\ Continue(p, c)
      BY <2>r, <2>4
    <3>2. c \in DocumentCalls /\ c.at = "retiredPath" /\ c.release = r /\ c.todo = T \ {g} /\ c.page = g
      BY <2>r, <2>1, <3>1, DocumentCallForms
    <3>3. /\ HandlersIn("documents", DocumentCalls)' /\ service' = "documents"
          /\ InFlight' = {p} /\ req'[p] = c /\ serving = None
      BY <2>r, <2>1, <3>1, <3>2, DocumentGoes
    <3>4. /\ document' \in [Pages -> {"published", "archived", None}] /\ document'[g] = "archived"
          /\ \A h \in Pages \ {g} : document'[h] = document[h]
      BY <2>r, <1>t, <2>1, <2>4
    <3>5. ImportWhole'
      BY <2>r, <2>1, <2>2, <2>4, ImportTouched
    <3>6. g \notin ReleasePages[r]
      BY <2>r, <1>t, <2>1, <2>3, <2>4
    <3>7. Carried(r, ReleasePages[r])'
      BY <2>r, <1>t, <2>1, <2>2, <2>3, <3>4, <3>6 DEF Carried
    <3>8. Gone(Redirects[r] \ (T \ {g}))' /\ T \ {g} \subseteq Redirects[r]
      BY <2>r, <1>t, <2>1, <2>3, <3>4 DEF Gone
    <3>9. ImportedSoFar(p)' /\ ImportWanted(p)'
      BY <2>r, <2>2, <2>3, <2>4, <3>2, <3>3, <3>7, <3>8 DEF ImportedSoFar, ImportWanted
    <3>10. CatalogueReadable'
      BY <2>r, <1>t, <2>1, <2>2, <3>4 DEF DocumentsInv, CatalogueReadable, Summaries
    <3> QED
      BY <2>r, <1>t, <2>1, <2>2, <2>4, <3>3, <3>4, <3>5, <3>9, <3>10 DEF DocumentsInv, DocumentsTypeOK, StartedAlone
  <2>5. ASSUME NEW g \in T, document[g] # "published", Continue(p, [req[p] EXCEPT !.todo = @ \ {g}]),
               UNCHANGED <<document, touched>>
        PROVE  DocumentsInv'
    <3>1. PICK c : c = [req[p] EXCEPT !.todo = @ \ {g}] /\ Continue(p, c)
      BY <2>r, <2>5
    <3>2. c \in DocumentCalls /\ c.at = "retire" /\ c.release = r /\ c.todo = T \ {g}
      BY <2>r, <2>1, <2>5, <3>1, DocumentSkips
    <3>3. /\ HandlersIn("documents", DocumentCalls)' /\ service' = "documents"
          /\ InFlight' = {p} /\ req'[p] = c /\ serving = None
      BY <2>r, <2>1, <3>1, <3>2, DocumentGoes
    <3>4. Carried(r, ReleasePages[r])'
      BY <2>r, <2>2, <2>3, <2>5 DEF Carried
    <3>5. Gone(Redirects[r] \ (T \ {g}))' /\ T \ {g} \subseteq Redirects[r]
      BY <2>r, <2>3, <2>5 DEF Gone
    <3>6. ImportedSoFar(p)' /\ ImportWanted(p)'
      BY <2>r, <2>2, <2>3, <3>2, <3>3, <3>4, <3>5 DEF ImportedSoFar, ImportWanted
    <3>7. ImportWhole' /\ CatalogueReadable'
      BY <2>r, <2>2, <2>5, ImportKept
    <3> QED
      BY <2>r, <1>t, <2>2, <2>5, <3>3, <3>6, <3>7 DEF DocumentsInv, DocumentsTypeOK, StartedAlone
  <2>6. CASE T = {} /\ Goto(p, "mark") /\ UNCHANGED <<document, touched>>
    <3>1. PICK c : c = [req[p] EXCEPT !.at = "mark"] /\ Continue(p, c)
      BY <2>r, <2>6 DEF Goto
    <3>2. c \in DocumentCalls /\ c.at = "mark" /\ c.release = r
      BY <2>r, <2>1, <3>1, DocumentCallMoved
    <3>3. /\ HandlersIn("documents", DocumentCalls)' /\ service' = "documents"
          /\ InFlight' = {p} /\ req'[p] = c /\ serving = None
      BY <2>r, <2>1, <3>1, <3>2, DocumentGoes
    <3>4. Carried(r, ReleasePages[r])' /\ Gone(Redirects[r])'
      BY <2>r, <2>2, <2>3, <2>6 DEF Carried, Gone
    <3>5. ImportedSoFar(p)' /\ ImportWanted(p)'
      BY <2>r, <2>2, <2>3, <3>2, <3>3, <3>4 DEF ImportedSoFar, ImportWanted
    <3>6. ImportWhole' /\ CatalogueReadable'
      BY <2>r, <2>2, <2>6, ImportKept
    <3> QED
      BY <2>r, <1>t, <2>2, <2>6, <3>3, <3>5, <3>6 DEF DocumentsInv, DocumentsTypeOK, StartedAlone
  <2> QED
    BY <2>r, <1>6, <2>4, <2>5, <2>6 DEF Retire
<1>7. ASSUME NEW p \in Requests, SetMarker(p)
      PROVE  DocumentsInv'
  <2>r. PICK r : r = req[p].release
    OBVIOUS
  <2>1. p \in InFlight /\ req[p].at = "mark" /\ r \in Releases
    BY <2>r, <1>7, DocumentCallsAreCalls DEF SetMarker, At
  <2>2. /\ Return(p) /\ markers' = markers \cup {r} /\ serving' = r /\ misread' = misread \ {r}
        /\ UNCHANGED <<document, revision, paths, touched>>
    BY <2>r, <1>7 DEF SetMarker
  <2>3. HandlersIn("documents", DocumentCalls)' /\ service' = "documents" /\ InFlight' = {}
    BY <2>r, <2>1, <2>2, DocumentEnds
  <2>4. Carried(r, ReleasePages[r]) /\ Gone(Redirects[r])
    BY <2>r, <2>1 DEF DocumentsInv, ImportedSoFar
  <2>5. ImportWhole'
    BY <2>r, <2>2, <2>4 DEF DocumentsInv, ImportWhole, Carried, Gone
  <2>6. CatalogueReadable'
    BY <2>r, <2>2 DEF DocumentsInv, CatalogueReadable, Summaries
  <2> QED
    BY <2>r, <1>t, <2>1, <2>2, <2>3, <2>5, <2>6 DEF DocumentsInv, DocumentsTypeOK, StartedAlone
<1>8. ASSUME NEW p \in Requests, FailSeed(p)
      PROVE  DocumentsInv'
  <2>r. PICK r : r = req[p].release
    OBVIOUS
  <2>1. p \in InFlight /\ r \in Releases
    BY <2>r, <1>8, DocumentCallsAreCalls DEF FailSeed
  <2>2. UNCHANGED <<document, revision, paths, markers, serving, touched>>
    BY <2>r, <1>8 DEF FailSeed
  <2>3. CatalogueReadable'
    BY <2>r, <2>2 DEF DocumentsInv, CatalogueReadable, Summaries
  <2>4. CASE req[p].at = "marker"
    <3>1. PICK c : c = [at |-> "pages", release |-> r, todo |-> ReleasePages[r]] /\ Fault(p, c)
      BY <2>r, <1>8, <2>1, <2>4 DEF FailSeed, At
    <3>2. c \in DocumentCalls /\ c.at = "pages" /\ c.release = r /\ c.todo = ReleasePages[r] /\ c # None
      BY <2>r, <1>t, <2>1, <3>1, DocumentCallForms, DocumentCallsAreCalls
    <3>3. misread' = misread \cup {r}
      BY <2>r, <1>8, <2>1, <2>4 DEF FailSeed, At
    <3>4. /\ req' \in [Requests -> DocumentCalls \cup {None}] /\ Moves(p, c)
          /\ faults' \in 0 .. MaxFaults /\ UNCHANGED <<service, begun>>
      BY <2>r, <2>1, <3>1, <3>2, Faulted
    <3>5. service' = "documents" /\ InFlight' = {p} /\ req'[p] = c
      BY <2>r, <2>1, <3>2, <3>4 DEF Moves, InFlight, DocumentsInv
    <3>6. serving = None
      BY <2>r, <2>1 DEF DocumentsInv, StartedAlone
    <3>7. ImportedSoFar(p)' /\ ImportWanted(p)'
      BY <2>r, <2>2, <3>2, <3>3, <3>5 DEF ImportedSoFar, ImportWanted, Carried
    <3>8. ImportWhole'
      BY <2>r, <2>2, <3>3 DEF DocumentsInv, ImportWhole, Carried, Gone
    <3> QED
      BY <2>r, <1>t, <2>1, <2>2, <2>3, <3>3, <3>4, <3>5, <3>6, <3>7, <3>8 DEF DocumentsInv, DocumentsTypeOK, StartedAlone, HandlersIn
  <2>5. CASE req[p].at # "marker"
    <3>1. Fault(p, None) /\ misread' = misread
      BY <2>r, <1>8, <2>5 DEF FailSeed, At
    <3>2. HandlersIn("documents", DocumentCalls)' /\ service' = "documents" /\ InFlight' = {}
      BY <2>r, <2>1, <3>1, DocumentEnds
    <3>3. ImportWhole'
      BY <2>r, <2>2, <3>1, ImportKept
    <3> QED
      BY <2>r, <1>t, <2>2, <2>3, <3>1, <3>2, <3>3 DEF DocumentsInv, DocumentsTypeOK, StartedAlone
  <2> QED
    BY <2>r, <2>4, <2>5
<1>9. CASE CrashSeed
  <2>1. Crash /\ UNCHANGED documentVars
    BY <1>9 DEF CrashSeed
  <2>2. /\ req' \in [Requests -> DocumentCalls \cup {None}] /\ \A p \in Requests : req'[p] = None
        /\ faults' \in 0 .. MaxFaults /\ UNCHANGED <<service, begun>>
    BY <2>1, Crashed
  <2>3. InFlight' = {} /\ service' = "documents"
    BY <2>2 DEF InFlight, DocumentsInv
  <2>4. ImportWhole' /\ CatalogueReadable'
    BY <2>1, ImportKept DEF documentVars
  <2> QED
    BY <1>t, <2>1, <2>2, <2>3, <2>4 DEF DocumentsInv, DocumentsTypeOK, StartedAlone, HandlersIn, documentVars
<1>10. CASE UNCHANGED <<handlers, documentVars>>
  <2>1. UNCHANGED <<service, req, begun, faults, document, revision, paths, markers, serving, touched, misread>>
    BY <1>10 DEF handlers, documentVars
  <2>2. InFlight' = InFlight
    BY <2>1 DEF InFlight
  <2>3. \A p \in InFlight' : ImportedSoFar(p)' /\ ImportWanted(p)'
    BY <2>1, <2>2 DEF DocumentsInv, ImportedSoFar, ImportWanted, Carried, Gone
  <2>4. ImportWhole' /\ CatalogueReadable'
    BY <2>1, ImportKept
  <2> QED
    BY <1>t, <2>1, <2>2, <2>3, <2>4 DEF DocumentsInv, DocumentsTypeOK, StartedAlone, HandlersIn
<1> QED
  BY <1>1, <1>2, <1>3, <1>4, <1>5, <1>6, <1>7, <1>8, <1>9, <1>10 DEF DocumentsNext

\* A step that a release writes in is a step of its import, and wanted.
LEMMA WritesWanted ==
  ASSUME DocumentsInv, [DocumentsNext]_<<handlers, documentVars>>, NEW r \in markers \ misread,
         touched' = r
  PROVE  touched = r
<1> USE DocumentHandlers
<1>1. ASSUME NEW p \in InFlight, req[p].at # "marker"
      PROVE  req[p].release # r
  BY <1>1 DEF DocumentsInv, ImportWanted
<1>2. ASSUME NEW p \in Requests, PutRevision(p)
      PROVE  touched = r
  BY <1>1, <1>2 DEF PutRevision, At
<1>3. ASSUME NEW p \in Requests, Retire(p)
      PROVE  touched = r
  BY <1>1, <1>3 DEF Retire, At
<1>4. ASSUME NEW p \in Requests,
             \/ \E s \in Releases : Start(p, s)
             \/ CheckMarker(p) \/ UpsertDocument(p) \/ IndexPath(p) \/ SetMarker(p) \/ FailSeed(p)
      PROVE  touched = r
  BY <1>4 DEF Start, CheckMarker, UpsertDocument, IndexPath, SetMarker, FailSeed
<1>5. CASE CrashSeed \/ UNCHANGED <<handlers, documentVars>>
  BY <1>5 DEF CrashSeed, documentVars
<1> QED
  BY <1>2, <1>3, <1>4, <1>5 DEF DocumentsNext

LEMMA ServedReleases ==
  ASSUME DocumentsInv
  PROVE  CatalogueReadable /\ ReleaseServed
<1>1. ASSUME serving # None, touched = serving, serving \notin misread
      PROVE  /\ \A g \in ReleasePages[serving] : g \in PublishedTranslations /\ PublishedView(g) = serving
             /\ Redirects[serving] \cap Summaries = {}
  <2>1. serving \in markers \ misread /\ serving \in Releases
    BY <1>1 DEF DocumentsInv, DocumentsTypeOK
  <2>2. Carried(serving, ReleasePages[serving]) /\ Gone(Redirects[serving])
    BY <1>1, <2>1 DEF DocumentsInv, ImportWhole
  <2>3. ReleasePages[serving] \subseteq Pages
    BY <2>1, ReleasesAssumption
  <2>4. ASSUME NEW g \in ReleasePages[serving]
        PROVE  g \in PublishedTranslations /\ PublishedView(g) = serving
    BY <1>1, <2>2, <2>3 DEF Carried, PublishedTranslations, PublishedView, Summaries
  <2> QED
    BY <2>2, <2>4 DEF Gone, Summaries
<1> QED
  BY <1>1 DEF ReleaseServed, DocumentsInv

\* The documentation, whatever releases start, in whatever order, and wherever a start fails
\* or dies: every page of the catalogue has a content, a release that was the last to write
\* serves its own pages and none it retired, and a release that was imported is not again.
THEOREM ReleasesServed == DocumentsSpec => DocumentsPromise
<1>1. DocumentsInv /\ [DocumentsNext]_<<handlers, documentVars>> =>
        [\A r \in markers \ misread : touched' = r => touched = r]_documentVars
  BY WritesWanted
<1>2. DocumentsInv => CatalogueReadable /\ ReleaseServed
  BY ServedReleases
<1>3. DocumentsSpec => []DocumentsInv
  BY DocumentsStart, DocumentsKept, PTL DEF DocumentsSpec
<1> QED
  BY <1>1, <1>2, <1>3, PTL DEF DocumentsSpec, DocumentsPromise, ImportedOnce

-----------------------------------------------------------------------------
(* Votes and views.                                                        *)

VotesSpec == HandlersInit /\ service = "votes" /\ VotesInit /\ [][VotesNext]_<<handlers, voteVars>>

\* What a transaction read is what is stored, unless it will fail.
VoteRead(p) ==
  LET r == req[p] IN
  /\ r.at = "commit" /\ ~ r.stale => r.old = vote[r.target][r.voter] /\ r.score = score[r.target]
  /\ r.at = "count" /\ ~ r.stale => r.seen = views[r.target]

VotesInv ==
  /\ service = "votes" /\ VotesTypeOK /\ ScoresExact /\ ViewsExact
  /\ \A p \in InFlight : VoteRead(p)

VoteForms ==
  [at : {"target", "read", "commit"}, target : Targets, voter : Voters, value : Values,
   old : Values, score : Int, stale : BOOLEAN]
ViewForms == [at : {"count"}, target : Targets, seen : Nat, stale : BOOLEAN]

LEMMA VoteKinds ==
  /\ VoteCalls = VoteForms \cup ViewForms
  /\ \A c \in VoteCalls : /\ c.at \in {"target", "read", "commit"} => c \in VoteForms
                          /\ c.at = "count" => c \in ViewForms
                          /\ c.target \in Targets /\ c.stale \in BOOLEAN
                          /\ c.at \in {"target", "read", "commit", "count"}
BY DEF VoteCalls, VoteForms, ViewForms

LEMMA VoteHandlers ==
  ASSUME VotesInv
  PROVE  /\ Handling("votes", VoteCalls) /\ None \notin VoteCalls
         /\ \A p \in InFlight : p \in Requests /\ req[p] \in VoteCalls
         /\ vote \in [Targets -> [Voters -> Values]]
         /\ score \in [Targets -> Int] /\ views \in [Targets -> Nat] /\ viewed \in [Targets -> Nat]
<1>1. Handling("votes", VoteCalls)
  BY DEF VotesInv, VotesTypeOK, Handling
<1> QED
  BY <1>1, HandledCalls, VotesAssumption DEF VotesInv, VotesTypeOK

\* The call of a transaction after another one committed.
Disturbed(c, place, t) == IF c.at = place /\ c.target = t THEN [c EXCEPT !.stale = TRUE] ELSE c

LEMMA DisturbedCall ==
  ASSUME NEW c \in VoteCalls, NEW place, NEW t
  PROVE  /\ Disturbed(c, place, t) \in VoteCalls
         /\ Disturbed(c, place, t).at = c.at /\ Disturbed(c, place, t).target = c.target
         /\ ~ Disturbed(c, place, t).stale => Disturbed(c, place, t) = c /\ ~ (c.at = place /\ c.target = t)
<1>1. CASE c \in VoteForms
  BY <1>1, VoteKinds DEF Disturbed, VoteForms
<1>2. CASE c \in ViewForms
  BY <1>2, VoteKinds DEF Disturbed, ViewForms
<1> QED
  BY <1>1, <1>2, VoteKinds

\* A commit ends its transaction, and those it disturbed will fail.
LEMMA TransactionCommits ==
  ASSUME VotesInv, NEW p \in InFlight, NEW place, Commit(p, place)
  PROVE  /\ Handling("votes", VoteCalls)' /\ InFlight' = InFlight \ {p}
         /\ \A q \in InFlight \ {p} : req'[q] = Disturbed(req[q], place, req[p].target)
<1> USE VoteHandlers
<1>1. /\ UNCHANGED <<service, begun, faults>> /\ req' \in [Requests -> VoteCalls \cup {None}]
      /\ req'[p] = None
      /\ \A q \in InFlight \ {p} : req'[q] = Disturbed(req[q], place, req[p].target)
      /\ \A q \in Requests \ {p} : req[q] = None => req'[q] = None
  <2>1. UNCHANGED <<service, begun, faults>>
    BY DEF Commit
  <2>2. \A q \in Requests :
          req'[q] = IF q = p THEN None
                    ELSE IF q \in InFlight THEN Disturbed(req[q], place, req[p].target) ELSE req[q]
    BY DEF Commit, At, Disturbed
  <2>3. \A q \in Requests : req'[q] \in VoteCalls \cup {None}
    BY <2>2, DisturbedCall DEF InFlight
  <2>4. req' \in [Requests -> VoteCalls \cup {None}]
    BY <2>3 DEF Commit
  <2> QED
    BY <2>1, <2>2, <2>4 DEF InFlight
<1>2. Handling("votes", VoteCalls)'
  BY <1>1 DEF Handling, HandlersIn
<1>3. InFlight' = InFlight \ {p}
  <2>1. \A q \in InFlight \ {p} : req'[q] # None
    BY <1>1, DisturbedCall
  <2>2. \A q \in Requests : req'[q] # None <=> q \in InFlight \ {p}
    BY <1>1, <2>1 DEF InFlight
  <2> QED
    BY <2>2 DEF InFlight
<1> QED
  BY <1>1, <1>2, <1>3

\* A handler starts, goes on or ends, and nothing is stored.
LEMMA VoteStays ==
  ASSUME VotesInv, NEW p \in Requests, UNCHANGED voteVars, Handling("votes", VoteCalls)',
         InFlight' \subseteq InFlight \cup {p},
         \A q \in Requests \ {p} : req'[q] = req[q],
         p \in InFlight' => VoteRead(p)'
  PROVE  VotesInv'
<1>1. service' = "votes" /\ VotesTypeOK' /\ ScoresExact' /\ ViewsExact'
  BY DEF VotesInv, VotesTypeOK, ScoresExact, VotersOf, ViewsExact, voteVars, Handling
<1>2. ASSUME NEW q \in InFlight, q # p
      PROVE  VoteRead(q)'
  <2>1. q \in Requests
    BY VoteHandlers
  <2> QED
    BY <1>2, <2>1 DEF VotesInv, VoteRead, voteVars
<1> QED
  BY <1>1, <1>2 DEF VotesInv

\* One voter's vote changes the number of votes of a kind by at most one.
LEMMA VotersCounted ==
  ASSUME VotesInv, NEW t \in Targets, NEW a \in Voters, NEW v \in Values,
         vote' = [vote EXCEPT ![t][a] = v], NEW w \in {1, -1}
  PROVE  /\ Cardinality(VotersOf(t, w)') = Cardinality(VotersOf(t, w))
              + (IF v = w THEN 1 ELSE 0) - (IF vote[t][a] = w THEN 1 ELSE 0)
         /\ Cardinality(VotersOf(t, w)) \in Nat
<1> USE VoteHandlers
<1>1. PICK of, of2 : of = VotersOf(t, w) /\ of2 = VotersOf(t, w)'
  OBVIOUS
<1>2. IsFiniteSet(of) /\ Cardinality(of) \in Nat
  BY <1>1, VotesAssumption, FS_Subset, FS_CardinalityType DEF VotersOf
<1>3. /\ vote'[t][a] = v /\ \A b \in Voters \ {a} : vote'[t][b] = vote[t][b]
  OBVIOUS
<1>4. of2 = IF v = w THEN of \cup {a} ELSE of \ {a}
  BY <1>1, <1>3 DEF VotersOf
<1>5. a \in of <=> vote[t][a] = w
  BY <1>1 DEF VotersOf
<1>6. CASE v = w
  <2>1. Cardinality(of \cup {a}) = IF a \in of THEN Cardinality(of) ELSE Cardinality(of) + 1
    BY <1>2, FS_AddElement
  <2> QED
    BY <1>1, <1>2, <1>4, <1>5, <1>6, <2>1
<1>7. CASE v # w
  <2>1. Cardinality(of \ {a}) = IF a \in of THEN Cardinality(of) - 1 ELSE Cardinality(of)
    BY <1>2, FS_RemoveElement
  <2> QED
    BY <1>1, <1>2, <1>4, <1>5, <1>7, <2>1
<1> QED
  BY <1>6, <1>7

LEMMA VotesStart == HandlersInit /\ service = "votes" /\ VotesInit => VotesInv
<1> SUFFICES ASSUME HandlersInit, service = "votes", VotesInit
             PROVE  VotesInv
  OBVIOUS
<1>1. Handling("votes", VoteCalls) /\ InFlight = {}
  BY Starts
<1>2. VotesTypeOK
  BY <1>1 DEF VotesTypeOK, Handling, VotesInit, Values
<1>3. ScoresExact
  <2> SUFFICES ASSUME NEW t \in Targets
               PROVE  score[t] = Cardinality(VotersOf(t, 1)) - Cardinality(VotersOf(t, -1))
    BY DEF ScoresExact
  <2>1. VotersOf(t, 1) = {} /\ VotersOf(t, -1) = {}
    BY DEF VotersOf, VotesInit
  <2> QED
    BY <2>1, FS_EmptySet DEF VotesInit
<1> QED
  BY <1>1, <1>2, <1>3 DEF VotesInv, ViewsExact, VotesInit

LEMMA VotesKept == VotesInv /\ [VotesNext]_<<handlers, voteVars>> => VotesInv'
<1> SUFFICES ASSUME VotesInv, [VotesNext]_<<handlers, voteVars>>
             PROVE  VotesInv'
  OBVIOUS
<1> USE VoteHandlers
<1>1. ASSUME NEW p \in Requests, NEW t \in Targets, NEW a \in Voters, NEW v \in Values, Vote(p, t, a, v)
      PROVE  VotesInv'
  <2>1. PICK c : /\ c = [at |-> "target", target |-> t, voter |-> a, value |-> v, old |-> 0, score |-> 0,
                         stale |-> FALSE]
                 /\ Begin(p, c)
    BY <1>1 DEF Vote
  <2>2. c \in VoteCalls /\ c.at = "target"
    BY <2>1, VoteKinds DEF VoteForms, Values
  <2>3. Handling("votes", VoteCalls)' /\ InFlight' = InFlight \cup {p} /\ req'[p] = c
        /\ \A q \in Requests \ {p} : req'[q] = req[q]
    BY <2>1, <2>2, Begins
  <2>4. VoteRead(p)'
    BY <2>2, <2>3 DEF VoteRead
  <2> QED
    BY <1>1, <2>3, <2>4, VoteStays DEF Vote
<1>2. ASSUME NEW p \in Requests, NEW t \in Targets, ReadViews(p, t)
      PROVE  VotesInv'
  <2>1. PICK c : c = [at |-> "count", target |-> t, seen |-> views[t], stale |-> FALSE] /\ Begin(p, c)
    BY <1>2 DEF ReadViews
  <2>2. c \in VoteCalls /\ c.at = "count" /\ c.target = t /\ c.seen = views[t]
    BY <2>1, VoteKinds DEF ViewForms
  <2>3. Handling("votes", VoteCalls)' /\ InFlight' = InFlight \cup {p} /\ req'[p] = c
        /\ \A q \in Requests \ {p} : req'[q] = req[q]
    BY <2>1, <2>2, Begins
  <2>4. UNCHANGED voteVars
    BY <1>2 DEF ReadViews
  <2>5. VoteRead(p)'
    BY <2>2, <2>3, <2>4 DEF VoteRead, voteVars
  <2> QED
    BY <2>3, <2>4, <2>5, VoteStays
<1>3. ASSUME NEW p \in InFlight, Return(p) \/ Fault(p, None), UNCHANGED voteVars
      PROVE  VotesInv'
  <2>1. Handling("votes", VoteCalls)' /\ InFlight' = InFlight \ {p}
        /\ \A q \in Requests \ {p} : req'[q] = req[q]
    BY <1>3, Ends
  <2> QED
    BY <1>3, <2>1, VoteStays
<1>4. ASSUME NEW p \in Requests, CheckTarget(p)
      PROVE  VotesInv'
  <2>1. p \in InFlight /\ req[p].at = "target" /\ req[p] \in VoteForms /\ UNCHANGED voteVars
    BY <1>4, VoteKinds DEF CheckTarget, At
  <2>2. CASE Goto(p, "read")
    <3>1. PICK c : c = [req[p] EXCEPT !.at = "read"] /\ Continue(p, c)
      BY <2>2 DEF Goto
    <3>2. c \in VoteForms /\ c.at = "read"
      BY <2>1, <3>1 DEF VoteForms
    <3>3. c \in VoteCalls
      BY <3>2, VoteKinds
    <3>4. Handling("votes", VoteCalls)' /\ begun' = begun /\ InFlight' = InFlight /\ req'[p] = c
          /\ \A q \in Requests \ {p} : req'[q] = req[q]
      BY <2>1, <3>1, <3>3, Goes
    <3>5. VoteRead(p)'
      BY <3>2, <3>4 DEF VoteRead
    <3> QED
      BY <2>1, <3>4, <3>5, VoteStays
  <2> QED
    BY <1>3, <1>4, <2>1, <2>2 DEF CheckTarget
<1>5. ASSUME NEW p \in Requests, ReadVote(p)
      PROVE  VotesInv'
  <2>r. PICK r, old, sum : r = req[p] /\ old = vote[r.target][r.voter] /\ sum = score[r.target]
    OBVIOUS
  <2>1. p \in InFlight /\ r.at = "read" /\ r \in VoteForms /\ UNCHANGED voteVars
    BY <1>5, <2>r, VoteKinds DEF ReadVote, At
  <2>2. old \in Values /\ sum \in Int
    BY <2>r, <2>1 DEF VoteForms
  <2>3. PICK c : c = [r EXCEPT !.at = "commit", !.old = old, !.score = sum] /\ Continue(p, c)
    BY <1>5, <2>r DEF ReadVote
  <2>4. c \in VoteForms /\ c.at = "commit" /\ c.old = old /\ c.score = sum /\ c.target = r.target /\ c.voter = r.voter
    BY <2>1, <2>2, <2>3 DEF VoteForms
  <2>5. c \in VoteCalls
    BY <2>4, VoteKinds
  <2>6. Handling("votes", VoteCalls)' /\ begun' = begun /\ InFlight' = InFlight /\ req'[p] = c
        /\ \A q \in Requests \ {p} : req'[q] = req[q]
    BY <2>1, <2>3, <2>5, Goes
  <2>7. VoteRead(p)'
    BY <2>r, <2>1, <2>4, <2>6 DEF VoteRead, voteVars
  <2> QED
    BY <2>1, <2>6, <2>7, VoteStays
<1>6. ASSUME NEW p \in Requests, SetVote(p)
      PROVE  VotesInv'
  <2>r. PICK r, t, a, v : r = req[p] /\ t = r.target /\ a = r.voter /\ v = r.value
    OBVIOUS
  <2>1. p \in InFlight /\ r.at = "commit" /\ r \in VoteForms /\ UNCHANGED <<views, viewed>>
    BY <1>6, <2>r, VoteKinds DEF SetVote, At
  <2>2. CASE r.stale
    BY <1>3, <1>6, <2>r, <2>1, <2>2 DEF SetVote, voteVars
  <2>3. CASE ~ r.stale
    <3>1. /\ Commit(p, "commit") /\ score' = [score EXCEPT ![t] = r.score + v - r.old]
          /\ vote' = [vote EXCEPT ![t][a] = v]
      BY <1>6, <2>r, <2>3 DEF SetVote
    <3>2. t \in Targets /\ a \in Voters /\ v \in Values /\ r.old = vote[t][a] /\ r.score = score[t]
      BY <2>r, <2>1, <2>3 DEF VotesInv, VoteRead, VoteForms
    <3>3. /\ Handling("votes", VoteCalls)' /\ InFlight' = InFlight \ {p}
          /\ \A q \in InFlight \ {p} : req'[q] = Disturbed(req[q], "commit", t)
      BY <2>r, <2>1, <3>1, TransactionCommits
    <3>4. score[t] + v - vote[t][a] \in Int
      BY <3>2 DEF Values
    <3>5. /\ vote' \in [Targets -> [Voters -> Values]] /\ score' \in [Targets -> Int]
          /\ score'[t] = score[t] + v - vote[t][a]
          /\ \A u \in Targets \ {t} : score'[u] = score[u] /\ vote'[u] = vote[u]
      BY <3>1, <3>2, <3>4
    <3>6. service' = "votes" /\ VotesTypeOK'
      BY <2>1, <3>3, <3>5 DEF VotesTypeOK, Handling
    <3>7. ScoresExact'
      <4> SUFFICES ASSUME NEW u \in Targets
                   PROVE  score'[u] = Cardinality(VotersOf(u, 1)') - Cardinality(VotersOf(u, -1)')
        BY DEF ScoresExact
      <4>1. score[u] = Cardinality(VotersOf(u, 1)) - Cardinality(VotersOf(u, -1))
        BY DEF VotesInv, ScoresExact
      <4>2. CASE u = t
        <5>1. /\ Cardinality(VotersOf(t, 1)') = Cardinality(VotersOf(t, 1))
                   + (IF v = 1 THEN 1 ELSE 0) - (IF vote[t][a] = 1 THEN 1 ELSE 0)
              /\ Cardinality(VotersOf(t, 1)) \in Nat
          BY <3>1, <3>2, VotersCounted
        <5>2. /\ Cardinality(VotersOf(t, -1)') = Cardinality(VotersOf(t, -1))
                   + (IF v = -1 THEN 1 ELSE 0) - (IF vote[t][a] = -1 THEN 1 ELSE 0)
              /\ Cardinality(VotersOf(t, -1)) \in Nat
          BY <3>1, <3>2, VotersCounted
        <5>3. v \in -1 .. 1 /\ vote[t][a] \in -1 .. 1
          BY <3>2 DEF Values
        <5>4. PICK up, down, up2, down2, old :
                /\ up = Cardinality(VotersOf(t, 1)) /\ down = Cardinality(VotersOf(t, -1))
                /\ up2 = Cardinality(VotersOf(t, 1)') /\ down2 = Cardinality(VotersOf(t, -1)')
                /\ old = vote[t][a]
          OBVIOUS
        <5>5. up2 - down2 = up - down + v - old
          BY <5>1, <5>2, <5>3, <5>4
        <5>6. score'[t] = up - down + v - old
          BY <3>5, <4>1, <4>2, <5>4
        <5> QED
          BY <4>2, <5>4, <5>5, <5>6
      <4>3. CASE u # t
        <5>1. VotersOf(u, 1)' = VotersOf(u, 1) /\ VotersOf(u, -1)' = VotersOf(u, -1)
          BY <3>5, <4>3 DEF VotersOf
        <5> QED
          BY <3>5, <4>1, <4>3, <5>1
      <4> QED
        BY <4>2, <4>3
    <3>8. ViewsExact'
      BY <2>1 DEF VotesInv, ViewsExact
    <3>9. ASSUME NEW q \in InFlight \ {p}
          PROVE  VoteRead(q)'
      <4>1. PICK c, d : c = req[q] /\ d = Disturbed(c, "commit", t) /\ req'[q] = d
        BY <3>3
      <4>2. c \in VoteCalls /\ d.at = c.at /\ d.target = c.target /\ d.target \in Targets
            /\ (~ d.stale => d = c /\ ~ (c.at = "commit" /\ c.target = t))
        BY <4>1, DisturbedCall, VoteKinds
      <4> QED
        BY <2>1, <3>5, <4>1, <4>2 DEF VotesInv, VoteRead
    <3> QED
      BY <3>3, <3>6, <3>7, <3>8, <3>9 DEF VotesInv
  <2> QED
    BY <2>2, <2>3
<1>7. ASSUME NEW p \in Requests, RecordView(p)
      PROVE  VotesInv'
  <2>r. PICK r, t : r = req[p] /\ t = r.target
    OBVIOUS
  <2>1. p \in InFlight /\ r.at = "count" /\ r \in ViewForms /\ UNCHANGED <<vote, score>>
    BY <1>7, <2>r, VoteKinds DEF RecordView, At
  <2>2. CASE r.stale
    BY <1>3, <1>7, <2>r, <2>1, <2>2 DEF RecordView, voteVars
  <2>3. CASE ~ r.stale
    <3>1. /\ Commit(p, "count") /\ views' = [views EXCEPT ![t] = r.seen + 1]
          /\ viewed' = [viewed EXCEPT ![t] = @ + 1]
      BY <1>7, <2>r, <2>3 DEF RecordView
    <3>2. t \in Targets /\ r.seen = views[t] /\ r.seen \in Nat
      BY <2>r, <2>1, <2>3 DEF VotesInv, VoteRead, ViewForms
    <3>3. /\ Handling("votes", VoteCalls)' /\ InFlight' = InFlight \ {p}
          /\ \A q \in InFlight \ {p} : req'[q] = Disturbed(req[q], "count", t)
      BY <2>r, <2>1, <3>1, TransactionCommits
    <3>4. /\ views' \in [Targets -> Nat] /\ viewed' \in [Targets -> Nat]
          /\ views'[t] = views[t] + 1 /\ viewed'[t] = viewed[t] + 1
          /\ \A u \in Targets \ {t} : views'[u] = views[u] /\ viewed'[u] = viewed[u]
      BY <3>1, <3>2
    <3>5. service' = "votes" /\ VotesTypeOK'
      BY <2>1, <3>3, <3>4 DEF VotesTypeOK, Handling
    <3>6. ScoresExact'
      BY <2>1 DEF VotesInv, ScoresExact, VotersOf
    <3>7. ViewsExact'
      BY <3>4 DEF VotesInv, ViewsExact
    <3>8. ASSUME NEW q \in InFlight \ {p}
          PROVE  VoteRead(q)'
      <4>1. PICK c, d : c = req[q] /\ d = Disturbed(c, "count", t) /\ req'[q] = d
        BY <3>3
      <4>2. c \in VoteCalls /\ d.at = c.at /\ d.target = c.target /\ d.target \in Targets
            /\ (~ d.stale => d = c /\ ~ (c.at = "count" /\ c.target = t))
        BY <4>1, DisturbedCall, VoteKinds
      <4> QED
        BY <2>1, <3>4, <4>1, <4>2 DEF VotesInv, VoteRead
    <3> QED
      BY <3>3, <3>5, <3>6, <3>7, <3>8 DEF VotesInv
  <2> QED
    BY <2>2, <2>3
<1>8. ASSUME CrashVotes
      PROVE  VotesInv'
  <2>1. Handling("votes", VoteCalls)' /\ InFlight' = {} /\ UNCHANGED voteVars
    BY <1>8, Dies DEF CrashVotes
  <2> QED
    BY <2>1 DEF VotesInv, VotesTypeOK, ScoresExact, VotersOf, ViewsExact, voteVars, Handling
<1>9. ASSUME UNCHANGED <<handlers, voteVars>>
      PROVE  VotesInv'
  <2>1. Handling("votes", VoteCalls)' /\ InFlight' = InFlight /\ req' = req
    BY <1>9, Rests
  <2> QED
    BY <1>9, <2>1 DEF VotesInv, VotesTypeOK, VoteRead, ScoresExact, VotersOf, ViewsExact, voteVars, Handling
<1> QED
  BY <1>1, <1>2, <1>3, <1>4, <1>5, <1>6, <1>7, <1>8, <1>9 DEF VotesNext, FailVote

\* The score of a target is what its votes add up to, and its views are those that were
\* answered, however many transactions overlap.
THEOREM VotesKeepTheirPromise == VotesSpec => []VotesPromise
<1>1. VotesSpec => []VotesInv
  BY VotesStart, VotesKept, PTL DEF VotesSpec
<1>2. VotesInv => VotesPromise
  BY DEF VotesInv, VotesPromise
<1> QED
  BY <1>1, <1>2, PTL

-----------------------------------------------------------------------------
(* Patches.                                                                *)

PatchesSpec == HandlersInit /\ service = "patches" /\ PatchesInit /\ [][PatchesNext]_<<handlers, patchVars>>

\* A decision is entered in the log after it is made, by its handler.
Deciding(p) ==
  LET r == req[p] IN
  /\ r.id <= begun /\ r.id \notin Range(log)
  /\ r.at \in {"audit", "append"} <=> r.id \in made
  /\ \A q \in InFlight \ {p} : req[q].id # r.id

PatchesInv ==
  /\ service = "patches" /\ PatchesTypeOK /\ log \in Seq(Mail) /\ LogComplete
  /\ made \subseteq 1 .. begun
  /\ \A p \in InFlight : Deciding(p)

LEMMA PatchHandlers ==
  ASSUME PatchesInv
  PROVE  /\ Handling("patches", PatchCalls) /\ None \notin PatchCalls
         /\ begun \in 0 .. MaxRequests /\ MaxRequests \in Nat
         /\ \A p \in InFlight : p \in Requests /\ req[p] \in PatchCalls /\ Deciding(p)
         /\ \A p \in Requests : p \in InFlight <=> req[p] # None
<1>1. Handling("patches", PatchCalls)
  BY DEF PatchesInv, PatchesTypeOK, Handling
<1> QED
  BY <1>1, HandledCalls, PatchesAssumption, HandlersAssumption DEF PatchesInv

\* The log's events, and one more.
LEMMA LogGrows ==
  ASSUME NEW S, NEW l \in Seq(S), IsInjective(l), NEW x \in S, x \notin Range(l)
  PROVE  /\ Append(l, x) \in Seq(S) /\ IsInjective(Append(l, x))
         /\ Range(Append(l, x)) = Range(l) \cup {x}
<1>1. PICK k : k = Append(l, x)
  OBVIOUS
<1>2. PICK n : n = Len(l) /\ n \in Nat
  OBVIOUS
<1>3. /\ k \in Seq(S) /\ DOMAIN k = 1 .. n + 1 /\ k[n + 1] = x /\ DOMAIN l = 1 .. n
      /\ \A i \in 1 .. n : k[i] = l[i]
  BY <1>1, <1>2
<1>4. \A i \in 1 .. n : k[i] # x
  BY <1>3 DEF Range
<1>5. \A i, j \in 1 .. n : k[i] = k[j] => i = j
  BY <1>3 DEF IsInjective
<1>6. \A i \in 1 .. n + 1 : i \in 1 .. n \/ i = n + 1
  BY <1>2
<1>7. IsInjective(k)
  BY <1>3, <1>4, <1>5, <1>6 DEF IsInjective
<1>8. n + 1 \in 1 .. n + 1 /\ 1 .. n \subseteq 1 .. n + 1
  BY <1>2
<1>9. Range(k) = Range(l) \cup {x}
  BY <1>3, <1>6, <1>8 DEF Range
<1> QED
  BY <1>1, <1>3, <1>7, <1>9

LEMMA IntervalSize ==
  ASSUME NEW n \in Nat
  PROVE  IsFiniteSet(1 .. n) /\ Cardinality(1 .. n) = n
BY FS_Interval

\* A log without repetitions is no longer than there are decisions.
LEMMA LogBounded ==
  ASSUME NEW n \in Nat, NEW l \in Seq(1 .. n), IsInjective(l)
  PROVE  Len(l) <= n /\ DOMAIN l = 1 .. Len(l)
<1>1. IsFiniteSet(1 .. n) /\ Cardinality(1 .. n) = n
  BY IntervalSize
<1>2. l \in Injection(1 .. Len(l), 1 .. n)
  BY DEF Injection
<1>3. Cardinality(1 .. Len(l)) <= Cardinality(1 .. n)
  BY <1>1, <1>2, FS_Injection
<1>4. PICK k : k = Len(l) /\ k \in Nat
  OBVIOUS
<1>5. Cardinality(1 .. k) = k
  BY <1>4, IntervalSize
<1> QED
  BY <1>1, <1>3, <1>4, <1>5

\* The types follow from the log's, and from what a step does.
LEMMA LogTyped ==
  ASSUME log \in Seq(Mail), IsInjective(log), Range(log) \subseteq Mail
  PROVE  DOMAIN log \in {1 .. n : n \in 0 .. MaxRequests} /\ Range(log) \subseteq Mail
<1>1. PICK n : n = Len(log) /\ n \in Nat
  OBVIOUS
<1>2. n \in 0 .. MaxRequests /\ DOMAIN log = 1 .. n
  BY <1>1, LogBounded, HandlersAssumption DEF Mail
<1> QED
  BY <1>2

LEMMA PatchesStart == HandlersInit /\ service = "patches" /\ PatchesInit => PatchesInv
<1> SUFFICES ASSUME HandlersInit, service = "patches", PatchesInit
             PROVE  PatchesInv
  OBVIOUS
<1>1. Handling("patches", PatchCalls) /\ InFlight = {}
  BY Starts
<1>2. log \in Seq(Mail) /\ Range(log) = {} /\ IsInjective(log)
  BY DEF PatchesInit, Range, IsInjective
<1>3. DOMAIN log \in {1 .. n : n \in 0 .. MaxRequests} /\ Range(log) \subseteq Mail
  BY <1>2, LogTyped
<1>4. PatchesTypeOK
  BY <1>1, <1>3 DEF PatchesTypeOK, Handling, PatchesInit
<1>5. LogComplete
  BY <1>2 DEF LogComplete, PatchesInit
<1> QED
  BY <1>1, <1>2, <1>4, <1>5 DEF PatchesInv, PatchesInit

\* The handlers whose decision is made, by the calls they are at.
LEMMA PatchPending ==
  ASSUME service = "patches"
  PROVE  \A m : m \in {req[p].id : p \in Unlogged} <=>
           \E p \in InFlight : req[p].at \in {"audit", "append"} /\ req[p].id = m
BY DEF Unlogged, Of

LEMMA Complete ==
  ASSUME PatchesInv
  PROVE  \A m \in made : \/ m \in Range(log) \/ m \in conflicted \/ m \in unlogged
                         \/ \E p \in InFlight : req[p].at \in {"audit", "append"} /\ req[p].id = m
BY PatchPending DEF PatchesInv, LogComplete

\* A step that makes no decision and logs none.
LEMMA NothingDecided ==
  ASSUME PatchesInv, Handling("patches", PatchCalls)', begun' \in {begun, begun + 1},
         UNCHANGED <<log, made, answered, conflicted>>,
         arrived' \in [Mail -> PatchMail \cup {None}],
         UNCHANGED <<review, comment>>,
         unlogged \subseteq unlogged', unlogged' \subseteq Mail,
         \A p \in InFlight' : Deciding(p)',
         \A p \in InFlight : req[p].at \in {"audit", "append"} =>
           \/ p \in InFlight' /\ req'[p].at \in {"audit", "append"} /\ req'[p].id = req[p].id
           \/ req[p].id \in unlogged'
  PROVE  PatchesInv'
<1> USE PatchHandlers
<1>1. service' = "patches" /\ begun' \in Nat
  BY DEF Handling
<1>2. made \subseteq Mail
  BY DEF PatchesInv, PatchesTypeOK
<1>3. PatchesTypeOK'
  BY <1>2 DEF PatchesInv, PatchesTypeOK, Handling
<1>4. \A m \in made : \/ m \in Range(log) \/ m \in conflicted \/ m \in unlogged'
                      \/ \E p \in InFlight' : req'[p].at \in {"audit", "append"} /\ req'[p].id = m
  BY Complete
<1>5. Unlogged' = {p \in InFlight' : req'[p].at \in {"audit", "append"}}
  BY <1>1 DEF Unlogged, Of
<1>6. LogComplete'
  BY <1>4, <1>5 DEF PatchesInv, LogComplete
<1>7. made' \subseteq (1 .. begun)'
  BY DEF PatchesInv
<1> QED
  BY <1>1, <1>3, <1>6, <1>7 DEF PatchesInv

\* Handler p goes on, with its decision made or not as before.
LEMMA PatchGoes ==
  ASSUME PatchesInv, NEW p \in InFlight, NEW c \in PatchCalls, Continue(p, c), UNCHANGED patchVars,
         c.id = req[p].id, c.at \in {"audit", "append"} <=> req[p].at \in {"audit", "append"}
  PROVE  PatchesInv'
<1> USE PatchHandlers
<1>1. /\ Handling("patches", PatchCalls)' /\ begun' = begun /\ InFlight' = InFlight /\ req'[p] = c
      /\ \A q \in Requests \ {p} : req'[q] = req[q]
  BY Goes
<1>2. ASSUME NEW q \in InFlight
      PROVE  /\ req'[q].id = req[q].id
             /\ req'[q].at \in {"audit", "append"} <=> req[q].at \in {"audit", "append"}
  BY <1>1
<1>3. \A q \in InFlight' : Deciding(q)'
  BY <1>1, <1>2 DEF Deciding, patchVars
<1> QED
  BY <1>1, <1>2, <1>3, NothingDecided DEF PatchesInv, PatchesTypeOK, patchVars, LogComplete

\* Handler p is done, or a fault ends it.
LEMMA PatchEnds ==
  ASSUME PatchesInv, NEW p \in InFlight, Return(p) \/ Fault(p, None),
         UNCHANGED <<arrived, review, comment, log, made, answered, conflicted>>,
         unlogged \subseteq unlogged', unlogged' \subseteq unlogged \cup {req[p].id},
         req[p].at \in {"audit", "append"} => req[p].id \in unlogged'
  PROVE  PatchesInv'
<1> USE PatchHandlers
<1>1. /\ Handling("patches", PatchCalls)' /\ begun' = begun /\ InFlight' = InFlight \ {p}
      /\ \A q \in Requests \ {p} : req'[q] = req[q]
  BY Ends
<1>2. \A q \in InFlight' : Deciding(q)'
  BY <1>1 DEF Deciding
<1>3. req[p].id \in Mail
  BY DEF PatchCalls
<1>4. arrived \in [Mail -> PatchMail \cup {None}] /\ unlogged \subseteq Mail
  BY DEF PatchesInv, PatchesTypeOK
<1>5. unlogged' \subseteq Mail
  BY <1>3, <1>4
<1> QED
  BY <1>1, <1>2, <1>4, <1>5, NothingDecided

\* Handler p has made its decision, which is to be logged.
LEMMA DecisionMade ==
  ASSUME PatchesInv, NEW p \in InFlight, req[p].at \in {"get", "store"}, Goto(p, "audit"),
         made' = made \cup {req[p].id}, review' \in [Mail -> Mail \cup {None}],
         comment' \in [Mail -> Mail \cup {None}],
         UNCHANGED <<arrived, log, answered, conflicted, unlogged>>
  PROVE  PatchesInv'
<1> USE PatchHandlers
<1>1. PICK r, c : r = req[p] /\ c = [r EXCEPT !.at = "audit"] /\ Continue(p, c)
  BY DEF Goto
<1>r. r \in PatchCalls /\ r.at \in {"get", "store"} /\ Deciding(p)
  BY <1>1
<1>i. r.id \in Mail /\ r.id <= begun /\ r.id \notin made
  BY <1>1, <1>r DEF PatchCalls, Deciding
<1>c. c \in PatchCalls /\ c.at = "audit" /\ c.id = r.id
  BY <1>1, <1>r DEF PatchCalls
<1>2. c \in PatchCalls /\ c.at = "audit" /\ c.id = r.id /\ r.id \in Mail /\ r.id <= begun /\ r.id \in 1 .. begun
  BY <1>c, <1>i DEF Mail
<1>3. /\ Handling("patches", PatchCalls)' /\ begun' = begun /\ InFlight' = InFlight /\ req'[p] = c
      /\ \A q \in Requests \ {p} : req'[q] = req[q]
  BY <1>1, <1>2, Goes
<1>4. service' = "patches" /\ PatchesTypeOK'
  BY <1>1, <1>2, <1>3 DEF PatchesInv, PatchesTypeOK, Handling
<1>5. \A q \in InFlight' : Deciding(q)'
  <2>1. Deciding(p)'
    BY <1>1, <1>2, <1>3 DEF Deciding
  <2>2. ASSUME NEW q \in InFlight \ {p}
        PROVE  Deciding(q)'
    <3>1. req'[q] = req[q] /\ req[q].id # r.id /\ Deciding(q)
      BY <1>1, <1>3 DEF Deciding
    <3>2. req[q].id <= begun' /\ req[q].id \notin Range(log')
      BY <1>3, <3>1 DEF Deciding
    <3>3. req[q].at \in {"audit", "append"} <=> req[q].id \in made'
      BY <1>1, <3>1 DEF Deciding
    <3>4. ASSUME NEW x \in InFlight' \ {q}
          PROVE  req'[x].id # req[q].id
      <4>1. CASE x = p
        BY <1>2, <1>3, <3>1, <4>1
      <4>2. CASE x # p
        BY <1>3, <3>1, <3>4, <4>2 DEF Deciding
      <4> QED
        BY <4>1, <4>2
    <3> QED
      BY <3>1, <3>2, <3>3, <3>4 DEF Deciding
  <2> QED
    BY <1>3, <2>1, <2>2
<1>6. ASSUME NEW m \in made'
      PROVE  \/ m \in Range(log) \/ m \in conflicted \/ m \in unlogged
             \/ \E q \in InFlight' : req'[q].at \in {"audit", "append"} /\ req'[q].id = m
  <2>1. CASE m = r.id
    BY <1>1, <1>2, <1>3, <2>1
  <2>2. CASE m # r.id
    <3>1. m \in made
      BY <1>1, <2>2
    <3>2. ASSUME NEW q \in InFlight, req[q].at \in {"audit", "append"}, req[q].id = m
          PROVE  q \in InFlight' /\ req'[q].at \in {"audit", "append"} /\ req'[q].id = m
      <4>1. q # p
        BY <1>1, <1>r, <3>2
      <4> QED
        BY <1>3, <3>2, <4>1
    <3> QED
      BY <3>1, <3>2, Complete
  <2> QED
    BY <2>1, <2>2
<1>7. Unlogged' = {q \in InFlight' : req'[q].at \in {"audit", "append"}}
  BY <1>4 DEF Unlogged, Of
<1>8. LogComplete'
  <2>1. made' \subseteq UNION {Range(log'), conflicted', unlogged', {req'[q].id : q \in Unlogged'}}
    BY <1>6, <1>7
  <2> QED
    BY <2>1 DEF PatchesInv, LogComplete
<1>9. made' \subseteq (1 .. begun)'
  BY <1>1, <1>2, <1>3 DEF PatchesInv
<1> QED
  BY <1>4, <1>5, <1>8, <1>9 DEF PatchesInv

\* Handler p's event is appended to the log, or refused.
LEMMA DecisionLogged ==
  ASSUME PatchesInv, NEW p \in Requests, AppendEvent(p)
  PROVE  PatchesInv'
<1> USE PatchHandlers
<1>1. PICK r : r = req[p]
  OBVIOUS
<1>2. /\ p \in InFlight /\ r.at = "append" /\ Return(p) /\ r.id \in Mail /\ r.id \in made /\ r.id \notin Range(log)
      /\ UNCHANGED <<arrived, review, comment, made, unlogged>>
  BY <1>1 DEF AppendEvent, At, PatchCalls, Deciding
<1>3. /\ Handling("patches", PatchCalls)' /\ begun' = begun /\ InFlight' = InFlight \ {p}
      /\ \A q \in Requests \ {p} : req'[q] = req[q]
  BY <1>2, Ends
<1>4. /\ log' \in Seq(Mail) /\ IsInjective(log') /\ Range(log') \subseteq Range(log) \cup {r.id}
      /\ Range(log) \subseteq Range(log')
      /\ answered' \subseteq answered \cup Range(log') /\ answered' \subseteq answered \cup {r.id}
      /\ conflicted \subseteq conflicted' /\ conflicted' \subseteq conflicted \cup {r.id}
      /\ r.id \in Range(log') \cup conflicted'
  <2>1. log \in Seq(Mail) /\ IsInjective(log)
    BY DEF PatchesInv, LogComplete
  <2>2. CASE r.seen = Len(log)
    <3>1. log' = Append(log, r.id) /\ answered' = answered \cup {r.id} /\ conflicted' = conflicted
      BY <1>1, <2>2 DEF AppendEvent
    <3>2. /\ Append(log, r.id) \in Seq(Mail) /\ IsInjective(Append(log, r.id))
          /\ Range(Append(log, r.id)) = Range(log) \cup {r.id}
      BY <1>2, <2>1, LogGrows
    <3> QED
      BY <3>1, <3>2
  <2>3. CASE r.seen # Len(log)
    BY <1>1, <2>1, <2>3 DEF AppendEvent
  <2> QED
    BY <2>2, <2>3
<1>5. DOMAIN log' \in {1 .. n : n \in 0 .. MaxRequests} /\ Range(log') \subseteq Mail
  <2>1. Range(log') \subseteq Mail
    BY <1>2, <1>4 DEF PatchesInv, PatchesTypeOK
  <2>2. PICK l : l = log'
    OBVIOUS
  <2>3. PICK n : n = Len(l) /\ n \in Nat
    BY <1>4, <2>2
  <2>4. n \in 0 .. MaxRequests /\ DOMAIN l = 1 .. n
    BY <1>4, <2>2, <2>3, LogBounded, HandlersAssumption DEF Mail
  <2> QED
    BY <2>1, <2>2, <2>4
<1>6. service' = "patches" /\ PatchesTypeOK'
  BY <1>2, <1>3, <1>4, <1>5 DEF PatchesInv, PatchesTypeOK, Handling
<1>7. ASSUME NEW q \in InFlight'
      PROVE  Deciding(q)'
  <2>1. req'[q] = req[q] /\ req[q].id # r.id /\ Deciding(q)
    BY <1>1, <1>2, <1>3 DEF Deciding
  <2> QED
    BY <1>2, <1>3, <1>4, <2>1 DEF Deciding
<1>8. \A m \in made : \/ m \in Range(log') \/ m \in conflicted' \/ m \in unlogged
                      \/ \E q \in InFlight' : req'[q].at \in {"audit", "append"} /\ req'[q].id = m
  BY <1>1, <1>3, <1>4, Complete
<1>9. Unlogged' = {q \in InFlight' : req'[q].at \in {"audit", "append"}}
  BY <1>6 DEF Unlogged, Of
<1>10. LogComplete'
  BY <1>2, <1>4, <1>8, <1>9 DEF PatchesInv, LogComplete
<1>11. made' \subseteq (1 .. begun)'
  BY <1>2, <1>3 DEF PatchesInv
<1> QED
  BY <1>4, <1>6, <1>7, <1>10, <1>11 DEF PatchesInv

LEMMA PatchesKept == PatchesInv /\ [PatchesNext]_<<handlers, patchVars>> => PatchesInv'
<1> SUFFICES ASSUME PatchesInv, [PatchesNext]_<<handlers, patchVars>>
             PROVE  PatchesInv'
  OBVIOUS
<1> USE PatchHandlers
<1>t. arrived \in [Mail -> PatchMail \cup {None}] /\ unlogged \subseteq Mail /\ made \subseteq Mail
      /\ review \in [Mail -> Mail \cup {None}] /\ comment \in [Mail -> Mail \cup {None}]
  BY DEF PatchesInv, PatchesTypeOK
<1>1. ASSUME NEW kind \in Kinds \cup {None}, NEW m \in Mail \cup {None}, Receive(kind, m)
      PROVE  PatchesInv'
  <2>1. Handling("patches", PatchCalls)' /\ begun' = begun + 1 /\ InFlight' = InFlight /\ req' = req
    BY <1>1, Answers DEF Receive
  <2>2. arrived' \in [Mail -> PatchMail \cup {None}]
        /\ UNCHANGED <<review, comment, log, made, answered, conflicted, unlogged>>
    BY <1>1, <1>t DEF Receive, PatchMail
  <2>3. \A q \in InFlight' : Deciding(q)'
    BY <2>1, <2>2 DEF Deciding, PatchCalls, Mail
  <2> QED
    BY <1>t, <2>1, <2>2, <2>3, NothingDecided
<1>2. ASSUME NEW p \in Requests, NEW op \in ReviewOps, NEW m \in Mail, NEW d \in Mail \cup {None}, Decide(p, op, m, d)
      PROVE  PatchesInv'
  <2>1. PICK c : /\ c = [at |-> "maintainer", op |-> op, id |-> begun + 1, patch |-> m, on |-> d, seen |-> 0]
                 /\ Begin(p, c)
    BY <1>2 DEF Decide
  <2>2. c \in PatchCalls /\ c.at = "maintainer" /\ c.id = begun + 1
    BY <2>1 DEF PatchCalls, Begin, Mail
  <2>3. /\ Handling("patches", PatchCalls)' /\ begun' = begun + 1 /\ p \notin InFlight
        /\ InFlight' = InFlight \cup {p} /\ req'[p] = c
        /\ \A q \in Requests \ {p} : req'[q] = req[q]
    BY <2>1, <2>2, Begins
  <2>4. UNCHANGED patchVars
    BY <1>2 DEF Decide
  <2>5. begun + 1 \notin made /\ begun + 1 \notin Range(log)
    BY DEF PatchesInv, LogComplete
  <2>6. Deciding(p)'
    <3>1. \A q \in InFlight : req[q].id <= begun /\ req[q].id \in Nat
      BY DEF Deciding, PatchCalls, Mail
    <3> QED
      BY <2>2, <2>3, <2>4, <2>5, <3>1 DEF Deciding, patchVars
  <2>7. ASSUME NEW q \in InFlight
        PROVE  Deciding(q)'
    <3>1. req'[q] = req[q] /\ req[q].id <= begun /\ req[q].id \in Nat /\ Deciding(q)
      BY <2>3 DEF Deciding, PatchCalls, Mail
    <3> QED
      BY <2>2, <2>3, <2>4, <3>1 DEF Deciding, patchVars
  <2>8. \A q \in InFlight' : Deciding(q)'
    BY <2>3, <2>6, <2>7
  <2> QED
    BY <1>t, <2>3, <2>4, <2>8, NothingDecided DEF patchVars
<1>3. ASSUME NEW p \in Requests, CanMaintain(p)
      PROVE  PatchesInv'
  <2>1. p \in InFlight /\ req[p].at = "maintainer" /\ UNCHANGED patchVars
    BY <1>3 DEF CanMaintain, At
  <2>2. CASE Goto(p, "get")
    <3>1. PICK c : c = [req[p] EXCEPT !.at = "get"] /\ Continue(p, c)
      BY <2>2 DEF Goto
    <3>2. c \in PatchCalls /\ c.at = "get" /\ c.id = req[p].id
      BY <2>1, <3>1 DEF PatchCalls
    <3> QED
      BY <2>1, <3>1, <3>2, PatchGoes
  <2>3. CASE Return(p)
    BY <2>1, <2>3, PatchEnds DEF patchVars
  <2> QED
    BY <1>3, <2>2, <2>3 DEF CanMaintain
<1>4. ASSUME NEW p \in Requests, Get(p)
      PROVE  PatchesInv'
  <2>1. p \in InFlight /\ req[p].at = "get" /\ UNCHANGED <<arrived, review, comment, log, answered, conflicted, unlogged>>
    BY <1>4 DEF Get, At
  <2>2. CASE req[p].patch \in Valid /\ req[p].op = "download"
    <3>1. Goto(p, "audit") /\ made' = made \cup {req[p].id}
      BY <1>4, <2>2 DEF Get
    <3> QED
      BY <1>t, <2>1, <3>1, DecisionMade
  <2>3. CASE req[p].patch \in Valid /\ req[p].op # "download"
    <3>1. PICK c : c = [req[p] EXCEPT !.at = "store"] /\ Continue(p, c) /\ made' = made
      BY <1>4, <2>3 DEF Get, Goto
    <3>2. c \in PatchCalls /\ c.at = "store" /\ c.id = req[p].id
      BY <2>1, <3>1 DEF PatchCalls
    <3> QED
      BY <2>1, <3>1, <3>2, PatchGoes DEF patchVars
  <2>4. CASE req[p].patch \notin Valid
    <3>1. Return(p) /\ made' = made
      BY <1>4, <2>4 DEF Get
    <3> QED
      BY <2>1, <3>1, PatchEnds
  <2> QED
    BY <2>2, <2>3, <2>4
<1>5. ASSUME NEW p \in Requests, StoreDecision(p)
      PROVE  PatchesInv'
  <2>1. PICK r : r = req[p]
    OBVIOUS
  <2>2. /\ p \in InFlight /\ r.at = "store" /\ Goto(p, "audit") /\ r \in PatchCalls
        /\ made' = made \cup {r.id} /\ UNCHANGED <<arrived, log, answered, conflicted, unlogged>>
    BY <1>5, <2>1 DEF StoreDecision, At
  <2>3. r.id \in Mail /\ r.patch \in Mail /\ r.on \in Mail \cup {None}
    BY <2>2 DEF PatchCalls
  <2>4. review' \in [Mail -> Mail \cup {None}]
    BY <1>5, <1>t, <2>1, <2>3 DEF StoreDecision
  <2>5. comment' \in [Mail -> Mail \cup {None}]
    <3>1. \/ comment' = comment \/ comment' = [comment EXCEPT ![r.id] = r.id]
          \/ comment' = [comment EXCEPT ![r.on] = r.id]
      BY <1>5, <2>1 DEF StoreDecision
    <3> QED
      BY <1>t, <2>3, <3>1
  <2> QED
    BY <2>1, <2>2, <2>4, <2>5, DecisionMade
<1>6. ASSUME NEW p \in Requests, ReadSequence(p)
      PROVE  PatchesInv'
  <2>1. p \in InFlight /\ req[p].at = "audit" /\ UNCHANGED patchVars
    BY <1>6 DEF ReadSequence, At
  <2>2. PICK c : c = [req[p] EXCEPT !.at = "append", !.seen = Len(log)] /\ Continue(p, c)
    BY <1>6 DEF ReadSequence
  <2>3. Len(log) \in 0 .. MaxRequests
    <3>1. log \in Seq(1 .. MaxRequests) /\ IsInjective(log)
      BY DEF PatchesInv, LogComplete, Mail
    <3> QED
      BY <3>1, LogBounded
  <2>4. c \in PatchCalls /\ c.at = "append" /\ c.id = req[p].id
    BY <2>1, <2>2, <2>3 DEF PatchCalls
  <2> QED
    BY <2>1, <2>2, <2>4, PatchGoes
<1>7. ASSUME NEW p \in Requests, FailReview(p)
      PROVE  PatchesInv'
  <2>1. p \in InFlight /\ Fault(p, None) /\ UNCHANGED <<arrived, review, comment, log, made, answered, conflicted>>
    BY <1>7 DEF FailReview
  <2>2. unlogged' = unlogged \cup {req[q].id : q \in Unlogged \cap {p}}
    BY <1>7 DEF FailReview
  <2>3. p \in Unlogged <=> req[p].at \in {"audit", "append"}
    BY <2>1 DEF Unlogged, Of, PatchesInv
  <2> QED
    BY <2>1, <2>2, <2>3, PatchEnds
<1>8. ASSUME CrashReviews
      PROVE  PatchesInv'
  <2>1. Handling("patches", PatchCalls)' /\ begun' = begun /\ InFlight' = {}
        /\ UNCHANGED <<arrived, review, comment, log, made, answered, conflicted>>
    BY <1>8, Dies DEF CrashReviews
  <2>2. unlogged' = unlogged \cup {req[q].id : q \in Unlogged}
    BY <1>8 DEF CrashReviews
  <2>3. Unlogged = {q \in InFlight : req[q].at \in {"audit", "append"}}
    BY DEF Unlogged, Of, PatchesInv
  <2>4. \A q \in InFlight : req[q].id \in Mail
    BY DEF PatchCalls
  <2> QED
    BY <1>t, <2>1, <2>2, <2>3, <2>4, NothingDecided
<1>9. ASSUME UNCHANGED <<handlers, patchVars>>
      PROVE  PatchesInv'
  <2>1. Handling("patches", PatchCalls)' /\ begun' = begun /\ InFlight' = InFlight /\ req' = req
    BY <1>9, Rests
  <2>2. \A q \in InFlight' : Deciding(q)'
    BY <1>9, <2>1 DEF Deciding, patchVars
  <2> QED
    BY <1>9, <1>t, <2>1, <2>2, NothingDecided DEF patchVars
<1> QED
  BY <1>1, <1>2, <1>3, <1>4, <1>5, <1>6, <1>7, <1>8, <1>9, DecisionLogged DEF PatchesNext

\* ParentOf as a function on the archive's valid patches.
Parents == [m \in Valid |-> ParentOf(m)]

LEMMA ParentsTyped == Parents \in [Valid -> Valid] /\ IsFiniteSet(Valid)
<1>1. \A m \in Valid : ParentOf(m) \in Valid
  BY DEF ParentOf
<1>2. IsFiniteSet(Mail)
  BY IntervalSize, HandlersAssumption DEF Mail
<1>3. IsFiniteSet(Valid)
  BY <1>2, FS_Subset DEF Valid
<1> QED
  BY <1>1, <1>3 DEF Parents

LEMMA CirclesTurn ==
  ASSUME NEW m \in Valid
  PROVE  Circling(m) <=> Turning(Valid, Parents, m)
<1>1. ASSUME NEW S \in SUBSET Valid
      PROVE  (\A n \in S : ParentOf(n) \in S \ {n}) <=> \A n \in S : Parents[n] \in S \ {n}
  BY DEF Parents
<1> QED
  BY <1>1 DEF Circling, Turning

\* RootOf climbs, and stops when it is first back where it was.
LEMMA RootClimbs ==
  ASSUME NEW m \in Valid
  PROVE  \E f, n :
           /\ Way(Valid, Parents, m, Cardinality(Valid), f)
           /\ n \in 1 .. Cardinality(Valid) /\ RootOf(m) = f[n]
           /\ \E k \in 0 .. n - 1 : f[k] = f[n]
           /\ \A j \in 1 .. Cardinality(Valid) : (\E k \in 0 .. j - 1 : f[k] = f[j]) => n <= j
<1>1. PICK N : N = Cardinality(Valid) /\ N \in Nat
  BY ParentsTyped, FS_CardinalityType
<1>2. PICK V, F : V = Valid /\ F = Parents /\ F \in [V -> V] /\ IsFiniteSet(V)
  BY ParentsTyped
<1>3. PICK e : Way(V, F, m, N, e)
  BY <1>1, <1>2, WayExists
<1>4. e = [n \in 0 .. N |-> IF n = 0 THEN m ELSE ParentOf(e[n - 1])]
  <2>1. \A n \in 1 .. N : e[n] = ParentOf(e[n - 1])
    <3>1. \A n \in 1 .. N : e[n - 1] \in Valid
      BY <1>1, <1>2, <1>3 DEF Way
    <3> QED
      BY <1>2, <1>3, <3>1 DEF Way, Parents
  <2>2. e = [n \in 0 .. N |-> e[n]] /\ e[0] = m
    BY <1>3 DEF Way
  <2>3. \A n \in 0 .. N : n = 0 \/ n \in 1 .. N
    BY <1>1
  <2>4. \A n \in 0 .. N : e[n] = IF n = 0 THEN m ELSE ParentOf(e[n - 1])
    BY <2>1, <2>2, <2>3
  <2> QED
    BY <2>2, <2>4
<1> DEFINE up == CHOOSE up : up = [n \in 0 .. Cardinality(Valid) |-> IF n = 0 THEN m ELSE ParentOf(up[n - 1])]
           back == {n \in 1 .. Cardinality(Valid) : \E k \in 0 .. n - 1 : up[k] = up[n]}
<1>5. RootOf(m) = up[CHOOSE n \in back : \A k \in back : n <= k]
  BY DEF RootOf
<1>6. up = [n \in 0 .. N |-> IF n = 0 THEN m ELSE ParentOf(up[n - 1])]
  BY <1>1, <1>4
<1>7. PICK f : f = up
  OBVIOUS
<1>8. f[0] = m /\ f = [k \in 0 .. N |-> f[k]] /\ \A n \in 1 .. N : f[n] = ParentOf(f[n - 1])
  <2>1. f = [n \in 0 .. N |-> IF n = 0 THEN m ELSE ParentOf(f[n - 1])]
    BY <1>6, <1>7
  <2> HIDE DEF up, back
  <2>2. \A n \in 0 .. N : f[n] = IF n = 0 THEN m ELSE ParentOf(f[n - 1])
    BY <2>1
  <2>3. f = [k \in 0 .. N |-> f[k]]
    BY <2>1
  <2>4. 0 \in 0 .. N /\ \A n \in 1 .. N : n \in 0 .. N /\ n # 0
    BY <1>1
  <2> QED
    BY <2>2, <2>3, <2>4
<1>9. \A n \in 0 .. N : f[n] \in Valid
  <2>1. PICK G : G = {n \in 0 .. N : f[n] \in Valid}
    OBVIOUS
  <2>2. 0 \in G
    BY <1>1, <1>8, <2>1
  <2>3. ASSUME NEW n \in 0 .. N, n \in G, n < N
        PROVE  n + 1 \in G
    <3>1. n + 1 \in 1 .. N /\ n + 1 \in 0 .. N /\ n + 1 - 1 = n
      BY <1>1, <2>3
    <3>2. f[n + 1] = ParentOf(f[n]) /\ f[n] \in Valid
      <4>1. PICK i \in 1 .. N : i = n + 1 /\ i - 1 = n
        BY <3>1
      <4>2. f[i] = ParentOf(f[i - 1])
        BY <1>8
      <4>3. f[n] \in Valid
        BY <2>1, <2>3
      <4> QED
        BY <4>1, <4>2, <4>3
    <3> QED
      BY <1>1, <2>1, <3>1, <3>2 DEF ParentOf
  <2>4. 0 .. N \subseteq G
    BY <1>1, <2>2, <2>3, Upwards
  <2> QED
    BY <2>1, <2>4
<1>10. Way(V, F, m, N, f)
  <2>1. f \in [0 .. N -> V]
    BY <1>2, <1>8, <1>9
  <2>2. \A n \in 1 .. N : f[n - 1] \in Valid
    BY <1>1, <1>9
  <2> QED
    BY <1>1, <1>2, <1>8, <2>1, <2>2 DEF Way, Parents
<1>11. PICK S : S = {n \in 1 .. N : \E k \in 0 .. n - 1 : f[k] = f[n]}
  OBVIOUS
<1>12. S # {}
  <2>1. PICK i, j \in 0 .. N : i < j /\ f[i] = f[j]
    BY <1>1, <1>2, <1>10, WayReturns
  <2>2. j \in 1 .. N /\ i \in 0 .. j - 1
    BY <1>1, <2>1
  <2> QED
    BY <1>11, <2>1, <2>2
<1>13. \E n \in S : \A k \in S : n <= k
  <2>1. S \subseteq Nat
    BY <1>1, <1>11
  <2> QED
    BY <1>12, <2>1, Least
<1>14. PICK n \in S : (\A k \in S : n <= k) /\ n = CHOOSE i \in S : \A k \in S : i <= k
  BY <1>13
<1>15. RootOf(m) = f[n]
  BY <1>1, <1>5, <1>7, <1>11, <1>14
<1> HIDE DEF up, back
<1>16. /\ n \in 1 .. N /\ \E k \in 0 .. n - 1 : f[k] = f[n]
       /\ \A j \in 1 .. N : (\E k \in 0 .. j - 1 : f[k] = f[j]) => n <= j
  <2>1. n \in 1 .. N /\ \E k \in 0 .. n - 1 : f[k] = f[n]
    BY <1>11
  <2>2. ASSUME NEW j \in 1 .. N, \E k \in 0 .. j - 1 : f[k] = f[j]
        PROVE  n <= j
    <3>1. j \in S
      BY <1>11, <2>2
    <3> QED
      BY <1>14, <3>1
  <2> QED
    BY <2>1, <2>2
<1> QED
  BY <1>1, <1>2, <1>10, <1>15, <1>16

\* Where it stops is the top of the way, if that has one, and else not at the top of any.
LEMMA RootTop ==
  ASSUME NEW m \in Valid
  PROVE  /\ RootOf(m) \in Valid
         /\ Circling(m) <=> Parents[RootOf(m)] # RootOf(m)
         /\ ~ Circling(m) => \A f : Way(Valid, Parents, m, Cardinality(Valid), f) => RootOf(m) = f[Cardinality(Valid)]
<1>1. PICK N : N = Cardinality(Valid) /\ N \in Nat
  BY ParentsTyped, FS_CardinalityType
<1>2. PICK V, F : V = Valid /\ F = Parents /\ F \in [V -> V] /\ IsFiniteSet(V)
  BY ParentsTyped
<1>3. PICK f, n : /\ Way(V, F, m, N, f)
                  /\ n \in 1 .. N /\ RootOf(m) = f[n]
                  /\ \E k \in 0 .. n - 1 : f[k] = f[n]
                  /\ \A j \in 1 .. N : (\E k \in 0 .. j - 1 : f[k] = f[j]) => n <= j
  BY <1>1, <1>2, RootClimbs
<1>4. f[n] \in V /\ n \in 0 .. N
  BY <1>1, <1>3 DEF Way
<1>5. ASSUME Turning(V, F, m)
      PROVE  F[f[n]] # f[n]
  <2>1. PICK S \in SUBSET V : m \in S /\ \A v \in S : F[v] \in S \ {v}
    BY <1>5 DEF Turning
  <2>2. \A k \in 0 .. N : f[k] \in S
    BY <1>1, <1>2, <1>3, <2>1, WayWithin
  <2>3. f[n] \in S
    BY <1>4, <2>2
  <2> QED
    BY <2>1, <2>3
<1>6. ASSUME ~ Turning(V, F, m)
      PROVE  F[f[n]] = f[n] /\ f[n] = f[N]
  <2>1. PICK k \in 0 .. n - 1 : f[k] = f[n]
    BY <1>3
  <2>2. k \in 0 .. N /\ k < n
    BY <1>1, <1>3, <2>1
  <2>3. PICK j \in 0 .. n - 1 : F[f[j]] = f[j]
    BY <1>1, <1>2, <1>3, <1>4, <1>6, <2>1, <2>2, WayTurns
  <2>4. j + 1 \in 1 .. N /\ j \in 0 .. N /\ j \in 0 .. j + 1 - 1
    BY <1>1, <1>3, <2>3
  <2>5. f[j + 1] = f[j]
    <3>1. f[j + 1] = F[f[j + 1 - 1]]
      BY <1>3, <2>4 DEF Way
    <3>2. j + 1 - 1 = j
      BY <2>4
    <3> QED
      BY <2>3, <3>1, <3>2
  <2>6. n <= j + 1
    BY <1>3, <2>4, <2>5
  <2>7. n = j + 1
    BY <1>1, <1>3, <2>3, <2>6
  <2>8. f[N] = f[j]
    BY <1>1, <1>2, <1>3, <2>3, <2>4, WayStays
  <2> QED
    BY <2>3, <2>5, <2>7, <2>8
<1>7. ASSUME NEW g, Way(V, F, m, N, g)
      PROVE  g = f
  <2>1. PICK G : G = {i \in 0 .. N : g[i] = f[i]}
    OBVIOUS
  <2>2. 0 \in G
    BY <1>1, <1>3, <1>7, <2>1 DEF Way
  <2>3. \A i \in 0 .. N : i \in G /\ i < N => i + 1 \in G
    BY <1>1, <1>3, <1>7, <2>1 DEF Way
  <2>4. 0 .. N \subseteq G
    BY <1>1, <2>2, <2>3, Upwards
  <2>5. \A i \in 0 .. N : g[i] = f[i]
    BY <2>1, <2>4
  <2>6. f = [i \in 0 .. N |-> f[i]] /\ g = [i \in 0 .. N |-> g[i]]
    BY <1>3, <1>7 DEF Way
  <2> QED
    BY <2>5, <2>6
<1>8. Circling(m) <=> Turning(V, F, m)
  BY <1>2, CirclesTurn
<1> QED
  BY <1>1, <1>2, <1>3, <1>4, <1>5, <1>6, <1>7, <1>8

\* What is above a patch has the same top.
LEMMA ParentsRoot ==
  ASSUME NEW m \in Valid, NEW r, Parents[r] = r
  PROVE  RootOf(m) = r <=> RootOf(Parents[m]) = r
<1>1. PICK N : N = Cardinality(Valid) /\ N \in Nat
  BY ParentsTyped, FS_CardinalityType
<1>2. PICK V, F : V = Valid /\ F = Parents /\ F \in [V -> V]
  BY ParentsTyped
<1>3. PICK n \in V : n = F[m]
  BY <1>2
<1>4. Circling(m) <=> Circling(n)
  BY <1>2, <1>3, AboveTurns, CirclesTurn
<1>5. CASE Circling(m)
  BY <1>2, <1>3, <1>4, <1>5, RootTop
<1>6. CASE ~ Circling(m)
  <2>1. PICK f : Way(V, F, m, N, f)
    BY <1>1, <1>2, WayExists
  <2>2. PICK g : Way(V, F, n, N, g)
    BY <1>1, <1>2, WayExists
  <2>3. RootOf(m) = f[N] /\ RootOf(n) = g[N] /\ F[RootOf(m)] = RootOf(m)
    BY <1>1, <1>2, <1>4, <1>6, <2>1, <2>2, RootTop
  <2>4. g[N] = F[f[N]]
    BY <1>1, <1>2, <1>3, <2>1, <2>2, WayAhead
  <2> QED
    BY <1>2, <1>3, <2>3, <2>4
<1> QED
  BY <1>5, <1>6

\* Patches have the same top if and only if replies join them.
LEMMA RootsJoin ==
  ASSUME NEW m \in Valid, ~ Circling(m), NEW n \in Valid
  PROVE  RootOf(n) = RootOf(m) <=> Joined(m, n)
<1>1. PICK N : N = Cardinality(Valid) /\ N \in Nat
  BY ParentsTyped, FS_CardinalityType
<1>2. PICK V, F : V = Valid /\ F = Parents /\ F \in [V -> V]
  BY ParentsTyped
<1>3. PICK r : r = RootOf(m) /\ F[r] = r
  BY <1>2, RootTop
<1>4. ASSUME Joined(m, n)
      PROVE  RootOf(n) = r
  <2>1. PICK S : S = {k \in Valid : RootOf(k) = r}
    OBVIOUS
  <2>2. ASSUME NEW k \in Valid
        PROVE  k \in S <=> ParentOf(k) \in S
    <3>1. ParentOf(k) = Parents[k] /\ Parents[k] \in Valid
      BY ParentsTyped DEF Parents
    <3>2. RootOf(k) = r <=> RootOf(Parents[k]) = r
      BY <1>2, <1>3, ParentsRoot
    <3> QED
      BY <2>1, <3>1, <3>2
  <2>3. S \in SUBSET Valid /\ m \in S
    BY <1>3, <2>1
  <2>4. n \in S
    BY <1>4, <2>2, <2>3 DEF Joined
  <2> QED
    BY <2>1, <2>4
<1>5. ASSUME RootOf(n) = r
      PROVE  Joined(m, n)
  <2> SUFFICES ASSUME NEW S \in SUBSET Valid, m \in S, \A k \in Valid : k \in S <=> ParentOf(k) \in S
               PROVE  n \in S
    BY DEF Joined
  <2>1. \A k \in V : k \in S <=> F[k] \in S
    BY <1>2 DEF Parents
  <2>2. PICK f : Way(V, F, m, N, f)
    BY <1>1, <1>2, WayExists
  <2>3. PICK g : Way(V, F, n, N, g)
    BY <1>1, <1>2, WayExists
  <2>4. ~ Circling(n)
    BY <1>2, <1>3, <1>5, RootTop
  <2>5. f[N] = r /\ g[N] = r
    BY <1>1, <1>2, <1>3, <1>5, <2>2, <2>3, <2>4, RootTop
  <2>6. m \in S <=> f[N] \in S
    BY <1>1, <1>2, <2>1, <2>2, WayBack
  <2>7. n \in S <=> g[N] \in S
    BY <1>1, <1>2, <2>1, <2>3, WayBack
  <2> QED
    BY <2>5, <2>6, <2>7
<1> QED
  BY <1>3, <1>4, <1>5

LEMMA SeriesAreWhole == SeriesWhole
<1> SUFFICES ASSUME NEW m \in Valid, arrived[m].kind \notin Singles, ~ Circling(m)
             PROVE  SeriesMembers(m) = {n \in Valid : arrived[n].kind = arrived[m].kind /\ Joined(m, n)}
  BY DEF SeriesWhole, SeriesMembers
<1>1. \A n \in Valid : RootOf(n) = RootOf(m) <=> Joined(m, n)
  BY RootsJoin
<1> QED
  BY <1>1 DEF SeriesMembers

\* However decisions interleave, fail or are cut short, the log answers for each; and in
\* whatever order mail arrives, the archive shows the series it belongs to whole.
THEOREM PatchesKeepTheirPromise == PatchesSpec => []PatchesPromise
<1>1. PatchesSpec => []PatchesInv
  BY PatchesStart, PatchesKept, PTL DEF PatchesSpec
<1>2. PatchesInv => PatchesPromise
  BY SeriesAreWhole DEF PatchesInv, PatchesPromise
<1> QED
  BY <1>1, <1>2, PTL

-----------------------------------------------------------------------------
(* Git mirrors.                                                            *)

MirrorsSpec == HandlersInit /\ service = "mirrors" /\ MirrorsInit /\ [][MirrorsNext]_<<handlers, mirrorVars>>

PagePlaces == {"repository", "resolve", "parts"}

\* What is known of a mirror is true of it, and the store knows nothing that memory does not.
Backed(i) ==
  /\ mirror[i] # None => mirror[i] <= origin[i]
  /\ \A k \in {record[i], saved[i]} :
       /\ k.status = "ready" => k.head # None
       /\ k.head # None => mirror[i] # None /\ k.head <= mirror[i]
  /\ saved[i].head # None => record[i].head # None /\ saved[i].head <= record[i].head

\* What a synchronization carries from one call to the next is still true.
Synchronizing(r) ==
  LET i == r.repository IN
  /\ r.at \in {"clone", "rename"} => mirror[i] = None
  /\ r.at = "rename" => r.head # None /\ r.head <= origin[i]
  /\ r.at = "head" => mirror[i] # None
  /\ r.at = "ready" => /\ r.head # None /\ mirror[i] # None /\ r.head <= mirror[i]
                       /\ record[i].head # None => record[i].head <= r.head

\* And so is what a page carries; its parts are of the commit it has resolved.
Reading(r) ==
  LET i == r.repository IN
  /\ r.at # "repository" => mirror[i] # None /\ r.header # None /\ r.header <= mirror[i]
  /\ r.at = "parts" => r.oid # None /\ IF r.ref # None THEN r.oid = r.ref ELSE r.header <= r.oid
  /\ r.at # "parts" => r.page = <<>>
  /\ Range(r.page) \subseteq {r.oid} /\ Len(r.page) < Len(Calls(r.kind))

\* A mirror has one synchronization at a time.
Alone(p) ==
  \A q \in InFlight \ {p} : req[q].repository = req[p].repository => req[q].at \in PagePlaces

Placed(p) == IF req[p].at \in PagePlaces THEN Reading(req[p]) ELSE Synchronizing(req[p]) /\ Alone(p)

MirrorsInv ==
  /\ service = "mirrors" /\ MirrorsTypeOK /\ PagesPinned
  /\ \A i \in Repositories : Backed(i)
  /\ \A p \in InFlight : Placed(p)

\* What is shown is a page, of MirrorsTypeOK.
ShownIsPage ==
  shown # None =>
    /\ shown.kind \in PageKinds /\ shown.ref \in Commits \cup {None} /\ shown.header \in Commits
    /\ Len(shown.page) = Len(Calls(shown.kind)) /\ Range(shown.page) \subseteq Commits

LEMMA MirrorHandlers ==
  ASSUME MirrorsInv
  PROVE  /\ Handling("mirrors", MirrorCalls) /\ None \notin MirrorCalls
         /\ \A p \in InFlight : p \in Requests /\ req[p] \in MirrorCalls /\ Placed(p)
         /\ \A p \in Requests : p \in InFlight <=> req[p] # None
<1>1. Handling("mirrors", MirrorCalls)
  BY DEF MirrorsInv, MirrorsTypeOK, Handling
<1> QED
  BY <1>1, HandledCalls, MirrorsAssumption DEF MirrorsInv

LEMMA MirrorTypes ==
  ASSUME MirrorsInv
  PROVE  /\ origin \in [Repositories -> Commits] /\ mirror \in [Repositories -> Commits \cup {None}]
         /\ record \in [Repositories -> Record] /\ saved \in [Repositories -> Record]
BY DEF MirrorsInv, MirrorsTypeOK

LEMMA CommitNumbers ==
  /\ None \notin Commits /\ \A k \in Commits : k \in Nat
  /\ \A r \in Record : r.head \in Commits \cup {None} /\ r.status \in {"pending", "syncing", "ready", "error"}
BY MirrorsAssumption DEF Commits, Record

LEMMA MirrorFields ==
  ASSUME NEW r \in MirrorCalls
  PROVE  /\ r.repository \in Repositories
         /\ r.at \in PagePlaces \cup {"sync", "clone", "rename", "head", "failed", "ready", "save"}
         /\ r.at \notin PagePlaces => r.head \in Commits \cup {None}
         /\ r.at \in PagePlaces =>
              /\ r.kind \in PageKinds /\ r.ref \in Commits \cup {None} /\ r.header \in Commits \cup {None}
              /\ r.oid \in Commits \cup {None} /\ r.page \in Seq(Commits)
<1>1. CASE r \in [at : {"sync", "clone", "rename", "head", "failed", "ready", "save"}, repository : Repositories,
                  head : Commits \cup {None}]
  BY <1>1 DEF PagePlaces
<1>2. CASE r \in [at : {"repository", "resolve", "parts"}, repository : Repositories, kind : PageKinds,
                  ref : Commits \cup {None}, header : Commits \cup {None}, oid : Commits \cup {None}, page : Seq(Commits)]
  BY <1>2 DEF PagePlaces
<1> QED
  BY <1>1, <1>2 DEF MirrorCalls

\* What a step may do to mirrors: they and their origins move forward.
Forward ==
  \A i \in Repositories :
    origin[i] <= origin'[i] /\ (mirror[i] # None => mirror'[i] # None /\ mirror[i] <= mirror'[i])

LEMMA StillReading ==
  ASSUME NEW r \in MirrorCalls, r.at \in PagePlaces, Reading(r), Forward,
         mirror \in [Repositories -> Commits \cup {None}], mirror' \in [Repositories -> Commits \cup {None}]
  PROVE  Reading(r)'
<1>1. PICK i \in Repositories : i = r.repository
  BY MirrorFields
<1>2. r.header \in Commits \cup {None} /\ mirror[i] \in Commits \cup {None} /\ mirror'[i] \in Commits \cup {None}
  BY MirrorFields
<1>3. r.at # "repository" => mirror'[i] # None /\ r.header # None /\ r.header <= mirror'[i]
  BY <1>1, <1>2, CommitNumbers DEF Reading, Forward
<1> QED
  BY <1>1, <1>3 DEF Reading

LEMMA StillSynchronizing ==
  ASSUME NEW r \in MirrorCalls, r.at \notin PagePlaces, Synchronizing(r),
         origin \in [Repositories -> Commits], origin' \in [Repositories -> Commits],
         \A i \in Repositories : i = r.repository =>
           origin[i] <= origin'[i] /\ mirror'[i] = mirror[i] /\ record'[i].head = record[i].head
  PROVE  Synchronizing(r)'
<1>1. PICK i \in Repositories : i = r.repository
  BY MirrorFields
<1>2. r.head \in Commits \cup {None} /\ origin[i] \in Commits /\ origin'[i] \in Commits
  BY MirrorFields
<1>3. r.at = "rename" => r.head # None /\ r.head <= origin'[i]
  BY <1>1, <1>2, CommitNumbers DEF Synchronizing
<1> QED
  BY <1>1, <1>3 DEF Synchronizing

\* A step of handler p about repository i.
LEMMA MirrorStep ==
  ASSUME MirrorsInv, NEW p, NEW i \in Repositories, Handling("mirrors", MirrorCalls)',
         origin' \in [Repositories -> Commits], mirror' \in [Repositories -> Commits \cup {None}],
         record' \in [Repositories -> Record], saved' \in [Repositories -> Record],
         shown' = shown \/ (PagesPinned /\ ShownIsPage)', Forward,
         \A q \in Requests \ {p} : req'[q] = req[q],
         p \in InFlight' => req'[p].repository = i /\ Placed(p)',
         \A j \in Repositories \ {i} :
           mirror'[j] = mirror[j] /\ record'[j] = record[j] /\ saved'[j] = saved[j],
         \/ mirror'[i] = mirror[i] /\ record'[i].head = record[i].head
         \/ \A q \in InFlight \ {p} : req[q].repository = i => req[q].at \in PagePlaces,
         p \in InFlight' /\ req'[p].at \notin PagePlaces =>
           \A q \in InFlight \ {p} : req[q].repository = i => req[q].at \in PagePlaces,
         Backed(i)'
  PROVE  MirrorsInv'
<1> USE MirrorHandlers, MirrorTypes
<1>0. ShownIsPage' /\ PagesPinned'
  <2>1. CASE shown' = shown
    BY <2>1 DEF MirrorsInv, MirrorsTypeOK, ShownIsPage, PagesPinned
  <2> QED
    BY <2>1
<1>1. service' = "mirrors" /\ MirrorsTypeOK'
  BY <1>0 DEF Handling, MirrorsInv, MirrorsTypeOK, ShownIsPage
<1>2. PagesPinned'
  BY <1>0
<1>3. ASSUME NEW j \in Repositories \ {i}
      PROVE  Backed(j)'
  <2>1. Backed(j) /\ origin[j] <= origin'[j] /\ mirror'[j] = mirror[j] /\ record'[j] = record[j] /\ saved'[j] = saved[j]
    BY DEF MirrorsInv, Forward
  <2>2. mirror[j] \in Commits \cup {None} /\ origin[j] \in Nat /\ origin'[j] \in Nat
    BY CommitNumbers
  <2>3. mirror'[j] # None => mirror'[j] <= origin'[j]
    BY <2>1, <2>2, CommitNumbers DEF Backed
  <2> QED
    BY <2>1, <2>3 DEF Backed
<1>4. \A q \in Requests \ {p} : q \in InFlight' <=> q \in InFlight
  BY DEF InFlight
<1>5. ASSUME NEW q \in InFlight', q # p
      PROVE  Placed(q)'
  <2>1. q \in InFlight /\ q \in Requests /\ req'[q] = req[q] /\ Placed(q) /\ req[q] \in MirrorCalls
    BY <1>4, <1>5 DEF InFlight
  <2>2. PICK r : r = req[q] /\ r = req'[q] /\ r \in MirrorCalls
    BY <2>1
  <2>3. CASE r.at \in PagePlaces
    <3>1. Reading(r)
      BY <2>1, <2>2, <2>3 DEF Placed
    <3>2. Reading(r)'
      BY <2>2, <2>3, <3>1, StillReading
    <3> QED
      BY <2>2, <2>3, <3>2 DEF Placed
  <2>4. CASE r.at \notin PagePlaces
    <3>1. Synchronizing(r) /\ Alone(q)
      BY <2>1, <2>2, <2>4 DEF Placed
    <3>2. \A j \in Repositories : j = r.repository =>
            origin[j] <= origin'[j] /\ mirror'[j] = mirror[j] /\ record'[j].head = record[j].head
      BY <1>5, <2>1, <2>2, <2>4 DEF Forward
    <3>3. Synchronizing(r)'
      BY <2>2, <2>4, <3>1, <3>2, StillSynchronizing
    <3>4. Alone(q)'
      <4> SUFFICES ASSUME NEW o \in InFlight', o # q, req'[o].repository = r.repository
                   PROVE  req'[o].at \in PagePlaces
        BY <2>2 DEF Alone
      <4>1. CASE o = p
        BY <1>5, <2>1, <2>2, <2>4, <4>1
      <4>2. CASE o # p
        <5>1. o \in InFlight /\ req'[o] = req[o]
          BY <1>4, <4>2 DEF InFlight
        <5> QED
          BY <2>2, <3>1, <5>1 DEF Alone
      <4> QED
        BY <4>1, <4>2
    <3> QED
      BY <2>2, <2>4, <3>3, <3>4 DEF Placed
  <2> QED
    BY <2>3, <2>4
<1> QED
  BY <1>1, <1>2, <1>3, <1>5 DEF MirrorsInv

\* Handler p goes on, with another call about the same repository.
LEMMA MirrorGoes ==
  ASSUME MirrorsInv, NEW p \in InFlight, NEW c \in MirrorCalls, Continue(p, c) \/ Fault(p, c),
         c.repository = req[p].repository, c.at \in PagePlaces <=> req[p].at \in PagePlaces,
         origin' = origin, mirror' \in [Repositories -> Commits \cup {None}],
         record' \in [Repositories -> Record], saved' \in [Repositories -> Record],
         shown' = shown, Forward,
         \A j \in Repositories : j # c.repository =>
           mirror'[j] = mirror[j] /\ record'[j] = record[j] /\ saved'[j] = saved[j],
         req[p].at \in PagePlaces => UNCHANGED <<mirror, record, saved>> /\ Reading(c),
         req[p].at \notin PagePlaces => Synchronizing(c)',
         \A j \in Repositories : j = c.repository => Backed(j)'
  PROVE  MirrorsInv'
<1> USE MirrorHandlers, MirrorTypes
<1>1. /\ Handling("mirrors", MirrorCalls)' /\ InFlight' = InFlight /\ req'[p] = c
      /\ \A q \in Requests \ {p} : req'[q] = req[q]
  BY Goes, Fails
<1>2. PICK i \in Repositories : i = c.repository
  BY MirrorFields
<1>3. Placed(p)'
  <2>1. CASE c.at \in PagePlaces
    <3>1. Reading(c)
      BY <2>1
    <3>2. Reading(c)'
      BY <2>1, <3>1, StillReading
    <3> QED
      BY <1>1, <2>1, <3>2 DEF Placed
  <2>2. CASE c.at \notin PagePlaces
    <3>1. Synchronizing(c)' /\ Alone(p)
      BY <2>2 DEF Placed
    <3>2. Alone(p)'
      BY <1>1, <3>1 DEF Alone
    <3> QED
      BY <1>1, <2>2, <3>1, <3>2 DEF Placed
  <2> QED
    BY <2>1, <2>2
<1>4. req[p].at \notin PagePlaces => \A q \in InFlight \ {p} : req[q].repository = i => req[q].at \in PagePlaces
  <2>1. Placed(p)
    OBVIOUS
  <2> QED
    BY <1>2, <2>1 DEF Placed, Alone
<1>5. \/ mirror'[i] = mirror[i] /\ record'[i].head = record[i].head
      \/ \A q \in InFlight \ {p} : req[q].repository = i => req[q].at \in PagePlaces
  BY <1>4
<1>6. /\ p \in InFlight' => req'[p].repository = i /\ Placed(p)'
      /\ p \in InFlight' /\ req'[p].at \notin PagePlaces =>
           \A q \in InFlight \ {p} : req[q].repository = i => req[q].at \in PagePlaces
  BY <1>1, <1>2, <1>3, <1>4
<1>7. \A j \in Repositories \ {i} : mirror'[j] = mirror[j] /\ record'[j] = record[j] /\ saved'[j] = saved[j]
  BY <1>2
<1>8. Backed(i)'
  BY <1>2
<1> QED
  BY <1>1, <1>5, <1>6, <1>7, <1>8, MirrorStep

\* Handler p is done, or a fault ends it.
LEMMA MirrorEnds ==
  ASSUME MirrorsInv, NEW p \in InFlight, Return(p) \/ Fault(p, None),
         UNCHANGED <<origin, mirror, record>>, saved' \in [Repositories -> Record],
         shown' = shown \/ (PagesPinned /\ ShownIsPage)',
         \A j \in Repositories : j # req[p].repository => saved'[j] = saved[j],
         \A j \in Repositories : j = req[p].repository => Backed(j)'
  PROVE  MirrorsInv'
<1> USE MirrorHandlers, MirrorTypes
<1>1. /\ Handling("mirrors", MirrorCalls)' /\ InFlight' = InFlight \ {p}
      /\ \A q \in Requests \ {p} : req'[q] = req[q]
  BY Ends
<1>2. PICK i \in Repositories : i = req[p].repository
  BY MirrorFields
<1>3. Forward
  <2>1. \A j \in Repositories : origin[j] \in Nat /\ (mirror[j] # None => mirror[j] \in Nat)
    BY CommitNumbers
  <2> QED
    BY <2>1 DEF Forward
<1> QED
  BY <1>1, <1>2, <1>3, MirrorStep

\* A step that leaves the mirrors alone moves them forward.
LEMMA ForwardStill ==
  ASSUME MirrorsInv, UNCHANGED <<origin, mirror>>
  PROVE  Forward
<1>1. \A j \in Repositories : origin[j] \in Nat /\ (mirror[j] # None => mirror[j] \in Nat)
  BY CommitNumbers, MirrorTypes
<1> QED
  BY <1>1 DEF Forward

\* Saving what memory knows of a mirror.
LEMMA BackedSaved ==
  ASSUME MirrorsInv, NEW i \in Repositories, Forward, saved'[i] = record[i], record' = record, origin' = origin,
         mirror' \in [Repositories -> Commits \cup {None}], mirror'[i] # None => mirror'[i] <= origin[i]
  PROVE  Backed(i)'
<1>1. Backed(i)
  BY DEF MirrorsInv
<1>2. /\ mirror[i] \in Commits \cup {None} /\ mirror'[i] \in Commits \cup {None}
      /\ record[i] \in Record /\ record[i].head \in Commits \cup {None}
  BY MirrorTypes, CommitNumbers
<1>3. record[i].head # None => mirror'[i] # None /\ record[i].head <= mirror'[i] /\ record[i].head <= record[i].head
  BY <1>1, <1>2, CommitNumbers DEF Backed, Forward
<1> QED
  BY <1>1, <1>2, <1>3 DEF Backed

\* A synchronization goes on.
LEMMA MirrorSyncs ==
  ASSUME MirrorsInv, NEW p \in InFlight, NEW r \in MirrorCalls, NEW c \in MirrorCalls, NEW i \in Repositories,
         r = req[p], i = r.repository, r.at \notin PagePlaces, c.repository = i, c.at \notin PagePlaces,
         Continue(p, c) \/ Fault(p, c),
         origin' = origin, mirror' \in [Repositories -> Commits \cup {None}],
         record' \in [Repositories -> Record], saved' \in [Repositories -> Record],
         shown' = shown, Forward,
         \A j \in Repositories : j # i => mirror'[j] = mirror[j] /\ record'[j] = record[j] /\ saved'[j] = saved[j],
         Synchronizing(c)', Backed(i)'
  PROVE  MirrorsInv'
<1>1. /\ c.repository = req[p].repository /\ req[p].at \notin PagePlaces
      /\ \A j \in Repositories : j # c.repository =>
           mirror'[j] = mirror[j] /\ record'[j] = record[j] /\ saved'[j] = saved[j]
  OBVIOUS
<1>2. \A j \in Repositories : j = c.repository => Backed(j)'
  OBVIOUS
<1> QED
  BY <1>1, <1>2, MirrorGoes

\* The reading of a page goes on.
LEMMA MirrorReads ==
  ASSUME MirrorsInv, NEW p \in InFlight, NEW r \in MirrorCalls, NEW c \in MirrorCalls,
         r = req[p], r.at \in PagePlaces, c.repository = r.repository, c.at \in PagePlaces,
         Continue(p, c), UNCHANGED mirrorVars, Reading(c)
  PROVE  MirrorsInv'
<1>1. Forward
  BY ForwardStill DEF mirrorVars
<1>2. \A j \in Repositories : Backed(j)'
  BY DEF MirrorsInv, Backed, mirrorVars
<1> QED
  BY <1>1, <1>2, MirrorTypes, MirrorGoes DEF mirrorVars

LEMMA MirrorsStart == HandlersInit /\ service = "mirrors" /\ MirrorsInit => MirrorsInv
<1> SUFFICES ASSUME HandlersInit, service = "mirrors", MirrorsInit
             PROVE  MirrorsInv
  OBVIOUS
<1>1. Handling("mirrors", MirrorCalls) /\ InFlight = {}
  BY Starts
<1>2. Pending \in Record /\ Pending.head = None /\ Pending.status # "ready" /\ 0 \in Commits
  BY MirrorsAssumption DEF Pending, Record, Commits
<1>3. MirrorsTypeOK
  BY <1>1, <1>2 DEF MirrorsTypeOK, Handling, MirrorsInit
<1>4. \A i \in Repositories : Backed(i)
  BY <1>2 DEF Backed, MirrorsInit
<1> QED
  BY <1>1, <1>3, <1>4 DEF MirrorsInv, PagesPinned, MirrorsInit

\* The origin gets a commit.
LEMMA PushKept ==
  ASSUME MirrorsInv, NEW i \in Repositories, Push(i)
  PROVE  MirrorsInv'
<1> USE MirrorHandlers, MirrorTypes
<1>1. Handling("mirrors", MirrorCalls)' /\ InFlight' = InFlight /\ req' = req
  BY Rests DEF Push
<1>2. /\ origin[i] \in Commits /\ origin[i] < MaxCommits /\ origin' = [origin EXCEPT ![i] = origin[i] + 1]
      /\ UNCHANGED <<mirror, record, saved, shown>>
  BY DEF Push
<1>3. origin' \in [Repositories -> Commits] /\ origin'[i] = origin[i] + 1
      /\ \A j \in Repositories \ {i} : origin'[j] = origin[j]
  BY <1>2, MirrorsAssumption DEF Commits
<1>4. Forward
  <2>1. ASSUME NEW j \in Repositories
        PROVE  origin[j] <= origin'[j] /\ (mirror[j] # None => mirror[j] <= mirror'[j])
    <3>1. origin[j] \in Nat /\ (mirror[j] # None => mirror[j] \in Nat)
      BY CommitNumbers
    <3> QED
      BY <1>2, <1>3, <3>1
  <2> QED
    BY <1>2, <2>1 DEF Forward
<1>5. Backed(i)'
  <2>1. Backed(i)
    BY DEF MirrorsInv
  <2>2. mirror[i] # None => mirror[i] \in Nat
    BY CommitNumbers
  <2>3. mirror[i] # None => mirror[i] <= origin'[i]
    BY <1>2, <1>3, <2>1, <2>2, CommitNumbers DEF Backed
  <2> QED
    BY <1>2, <2>1, <2>3 DEF Backed
<1>6. PICK p : p = None /\ p \notin InFlight
  BY HandlersAssumption
<1> QED
  BY <1>1, <1>2, <1>3, <1>4, <1>5, <1>6, MirrorStep

LEMMA SynchronizeKept ==
  ASSUME MirrorsInv, NEW p \in Requests, NEW i \in Repositories, Synchronize(p, i)
  PROVE  MirrorsInv'
<1> USE MirrorHandlers, MirrorTypes
<1>1. PICK c : c = [at |-> "sync", repository |-> i, head |-> record[i].head] /\ Begin(p, c)
  BY DEF Synchronize
<1>2. c \in MirrorCalls /\ c.at = "sync" /\ c.repository = i /\ c.at \notin PagePlaces
  BY <1>1, CommitNumbers DEF MirrorCalls, PagePlaces
<1>3. /\ Handling("mirrors", MirrorCalls)' /\ p \notin InFlight
      /\ InFlight' = InFlight \cup {p} /\ req'[p] = c
      /\ \A q \in Requests \ {p} : req'[q] = req[q]
  BY <1>1, <1>2, Begins
<1>4. /\ record' = [record EXCEPT ![i].status = "syncing"]
      /\ UNCHANGED <<origin, mirror, saved, shown>>
      /\ \A q \in InFlight : req[q].repository = i => req[q].at \in PagePlaces
  BY DEF Synchronize, PagePlaces
<1>5. /\ record' \in [Repositories -> Record] /\ record'[i].head = record[i].head /\ record'[i].status = "syncing"
      /\ \A j \in Repositories \ {i} : record'[j] = record[j]
  BY <1>4 DEF Record
<1>6. Backed(i)'
  <2>1. Backed(i)
    BY DEF MirrorsInv
  <2> QED
    BY <1>4, <1>5, <2>1 DEF Backed
<1>7. Placed(p)'
  <2>1. Synchronizing(c)'
    BY <1>2 DEF Synchronizing
  <2>2. Alone(p)'
    BY <1>2, <1>3, <1>4 DEF Alone
  <2> QED
    BY <1>2, <1>3, <2>1, <2>2 DEF Placed
<1>8. Forward
  BY <1>4, ForwardStill
<1> QED
  BY <1>2, <1>3, <1>4, <1>5, <1>6, <1>7, <1>8, MirrorStep

LEMMA SyncKept ==
  ASSUME MirrorsInv, NEW p \in Requests, Sync(p)
  PROVE  MirrorsInv'
<1> USE MirrorHandlers, MirrorTypes
<1>1. PICK r, i, place, c : /\ r = req[p] /\ i = r.repository
                            /\ place = (IF mirror[i] = None THEN "clone" ELSE "head")
                            /\ c = [r EXCEPT !.at = place] /\ Continue(p, c)
  BY DEF Sync, Goto
<1>2. /\ p \in InFlight /\ r.at = "sync" /\ r \in MirrorCalls /\ i \in Repositories
      /\ saved' = [saved EXCEPT ![i] = record[i]] /\ UNCHANGED <<origin, record, shown>>
      /\ mirror' = IF mirror[i] = None THEN mirror ELSE [mirror EXCEPT ![i] = origin[i]]
  BY <1>1, MirrorFields DEF Sync, At
<1>3. c \in MirrorCalls /\ c.at = place /\ c.repository = i /\ r.at \notin PagePlaces /\ c.at \notin PagePlaces
  BY <1>1, <1>2 DEF MirrorCalls, PagePlaces
<1>4. /\ mirror' \in [Repositories -> Commits \cup {None}] /\ saved' \in [Repositories -> Record]
      /\ saved'[i] = record[i]
      /\ \A j \in Repositories : j # i => mirror'[j] = mirror[j] /\ saved'[j] = saved[j]
      /\ IF mirror[i] = None THEN mirror'[i] = None ELSE mirror'[i] = origin[i]
  BY <1>2
<1>5. origin[i] # None /\ origin[i] \in Nat /\ (mirror[i] # None => mirror[i] <= origin[i])
  BY <1>2, CommitNumbers DEF MirrorsInv, Backed
<1>6. Forward
  <2>1. ASSUME NEW j \in Repositories
        PROVE  origin[j] <= origin'[j] /\ (mirror[j] # None => mirror'[j] # None /\ mirror[j] <= mirror'[j])
    <3>1. origin[j] \in Nat /\ (mirror[j] # None => mirror[j] \in Nat)
      BY CommitNumbers
    <3> QED
      BY <1>2, <1>4, <1>5, <3>1
  <2> QED
    BY <2>1 DEF Forward
<1>7. Backed(i)'
  <2>1. mirror'[i] # None => mirror'[i] <= origin[i]
    BY <1>4, <1>5
  <2> QED
    BY <1>2, <1>4, <1>6, <2>1, BackedSaved
<1>8. Synchronizing(c)'
  BY <1>1, <1>3, <1>4, <1>5 DEF Synchronizing
<1> QED
  BY <1>1, <1>2, <1>3, <1>4, <1>6, <1>7, <1>8, MirrorSyncs

LEMMA CloneKept ==
  ASSUME MirrorsInv, NEW p \in Requests, Clone(p)
  PROVE  MirrorsInv'
<1> USE MirrorHandlers, MirrorTypes
<1>1. PICK r, i, c : /\ r = req[p] /\ i = r.repository
                     /\ c = [r EXCEPT !.at = "rename", !.head = origin[i]] /\ Continue(p, c)
  BY DEF Clone
<1>2. p \in InFlight /\ r.at = "clone" /\ r \in MirrorCalls /\ i \in Repositories /\ UNCHANGED mirrorVars
  BY <1>1, MirrorFields DEF Clone, At
<1>3. r \in [at : {"sync", "clone", "rename", "head", "failed", "ready", "save"}, repository : Repositories,
             head : Commits \cup {None}]
  BY <1>2 DEF MirrorCalls
<1>4. /\ c \in MirrorCalls /\ c.at = "rename" /\ c.repository = i /\ c.head = origin[i]
      /\ r.at \notin PagePlaces /\ c.at \notin PagePlaces
  BY <1>1, <1>2, <1>3 DEF MirrorCalls, PagePlaces
<1>5. Synchronizing(r) /\ origin[i] \in Nat /\ origin[i] # None
  BY <1>1, <1>2, <1>4, CommitNumbers DEF Placed
<1>6. Synchronizing(c)'
  BY <1>1, <1>2, <1>4, <1>5 DEF Synchronizing, mirrorVars
<1>7. Backed(i)'
  BY <1>2 DEF MirrorsInv, Backed, mirrorVars
<1>8. Forward
  BY <1>2, ForwardStill DEF mirrorVars
<1> QED
  BY <1>1, <1>2, <1>4, <1>6, <1>7, <1>8, MirrorSyncs DEF mirrorVars

LEMMA PublishKept ==
  ASSUME MirrorsInv, NEW p \in Requests, Publish(p)
  PROVE  MirrorsInv'
<1> USE MirrorHandlers, MirrorTypes
<1>1. PICK r, i, c : /\ r = req[p] /\ i = r.repository
                     /\ c = [r EXCEPT !.at = "head", !.head = record[i].head] /\ Continue(p, c)
                     /\ mirror' = [mirror EXCEPT ![i] = r.head]
  BY DEF Publish
<1>2. /\ p \in InFlight /\ r.at = "rename" /\ r \in MirrorCalls /\ i \in Repositories
      /\ UNCHANGED <<origin, record, saved, shown>>
  BY <1>1, MirrorFields DEF Publish, At
<1>3. r \in [at : {"sync", "clone", "rename", "head", "failed", "ready", "save"}, repository : Repositories,
             head : Commits \cup {None}]
  BY <1>2 DEF MirrorCalls
<1>4. /\ c \in MirrorCalls /\ c.at = "head" /\ c.repository = i
      /\ r.at \notin PagePlaces /\ c.at \notin PagePlaces
  BY <1>1, <1>2, <1>3, CommitNumbers DEF MirrorCalls, PagePlaces
<1>5. /\ mirror[i] = None /\ r.head # None /\ r.head \in Commits /\ r.head <= origin[i]
  BY <1>1, <1>2, <1>3, <1>4 DEF Placed, Synchronizing
<1>6. /\ mirror' \in [Repositories -> Commits \cup {None}] /\ mirror'[i] = r.head
      /\ \A j \in Repositories : j # i => mirror'[j] = mirror[j]
  BY <1>1, <1>2, <1>5
<1>7. Forward
  <2>1. ASSUME NEW j \in Repositories
        PROVE  origin[j] <= origin'[j] /\ (mirror[j] # None => mirror'[j] # None /\ mirror[j] <= mirror'[j])
    <3>1. origin[j] \in Nat /\ (mirror[j] # None => mirror[j] \in Nat)
      BY CommitNumbers
    <3> QED
      BY <1>2, <1>5, <1>6, <3>1
  <2> QED
    BY <2>1 DEF Forward
<1>8. Backed(i)'
  <2>1. Backed(i)
    BY <1>2 DEF MirrorsInv
  <2>2. record[i].head = None /\ saved[i].head = None
    BY <1>5, <2>1 DEF Backed
  <2> QED
    BY <1>2, <1>5, <1>6, <2>1, <2>2 DEF Backed
<1>9. Synchronizing(c)'
  BY <1>4, <1>5, <1>6 DEF Synchronizing
<1> QED
  BY <1>1, <1>2, <1>4, <1>6, <1>7, <1>8, <1>9, MirrorSyncs

LEMMA ResolveHeadKept ==
  ASSUME MirrorsInv, NEW p \in Requests, ResolveHead(p)
  PROVE  MirrorsInv'
<1> USE MirrorHandlers, MirrorTypes
<1>1. PICK r, i, c : /\ r = req[p] /\ i = r.repository
                     /\ c = [r EXCEPT !.at = "ready", !.head = mirror[i]] /\ Continue(p, c)
  BY DEF ResolveHead
<1>2. p \in InFlight /\ r.at = "head" /\ r \in MirrorCalls /\ i \in Repositories /\ UNCHANGED mirrorVars
  BY <1>1, MirrorFields DEF ResolveHead, At
<1>3. r \in [at : {"sync", "clone", "rename", "head", "failed", "ready", "save"}, repository : Repositories,
             head : Commits \cup {None}]
  BY <1>2 DEF MirrorCalls
<1>4. /\ c \in MirrorCalls /\ c.at = "ready" /\ c.repository = i /\ c.head = mirror[i]
      /\ r.at \notin PagePlaces /\ c.at \notin PagePlaces
  BY <1>1, <1>2, <1>3 DEF MirrorCalls, PagePlaces
<1>5. mirror[i] # None /\ mirror[i] \in Nat
  BY <1>1, <1>2, <1>4, CommitNumbers DEF Placed, Synchronizing
<1>6. Backed(i) /\ Backed(i)'
  BY <1>2 DEF MirrorsInv, Backed, mirrorVars
<1>7. mirror[i] <= mirror[i]
  BY <1>5
<1>8. Synchronizing(c)'
  BY <1>2, <1>4, <1>5, <1>6, <1>7 DEF Synchronizing, Backed, mirrorVars
<1>9. Forward
  BY <1>2, ForwardStill DEF mirrorVars
<1> QED
  BY <1>1, <1>2, <1>4, <1>6, <1>8, <1>9, MirrorSyncs DEF mirrorVars

LEMMA FailSyncKept ==
  ASSUME MirrorsInv, NEW p \in Requests, FailSync(p)
  PROVE  MirrorsInv'
<1> USE MirrorHandlers, MirrorTypes
<1>1. PICK r, i, c : /\ r = req[p] /\ i = r.repository /\ c = [r EXCEPT !.at = "save"] /\ Fault(p, c)
                     /\ record' = [record EXCEPT ![i] = [status |-> "error", head |-> record[i].head]]
  BY DEF FailSync, Failed
<1>2. /\ p \in InFlight /\ r.at \in {"sync", "clone", "rename", "head"} /\ r \in MirrorCalls /\ i \in Repositories
      /\ UNCHANGED <<origin, mirror, saved, shown>>
  BY <1>1, MirrorFields DEF FailSync
<1>3. /\ c \in MirrorCalls /\ c.at = "save" /\ c.repository = i
      /\ r.at \notin PagePlaces /\ c.at \notin PagePlaces
  BY <1>1, <1>2 DEF MirrorCalls, PagePlaces
<1>4. [status |-> "error", head |-> record[i].head] \in Record
  BY <1>2 DEF Record
<1>5. /\ record' \in [Repositories -> Record] /\ record'[i].head = record[i].head /\ record'[i].status = "error"
      /\ \A j \in Repositories : j # i => record'[j] = record[j]
  BY <1>1, <1>2, <1>4
<1>6. Backed(i)'
  <2>1. Backed(i)
    BY <1>2 DEF MirrorsInv
  <2> QED
    BY <1>2, <1>5, <2>1 DEF Backed
<1>7. Synchronizing(c)'
  BY <1>3 DEF Synchronizing
<1>8. Forward
  BY <1>2, ForwardStill
<1> QED
  BY <1>1, <1>2, <1>3, <1>5, <1>6, <1>7, <1>8, MirrorSyncs

LEMMA ReadyKept ==
  ASSUME MirrorsInv, NEW p \in Requests, Ready(p)
  PROVE  MirrorsInv'
<1> USE MirrorHandlers, MirrorTypes
<1>1. PICK r, i, c : /\ r = req[p] /\ i = r.repository /\ c = [r EXCEPT !.at = "save"] /\ Continue(p, c)
                     /\ record' = [record EXCEPT ![i] = [status |-> "ready", head |-> r.head]]
  BY DEF Ready, Goto
<1>2. /\ p \in InFlight /\ r.at = "ready" /\ r \in MirrorCalls /\ i \in Repositories
      /\ UNCHANGED <<origin, mirror, saved, shown>>
  BY <1>1, MirrorFields DEF Ready, At
<1>3. /\ c \in MirrorCalls /\ c.at = "save" /\ c.repository = i
      /\ r.at \notin PagePlaces /\ c.at \notin PagePlaces
  BY <1>1, <1>2 DEF MirrorCalls, PagePlaces
<1>4. Synchronizing(r) /\ r.head \in Commits /\ r.head # None
  BY <1>1, <1>2, <1>3, MirrorFields DEF Placed, Synchronizing
<1>5. [status |-> "ready", head |-> r.head] \in Record
  BY <1>4 DEF Record
<1>6. /\ record' \in [Repositories -> Record] /\ record'[i].head = r.head
      /\ \A j \in Repositories : j # i => record'[j] = record[j]
  BY <1>1, <1>2, <1>5
<1>7. Backed(i)'
  <2>1. Backed(i) /\ mirror[i] # None /\ r.head <= mirror[i] /\ (record[i].head # None => record[i].head <= r.head)
    BY <1>1, <1>2, <1>4 DEF MirrorsInv, Synchronizing
  <2>2. /\ record[i].head \in Commits \cup {None} /\ saved[i].head \in Commits \cup {None}
        /\ \A k \in Commits : k \in Nat
    BY <1>2, CommitNumbers
  <2>3. saved[i].head # None => record[i].head # None /\ saved[i].head <= record[i].head
    BY <2>1 DEF Backed
  <2>4. saved[i].head # None => saved[i].head <= r.head
    BY <1>4, <2>1, <2>2, <2>3
  <2> QED
    BY <1>2, <1>4, <1>6, <2>1, <2>4 DEF Backed
<1>8. Synchronizing(c)'
  BY <1>3 DEF Synchronizing
<1>9. Forward
  BY <1>2, ForwardStill
<1> QED
  BY <1>1, <1>2, <1>3, <1>6, <1>7, <1>8, <1>9, MirrorSyncs

LEMMA SaveRecordKept ==
  ASSUME MirrorsInv, NEW p \in Requests, SaveRecord(p)
  PROVE  MirrorsInv'
<1> USE MirrorHandlers, MirrorTypes
<1>1. PICK i : i = req[p].repository /\ saved' = [saved EXCEPT ![i] = record[i]]
  BY DEF SaveRecord
<1>2. /\ p \in InFlight /\ i \in Repositories /\ Return(p) /\ UNCHANGED <<origin, mirror, record, shown>>
  BY <1>1, MirrorFields DEF SaveRecord, At
<1>3. /\ saved' \in [Repositories -> Record] /\ saved'[i] = record[i]
      /\ \A j \in Repositories : j # i => saved'[j] = saved[j]
  BY <1>1, <1>2
<1>4. Backed(i)'
  <2>1. mirror'[i] # None => mirror'[i] <= origin[i]
    BY <1>2 DEF MirrorsInv, Backed
  <2> QED
    BY <1>2, <1>3, <2>1, BackedSaved, ForwardStill
<1>5. /\ \A j \in Repositories : j # req[p].repository => saved'[j] = saved[j]
      /\ \A j \in Repositories : j = req[p].repository => Backed(j)'
  BY <1>1, <1>3, <1>4
<1> QED
  BY <1>2, <1>3, <1>5, MirrorEnds

\* A reader's request.
LEMMA OpenPageKept ==
  ASSUME MirrorsInv, NEW p \in Requests, NEW i \in Repositories, NEW kind \in PageKinds,
         NEW ref \in Commits \cup {None}, OpenPage(p, i, kind, ref)
  PROVE  MirrorsInv'
<1> USE MirrorHandlers, MirrorTypes
<1>1. PICK c : c = [at |-> "repository", repository |-> i, kind |-> kind, ref |-> ref, header |-> None,
                    oid |-> None, page |-> <<>>] /\ Begin(p, c)
  BY DEF OpenPage
<1>2. UNCHANGED mirrorVars
  BY DEF OpenPage
<1>3. c \in MirrorCalls /\ c.at = "repository" /\ c.repository = i /\ c.at \in PagePlaces /\ c.page = <<>>
  BY <1>1 DEF MirrorCalls, PagePlaces
<1>4. /\ Handling("mirrors", MirrorCalls)' /\ p \notin InFlight
      /\ InFlight' = InFlight \cup {p} /\ req'[p] = c
      /\ \A q \in Requests \ {p} : req'[q] = req[q]
  BY <1>1, <1>3, Begins
<1>5. Reading(c)
  <2>1. Range(c.page) = {} /\ Len(c.page) = 0
    BY <1>3 DEF Range
  <2>2. Len(Calls(c.kind)) > 0
    BY DEF Calls, TreeCalls, BlobCalls, LogCalls, DetailCalls
  <2> QED
    BY <1>3, <2>1, <2>2 DEF Reading
<1>6. Forward
  BY <1>2, ForwardStill DEF mirrorVars
<1>7. Placed(p)'
  <2>1. Reading(c)'
    BY <1>2, <1>3, <1>5, <1>6, StillReading DEF mirrorVars
  <2> QED
    BY <1>3, <1>4, <2>1 DEF Placed
<1>8. Backed(i)'
  BY <1>2 DEF MirrorsInv, Backed, mirrorVars
<1> QED
  BY <1>2, <1>3, <1>4, <1>6, <1>7, <1>8, MirrorStep DEF mirrorVars

\* A step that ends handler p and leaves the mirrors alone.
LEMMA MirrorLeaves ==
  ASSUME MirrorsInv, NEW p \in InFlight, Return(p) \/ Fault(p, None), UNCHANGED <<origin, mirror, record, saved>>,
         shown' = shown \/ (PagesPinned /\ ShownIsPage)'
  PROVE  MirrorsInv'
<1>1. \A j \in Repositories : Backed(j)'
  BY DEF MirrorsInv, Backed
<1> QED
  BY <1>1, MirrorTypes, MirrorEnds

LEMMA FailMirrorCallKept ==
  ASSUME MirrorsInv, NEW p \in Requests, FailMirrorCall(p)
  PROVE  MirrorsInv'
BY MirrorLeaves DEF FailMirrorCall, mirrorVars

PageCalls ==
  [at : {"repository", "resolve", "parts"}, repository : Repositories, kind : PageKinds,
   ref : Commits \cup {None}, header : Commits \cup {None}, oid : Commits \cup {None}, page : Seq(Commits)]

LEMMA PageCalled ==
  ASSUME NEW r \in MirrorCalls, r.at \in PagePlaces
  PROVE  r \in PageCalls
BY DEF MirrorCalls, PagePlaces, PageCalls

LEMMA LoadRepositoryKept ==
  ASSUME MirrorsInv, NEW p \in Requests, LoadRepository(p)
  PROVE  MirrorsInv'
<1> USE MirrorHandlers, MirrorTypes
<1>1. PICK r, i : r = req[p] /\ i = r.repository
  OBVIOUS
<1>2. /\ p \in InFlight /\ r.at = "repository" /\ r \in MirrorCalls /\ i \in Repositories /\ UNCHANGED mirrorVars
      /\ IF mirror[i] = None THEN Return(p) ELSE Continue(p, [r EXCEPT !.at = "resolve", !.header = mirror[i]])
  BY <1>1, MirrorFields DEF LoadRepository, At
<1>3. CASE mirror[i] = None
  BY <1>2, <1>3, MirrorLeaves DEF mirrorVars
<1>4. CASE mirror[i] # None
  <2>1. PICK c : c = [r EXCEPT !.at = "resolve", !.header = mirror[i]] /\ Continue(p, c)
    BY <1>2, <1>4
  <2>2. r.at \in PagePlaces /\ r \in PageCalls /\ mirror[i] \in Commits
    BY <1>2, <1>4, PageCalled DEF PagePlaces
  <2>3. /\ c \in MirrorCalls /\ c.at = "resolve" /\ c.repository = i /\ c.header = mirror[i] /\ c.at \in PagePlaces
        /\ c.page = r.page /\ c.oid = r.oid /\ c.kind = r.kind
    BY <2>1, <2>2, <1>1 DEF MirrorCalls, PagePlaces, PageCalls
  <2>4. Reading(r) /\ mirror[i] \in Nat
    BY <1>1, <1>2, <1>4, <2>2, CommitNumbers DEF Placed
  <2>5. c.header # None /\ c.header <= mirror[i]
    BY <1>4, <2>3, <2>4
  <2>6. Reading(c)
    BY <1>2, <1>4, <2>3, <2>4, <2>5 DEF Reading, Range
  <2> QED
    BY <1>1, <1>2, <2>1, <2>2, <2>3, <2>6, MirrorReads
<1> QED
  BY <1>3, <1>4

LEMMA ResolveRefKept ==
  ASSUME MirrorsInv, NEW p \in Requests, ResolveRef(p)
  PROVE  MirrorsInv'
<1> USE MirrorHandlers, MirrorTypes
<1>1. PICK r, i, oid, c : /\ r = req[p] /\ i = r.repository /\ oid = (IF r.ref = None THEN mirror[i] ELSE r.ref)
                          /\ c = [r EXCEPT !.at = "parts", !.oid = oid] /\ Continue(p, c)
  BY DEF ResolveRef
<1>2. p \in InFlight /\ r.at = "resolve" /\ r \in MirrorCalls /\ i \in Repositories /\ UNCHANGED mirrorVars
  BY <1>1, MirrorFields DEF ResolveRef, At
<1>3. r.at \in PagePlaces /\ r \in PageCalls
  BY <1>2, PageCalled DEF PagePlaces
<1>4. /\ Reading(r) /\ mirror[i] # None /\ mirror[i] \in Commits /\ r.header # None /\ r.header <= mirror[i]
  BY <1>1, <1>2, <1>3 DEF Placed, Reading
<1>5. oid \in Commits /\ oid # None
  BY <1>1, <1>3, <1>4, CommitNumbers DEF PageCalls
<1>6. /\ c \in MirrorCalls /\ c.at = "parts" /\ c.repository = i /\ c.header = r.header /\ c.at \in PagePlaces
      /\ c.page = r.page /\ c.oid = oid /\ c.kind = r.kind /\ c.ref = r.ref
  BY ZenonT(60), <1>1, <1>3, <1>5 DEF MirrorCalls, PagePlaces, PageCalls
<1>7. IF r.ref # None THEN oid = r.ref ELSE r.header <= oid
  BY <1>1, <1>4
<1>8. Reading(c)
  BY <1>2, <1>4, <1>5, <1>6, <1>7 DEF Reading, Range
<1> QED
  BY <1>1, <1>2, <1>3, <1>6, <1>8, MirrorReads

LEMMA PageLengths ==
  ASSUME NEW kind
  PROVE  Len(Calls(kind)) \in Nat
BY DEF Calls, TreeCalls, BlobCalls, LogCalls, DetailCalls

\* A page with one more part of the commit it is of.
LEMMA PartAdded ==
  ASSUME NEW page \in Seq(Commits), NEW oid \in Commits, Range(page) \subseteq {oid}
  PROVE  /\ Append(page, oid) \in Seq(Commits) /\ Len(Append(page, oid)) = Len(page) + 1
         /\ Range(Append(page, oid)) = {oid} /\ Append(page, oid)[1] = oid
<1>1. PICK n : n = Len(page) /\ n \in Nat /\ DOMAIN page = 1 .. n
  OBVIOUS
<1>2. PICK k : k = Append(page, oid)
  OBVIOUS
<1>3. /\ k \in Seq(Commits) /\ Len(k) = n + 1 /\ DOMAIN k = 1 .. n + 1 /\ k[n + 1] = oid
      /\ \A i \in 1 .. n : k[i] = page[i]
  BY <1>1, <1>2
<1>4. \A i \in 1 .. n : page[i] = oid
  BY <1>1 DEF Range
<1>5. \A i \in 1 .. n + 1 : k[i] = oid
  <2> TAKE i \in 1 .. n + 1
  <2>1. i = n + 1 \/ i \in 1 .. n
    BY <1>1
  <2> QED
    BY <1>3, <1>4, <2>1
<1>6. 1 \in 1 .. n + 1
  BY <1>1
<1> QED
  BY <1>1, <1>2, <1>3, <1>5, <1>6 DEF Range

LEMMA ReadPartKept ==
  ASSUME MirrorsInv, NEW p \in Requests, ReadPart(p)
  PROVE  MirrorsInv'
<1> USE MirrorHandlers, MirrorTypes
<1>1. PICK r, page : r = req[p] /\ page = Append(r.page, r.oid)
  OBVIOUS
<1>2. /\ p \in InFlight /\ r.at = "parts" /\ r \in MirrorCalls /\ UNCHANGED <<origin, mirror, record, saved>>
      /\ Unread(r) > 0
      /\ IF Unread(r) > 1
         THEN Continue(p, [r EXCEPT !.page = page]) /\ shown' = shown
         ELSE /\ Return(p)
              /\ shown' = [kind |-> r.kind, ref |-> r.ref, header |-> r.header, page |-> page]
  BY <1>1 DEF ReadPart, At, PartOf
<1>3. r.at \in PagePlaces /\ r \in PageCalls
  BY <1>2, PageCalled DEF PagePlaces
<1>4. Reading(r)
  BY <1>1, <1>2, <1>3 DEF Placed
<1>5. /\ r.oid \in Commits /\ r.header \in Commits /\ r.kind \in PageKinds /\ r.ref \in Commits \cup {None}
      /\ r.page \in Seq(Commits) /\ Range(r.page) \subseteq {r.oid}
      /\ IF r.ref # None THEN r.oid = r.ref ELSE r.header <= r.oid
  BY <1>2, <1>3, <1>4 DEF Reading, PageCalls
<1>6. /\ page \in Seq(Commits) /\ Len(page) = Len(r.page) + 1 /\ Len(r.page) \in Nat
      /\ Range(page) = {r.oid} /\ page[1] = r.oid
  <2>1. PICK old, oid : old = r.page /\ oid = r.oid
    OBVIOUS
  <2>2. old \in Seq(Commits) /\ oid \in Commits /\ Range(old) \subseteq {oid} /\ page = Append(old, oid)
    BY <1>1, <1>5, <2>1
  <2>3. /\ page \in Seq(Commits) /\ Len(page) = Len(old) + 1 /\ Len(old) \in Nat
        /\ Range(page) = {oid} /\ page[1] = oid
    BY <2>2, PartAdded
  <2> QED
    BY <2>1, <2>3
<1>7. PICK m, n, l, u : m = Len(Calls(r.kind)) /\ n = Len(r.page) /\ l = Len(page) /\ u = Unread(r)
  OBVIOUS
<1>8. m \in Nat /\ n \in Nat /\ l = n + 1 /\ u = m - n
  BY <1>6, <1>7, PageLengths DEF Unread
<1>9. (u > 1 => l < m) /\ (u > 0 /\ ~(u > 1) => l = m)
  BY <1>8
<1>10. CASE Unread(r) > 1
  <2>1. PICK c : c = [r EXCEPT !.page = page] /\ Continue(p, c)
    BY <1>2, <1>10
  <2>2. /\ c \in MirrorCalls /\ c.at = "parts" /\ c.repository = r.repository /\ c.at \in PagePlaces
        /\ c.page = page /\ c.oid = r.oid /\ c.kind = r.kind /\ c.ref = r.ref /\ c.header = r.header
    BY <1>2, <1>3, <1>6, <2>1 DEF MirrorCalls, PagePlaces, PageCalls
  <2>3. Len(page) < Len(Calls(r.kind))
    BY <1>7, <1>10, <1>9
  <2>4. Reading(c)
    BY <1>2, <1>4, <1>6, <2>2, <2>3 DEF Reading
  <2> QED
    BY <1>1, <1>2, <1>3, <1>10, <2>1, <2>2, <2>4, MirrorReads DEF mirrorVars
<1>11. CASE ~(Unread(r) > 1)
  <2>1. /\ Return(p) /\ shown' = [kind |-> r.kind, ref |-> r.ref, header |-> r.header, page |-> page]
    BY <1>2, <1>11
  <2>2. Len(page) = Len(Calls(r.kind))
    BY <1>2, <1>7, <1>11, <1>9
  <2>3. ShownIsPage'
    BY <1>5, <1>6, <2>1, <2>2 DEF ShownIsPage
  <2>4. Cardinality(Range(page)) = 1
    BY <1>6, FS_Singleton
  <2>5. PagesPinned'
    BY <1>5, <1>6, <2>1, <2>4 DEF PagesPinned
  <2> QED
    BY <1>2, <2>1, <2>3, <2>5, MirrorLeaves
<1> QED
  BY <1>10, <1>11

LEMMA CrashMirrorsKept ==
  ASSUME MirrorsInv, CrashMirrors
  PROVE  MirrorsInv'
<1> USE MirrorHandlers, MirrorTypes
<1>1. Crash /\ record' = saved /\ UNCHANGED <<origin, mirror, saved, shown>>
  BY DEF CrashMirrors
<1>2. Handling("mirrors", MirrorCalls)' /\ InFlight' = {}
  BY <1>1, Dies
<1>3. service' = "mirrors" /\ MirrorsTypeOK' /\ PagesPinned'
  BY <1>1, <1>2 DEF Handling, MirrorsInv, MirrorsTypeOK, PagesPinned
<1>4. ASSUME NEW i \in Repositories
      PROVE  Backed(i)'
  <2>1. Backed(i) /\ saved[i].head \in Commits \cup {None}
    BY CommitNumbers DEF MirrorsInv
  <2>2. saved[i].head # None => saved[i].head <= saved[i].head
    BY <2>1, CommitNumbers
  <2> QED
    BY <1>1, <2>1, <2>2 DEF Backed
<1> QED
  BY <1>2, <1>3, <1>4 DEF MirrorsInv

LEMMA MirrorsStill ==
  ASSUME MirrorsInv, UNCHANGED <<handlers, mirrorVars>>
  PROVE  MirrorsInv'
<1>1. Handling("mirrors", MirrorCalls)' /\ InFlight' = InFlight /\ req' = req
  BY Rests, MirrorHandlers
<1>2. UNCHANGED <<origin, mirror, record, saved, shown>>
  BY DEF mirrorVars
<1>3. service' = "mirrors" /\ MirrorsTypeOK' /\ PagesPinned'
  BY <1>1, <1>2 DEF Handling, MirrorsInv, MirrorsTypeOK, PagesPinned
<1>4. \A i \in Repositories : Backed(i)'
  BY <1>2 DEF MirrorsInv, Backed
<1>5. \A p \in InFlight : Placed(p)'
  BY <1>1, <1>2 DEF MirrorsInv, Placed, Reading, Synchronizing, Alone
<1> QED
  BY <1>1, <1>3, <1>4, <1>5 DEF MirrorsInv

LEMMA MirrorsKept ==
  ASSUME MirrorsInv, [MirrorsNext]_<<handlers, mirrorVars>>
  PROVE  MirrorsInv'
<1>1. CASE \E i \in Repositories : Push(i)
  BY <1>1, PushKept
<1>2. CASE \E p \in Requests, i \in Repositories : Synchronize(p, i)
  BY <1>2, SynchronizeKept
<1>3. CASE \E p \in Requests, i \in Repositories, ref \in Commits \cup {None}, kind \in PageKinds : OpenPage(p, i, kind, ref)
  BY <1>3, OpenPageKept
<1>4. CASE \E p \in Requests :
             \/ Sync(p) \/ Clone(p) \/ Publish(p) \/ ResolveHead(p) \/ FailSync(p) \/ Ready(p) \/ SaveRecord(p)
             \/ LoadRepository(p) \/ ResolveRef(p) \/ ReadPart(p) \/ FailMirrorCall(p)
  BY <1>4, SyncKept, CloneKept, PublishKept, ResolveHeadKept, FailSyncKept, ReadyKept, SaveRecordKept,
     LoadRepositoryKept, ResolveRefKept, ReadPartKept, FailMirrorCallKept
<1>5. CASE CrashMirrors
  BY <1>5, CrashMirrorsKept
<1>6. CASE UNCHANGED <<handlers, mirrorVars>>
  BY <1>6, MirrorsStill
<1>7. \A p \in Requests, i \in Repositories, ref \in Commits \cup {None} :
        Tree(p, i, ref) \/ Blob(p, i, ref) \/ RawBlob(p, i, ref) \/ Log(p, i, ref) \/ CommitDetail(p, i, ref)
          => \E kind \in PageKinds : OpenPage(p, i, kind, ref)
  BY DEF Tree, Blob, RawBlob, Log, CommitDetail, PageKinds
<1> QED
  BY <1>1, <1>2, <1>3, <1>4, <1>5, <1>6, <1>7 DEF MirrorsNext

\* A stored head is overwritten by what memory knows, which is not behind it.
LEMMA HeadsKept ==
  ASSUME MirrorsInv, [MirrorsNext]_<<handlers, mirrorVars>>, NEW i \in Repositories, saved[i].head # None
  PROVE  saved'[i].head # None /\ saved'[i].head >= saved[i].head
<1> USE MirrorTypes
<1>1. saved[i].head \in Nat /\ record[i].head \in Commits \cup {None}
  BY CommitNumbers
<1>2. record[i].head # None /\ record[i].head >= saved[i].head
  <2>1. record[i].head # None /\ saved[i].head <= record[i].head
    BY DEF MirrorsInv, Backed
  <2> QED
    BY <1>1, <2>1, CommitNumbers
<1>3. saved'[i] = saved[i] \/ saved'[i] = record[i]
  <2>1. CASE \E p \in Requests : Sync(p) \/ SaveRecord(p)
    BY <2>1 DEF Sync, SaveRecord
  <2>2. CASE saved' = saved
    BY <2>2
  <2>3. (\E p \in Requests : Sync(p) \/ SaveRecord(p)) \/ saved' = saved
    BY ZenonT(60) DEF MirrorsNext, Push, Synchronize, Tree, Blob, RawBlob, Log, CommitDetail, OpenPage, Clone, Publish, ResolveHead,
           FailSync, Ready, LoadRepository, ResolveRef, ReadPart, FailMirrorCall, CrashMirrors, mirrorVars
  <2> QED
    BY <2>1, <2>2, <2>3
<1> QED
  BY <1>1, <1>2, <1>3

\* A page is of one commit, and what is known of a mirror is true and does not go back,
\* whatever synchronizations, pages, faults and crashes interleave.
THEOREM MirrorsKeepTheirPromise == MirrorsSpec => MirrorsPromise
<1>1. MirrorsInv => RecordBacked /\ PagesPinned
  BY DEF MirrorsInv, Backed, RecordBacked
<1>2. MirrorsInv /\ [MirrorsNext]_<<handlers, mirrorVars>> =>
        [\A i \in Repositories :
           saved[i].head # None => saved'[i].head # None /\ saved'[i].head >= saved[i].head]_mirrorVars
  BY HeadsKept
<1> QED
  BY MirrorsStart, MirrorsKept, <1>1, <1>2, PTL DEF MirrorsSpec, MirrorsPromise, HeadsForward

=============================================================================
