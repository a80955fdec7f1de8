------------------------------ MODULE Handlers ------------------------------
(***************************************************************************)
(* What the services under internal/ have in common: request handlers that *)
(* call the store (internal/storage) one call after the other.  No lock or *)
(* transaction spans two calls, so handlers interleave between them; a     *)
(* call can fail, and the process can die between two calls, which loses   *)
(* the handlers and nothing of what they stored.                           *)
(*                                                                         *)
(* Each service's module keeps the records that service writes, and a      *)
(* behaviour handles the requests of one service.                          *)
(*                                                                         *)
(* A component's module gives its handlers' calls as records.  `at' is the *)
(* call a handler makes next, the other fields are its local variables.    *)
(***************************************************************************)
EXTENDS Integers, FiniteSets

CONSTANTS
  Services,    \* names of the services whose requests are handled
  Requests,    \* request handlers
  MaxRequests, \* bound: requests handled
  MaxFaults,   \* bound: crashes, failed reads and writes
  None         \* no handler, no record

ASSUME HandlersAssumption ==
  /\ {MaxRequests, MaxFaults} \subseteq Nat
  /\ None \notin Requests

VARIABLES
  service, \* the service the requests are for
  req,     \* the call each handler is about to make, or None
  begun,   \* counter of what MaxRequests limits
  faults   \* counter of what MaxFaults limits

handlers == <<service, req, begun, faults>>

HandlersInit ==
  /\ service \in Services
  /\ req = [p \in Requests |-> None]
  /\ begun = 0 /\ faults = 0

\* The handlers are well formed, given the set of the calls they make if they are of `name'.
HandlersIn(name, Calls) ==
  /\ service \in Services
  /\ service = name => req \in [Requests -> Calls \cup {None}]
  /\ begun \in 0 .. MaxRequests
  /\ faults \in 0 .. MaxFaults

InFlight == {p \in Requests : req[p] # None}
\* The handlers of one service.
Of(name) == IF service = name THEN InFlight ELSE {}
At(p, place) == p \in InFlight /\ req[p].at = place

Begin(p, call) ==
  /\ req[p] = None
  /\ begun < MaxRequests
  /\ begun' = begun + 1
  /\ req' = [req EXCEPT ![p] = call]
  /\ UNCHANGED <<service, faults>>

\* A request that is answered by the one call it makes.
Once == begun < MaxRequests /\ begun' = begun + 1 /\ UNCHANGED <<service, req, faults>>

Continue(p, call) == req' = [req EXCEPT ![p] = call] /\ UNCHANGED <<service, begun, faults>>
Goto(p, place)    == Continue(p, [req[p] EXCEPT !.at = place])
Return(p)         == Continue(p, None)

\* The call p is about to make fails; `call' is what p does then.
Fault(p, call) ==
  /\ faults < MaxFaults /\ faults' = faults + 1
  /\ req' = [req EXCEPT ![p] = call]
  /\ UNCHANGED <<service, begun>>

\* The process dies and is started again.
Crash ==
  /\ faults < MaxFaults /\ faults' = faults + 1
  /\ InFlight # {}
  /\ req' = [p \in Requests |-> None]
  /\ UNCHANGED <<service, begun>>

\* Every request the bound allows has been answered.
AllAnswered == begun = MaxRequests /\ InFlight = {}
=============================================================================
