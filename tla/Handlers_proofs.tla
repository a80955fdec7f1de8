--------------------------- MODULE Handlers_proofs --------------------------
(***************************************************************************)
(* What a step does to the handlers, for the proofs about the services.    *)
(***************************************************************************)
EXTENDS Handlers, FiniteSetTheorems, TLAPS

\* Handler p's call becomes c.
Moves(p, c) == req'[p] = c /\ \A q \in Requests \ {p} : req'[q] = req[q]

\* The handlers other than p are where they were.
Others(p) == \A q \in Requests \ {p} : req'[q] = req[q] /\ (q \in InFlight' <=> q \in InFlight)

LEMMA Moved ==
  ASSUME NEW p \in Requests, NEW c, Moves(p, c)
  PROVE  req'[p] = c /\ (p \in InFlight' <=> c # None) /\ Others(p)
BY DEF Moves, Others, InFlight

\* A request of calls C starts.
LEMMA Begun ==
  ASSUME NEW C, req \in [Requests -> C \cup {None}], begun \in 0 .. MaxRequests,
         NEW p \in Requests, NEW c \in C, Begin(p, c)
  PROVE  /\ req[p] = None /\ req' \in [Requests -> C \cup {None}] /\ Moves(p, c)
         /\ begun + 1 \in 1 .. MaxRequests /\ begun' = begun + 1 /\ begun' \in 0 .. MaxRequests
         /\ UNCHANGED <<service, faults>>
BY HandlersAssumption DEF Begin, Moves

\* A request goes on to its next call, or returns.
LEMMA Continued ==
  ASSUME NEW C, req \in [Requests -> C \cup {None}],
         NEW p \in Requests, NEW c \in C \cup {None}, Continue(p, c)
  PROVE  /\ req' \in [Requests -> C \cup {None}] /\ Moves(p, c)
         /\ UNCHANGED <<service, begun, faults>>
BY DEF Continue, Moves

LEMMA Returned ==
  ASSUME NEW C, req \in [Requests -> C \cup {None}], NEW p \in Requests, Return(p)
  PROVE  /\ req' \in [Requests -> C \cup {None}] /\ Moves(p, None)
         /\ UNCHANGED <<service, begun, faults>>
BY Continued DEF Return

\* A call fails.
LEMMA Faulted ==
  ASSUME NEW C, req \in [Requests -> C \cup {None}], faults \in 0 .. MaxFaults,
         NEW p \in Requests, NEW c \in C \cup {None}, Fault(p, c)
  PROVE  /\ req' \in [Requests -> C \cup {None}] /\ Moves(p, c)
         /\ faults' \in 0 .. MaxFaults /\ UNCHANGED <<service, begun>>
BY HandlersAssumption DEF Fault, Moves

\* The process dies.
LEMMA Crashed ==
  ASSUME NEW C, faults \in 0 .. MaxFaults, Crash
  PROVE  /\ req' \in [Requests -> C \cup {None}] /\ \A p \in Requests : req'[p] = None
         /\ faults' \in 0 .. MaxFaults /\ UNCHANGED <<service, begun>>
BY HandlersAssumption DEF Crash

-----------------------------------------------------------------------------
(* The same, of the handlers of one service as a whole.                    *)

\* The handlers of service `name' make calls C.
Handling(name, C) == service = name /\ HandlersIn(name, C)

LEMMA HandledCalls ==
  ASSUME NEW name, NEW C, Handling(name, C)
  PROVE  /\ req \in [Requests -> C \cup {None}] /\ begun \in 0 .. MaxRequests /\ faults \in 0 .. MaxFaults
         /\ \A p \in InFlight : p \in Requests /\ req[p] \in C
         /\ \A p \in Requests : p \in InFlight <=> req[p] # None
BY DEF Handling, HandlersIn, InFlight

LEMMA Begins ==
  ASSUME NEW name, NEW C, None \notin C, Handling(name, C),
         NEW p \in Requests, NEW c \in C, Begin(p, c)
  PROVE  /\ Handling(name, C)' /\ begun + 1 \in 1 .. MaxRequests /\ begun' = begun + 1
         /\ p \notin InFlight /\ InFlight' = InFlight \cup {p} /\ req'[p] = c
         /\ \A q \in Requests \ {p} : req'[q] = req[q]
<1>1. /\ req[p] = None /\ req' \in [Requests -> C \cup {None}] /\ Moves(p, c)
      /\ begun + 1 \in 1 .. MaxRequests /\ begun' = begun + 1 /\ begun' \in 0 .. MaxRequests
      /\ UNCHANGED <<service, faults>>
  BY HandledCalls, Begun
<1>2. Handling(name, C)'
  BY <1>1 DEF Handling, HandlersIn
<1> QED
  BY <1>1, <1>2 DEF Moves, InFlight

LEMMA Goes ==
  ASSUME NEW name, NEW C, None \notin C, Handling(name, C),
         NEW p \in InFlight, NEW c \in C, Continue(p, c)
  PROVE  /\ Handling(name, C)' /\ begun' = begun
         /\ InFlight' = InFlight /\ req'[p] = c
         /\ \A q \in Requests \ {p} : req'[q] = req[q]
<1>1. /\ req' \in [Requests -> C \cup {None}] /\ Moves(p, c)
      /\ UNCHANGED <<service, begun, faults>>
  BY HandledCalls, Continued
<1>2. Handling(name, C)'
  BY <1>1 DEF Handling, HandlersIn
<1> QED
  BY <1>1, <1>2 DEF Moves, InFlight

\* A call fails, and the handler goes on with another.
LEMMA Fails ==
  ASSUME NEW name, NEW C, None \notin C, Handling(name, C),
         NEW p \in InFlight, NEW c \in C, Fault(p, c)
  PROVE  /\ Handling(name, C)' /\ begun' = begun
         /\ InFlight' = InFlight /\ req'[p] = c
         /\ \A q \in Requests \ {p} : req'[q] = req[q]
<1>1. /\ req' \in [Requests -> C \cup {None}] /\ Moves(p, c)
      /\ faults' \in 0 .. MaxFaults /\ UNCHANGED <<service, begun>>
  BY HandledCalls, Faulted
<1>2. Handling(name, C)'
  BY <1>1 DEF Handling, HandlersIn
<1> QED
  BY <1>1, <1>2 DEF Moves, InFlight

LEMMA Ends ==
  ASSUME NEW name, NEW C, Handling(name, C), NEW p \in InFlight, Return(p) \/ Fault(p, None)
  PROVE  /\ Handling(name, C)' /\ begun' = begun
         /\ InFlight' = InFlight \ {p}
         /\ \A q \in Requests \ {p} : req'[q] = req[q]
<1>1. /\ req' \in [Requests -> C \cup {None}] /\ Moves(p, None)
      /\ faults' \in 0 .. MaxFaults /\ UNCHANGED <<service, begun>>
  <2>1. CASE Return(p)
    BY <2>1, HandledCalls, Returned
  <2>2. CASE Fault(p, None)
    <3>1. PICK n : n = None /\ Fault(p, n)
      BY <2>2
    <3> QED
      BY <3>1, HandledCalls, Faulted
  <2> QED
    BY <2>1, <2>2
<1>2. Handling(name, C)'
  BY <1>1 DEF Handling, HandlersIn
<1> QED
  BY <1>1, <1>2 DEF Moves, InFlight

LEMMA Dies ==
  ASSUME NEW name, NEW C, Handling(name, C), Crash
  PROVE  Handling(name, C)' /\ begun' = begun /\ InFlight' = {}
<1>1. /\ req' \in [Requests -> C \cup {None}] /\ \A p \in Requests : req'[p] = None
      /\ faults' \in 0 .. MaxFaults /\ UNCHANGED <<service, begun>>
  BY HandledCalls, Crashed
<1>2. Handling(name, C)'
  BY <1>1 DEF Handling, HandlersIn
<1> QED
  BY <1>1, <1>2 DEF InFlight

LEMMA Rests ==
  ASSUME NEW name, NEW C, Handling(name, C), UNCHANGED handlers
  PROVE  Handling(name, C)' /\ begun' = begun /\ InFlight' = InFlight /\ req' = req
BY DEF Handling, HandlersIn, handlers, InFlight

\* A request is answered at once.
LEMMA Answers ==
  ASSUME NEW name, NEW C, Handling(name, C), Once
  PROVE  Handling(name, C)' /\ begun' = begun + 1 /\ InFlight' = InFlight /\ req' = req
BY HandlersAssumption DEF Handling, HandlersIn, InFlight, Once

LEMMA Starts ==
  ASSUME NEW name, NEW C, HandlersInit, service = name
  PROVE  Handling(name, C) /\ begun = 0 /\ InFlight = {}
BY HandlersAssumption DEF HandlersInit, Handling, HandlersIn, InFlight
-----------------------------------------------------------------------------
\* Numbers have a least one, and bounded ones a greatest one.
LEMMA Least ==
  ASSUME NEW S, S \subseteq Nat, S # {}
  PROVE  \E x \in S : \A y \in S : x <= y
<1>1. PICK x \in S : \A y \in S : <<y, x>> \notin OpToRel(<, Nat)
  BY NatLessThanWellFounded, WFMin
<1>2. \A y \in S : ~ (y < x)
  BY <1>1 DEF OpToRel
<1> QED
  BY <1>2

LEMMA Greatest ==
  ASSUME NEW n \in Nat, NEW S, S \subseteq 0 .. n, S # {}
  PROVE  \E x \in S : \A y \in S : x >= y
<1>1. PICK T : T = {n - x : x \in S}
  OBVIOUS
<1>2. T \subseteq Nat /\ T # {}
  <2>1. \A x \in S : n - x \in Nat
    OBVIOUS
  <2>2. PICK x : x \in S
    OBVIOUS
  <2> QED
    BY <1>1, <2>1, <2>2
<1>3. PICK t \in T : \A y \in T : t <= y
  BY <1>2, Least
<1>4. PICK x \in S : t = n - x
  BY <1>1
<1>5. \A y \in S : n - x <= n - y
  BY <1>1, <1>3, <1>4
<1> QED
  BY <1>5
-----------------------------------------------------------------------------
(* The ways up a forest, or what is one but for circles: each of V has one *)
(* above it, F[v], itself at the top.                                      *)

\* Induction up to n, over a set in the place of a predicate.
LEMMA Upwards ==
  ASSUME NEW n \in Nat, NEW G, 0 \in G, \A k \in 0 .. n : k \in G /\ k < n => k + 1 \in G
  PROVE  0 .. n \subseteq G
<1> SUFFICES ASSUME ~ (0 .. n \subseteq G)
             PROVE  FALSE
  OBVIOUS
<1>1. PICK S : S = {k \in 0 .. n : k \notin G}
  OBVIOUS
<1>2. PICK k \in S : \A j \in S : k <= j
  BY <1>1, Least
<1>3. k # 0 /\ k - 1 \in 0 .. n /\ k - 1 \notin S
  BY <1>1, <1>2
<1> QED
  BY <1>1, <1>2, <1>3

\* f is the way up from m, n steps of it.
Way(V, F, m, n, f) == f \in [0 .. n -> V] /\ f[0] = m /\ \A k \in 1 .. n : f[k] = F[f[k - 1]]

Turning(V, F, m) == \E S \in SUBSET V : m \in S /\ \A v \in S : F[v] \in S \ {v}

LEMMA WayExists ==
  ASSUME NEW V, NEW F \in [V -> V], NEW m \in V, NEW n \in Nat
  PROVE  \E f : Way(V, F, m, n, f)
<1>1. PICK G : G = {k \in 0 .. n : \E f : Way(V, F, m, k, f)}
  OBVIOUS
<1>2. 0 \in G
  <2>1. PICK f : f = [k \in 0 .. 0 |-> m]
    OBVIOUS
  <2>2. Way(V, F, m, 0, f)
    BY <2>1 DEF Way
  <2> QED
    BY <1>1, <2>2
<1>3. ASSUME NEW k \in 0 .. n, k \in G, k < n
      PROVE  k + 1 \in G
  <2>1. PICK f : Way(V, F, m, k, f)
    BY <1>1, <1>3
  <2>2. PICK g : g = [j \in 0 .. k + 1 |-> IF j = k + 1 THEN F[f[k]] ELSE f[j]]
    OBVIOUS
  <2>3. g \in [0 .. k + 1 -> V] /\ g[0] = m /\ g[k + 1] = F[f[k]] /\ \A j \in 0 .. k : g[j] = f[j]
    BY <2>1, <2>2 DEF Way
  <2>4. \A j \in 1 .. k + 1 : g[j] = F[g[j - 1]]
    BY <2>1, <2>3 DEF Way
  <2>5. Way(V, F, m, k + 1, g)
    BY <2>3, <2>4 DEF Way
  <2>6. k + 1 \in 0 .. n
    BY <1>3
  <2> QED
    BY <1>1, <2>5, <2>6
<1>4. 0 .. n \subseteq G
  BY <1>2, <1>3, Upwards
<1>5. n \in G
  BY <1>4
<1> QED
  BY <1>1, <1>5

\* A set that has the start and with each what is above it has the whole way.
LEMMA WayWithin ==
  ASSUME NEW V, NEW F \in [V -> V], NEW m \in V, NEW n \in Nat, NEW f, Way(V, F, m, n, f),
         NEW S, m \in S, \A v \in S \cap V : F[v] \in S
  PROVE  \A k \in 0 .. n : f[k] \in S
<1>1. PICK G : G = {k \in 0 .. n : f[k] \in S}
  OBVIOUS
<1>2. 0 \in G
  BY <1>1 DEF Way
<1>3. \A k \in 0 .. n : k \in G /\ k < n => k + 1 \in G
  BY <1>1 DEF Way
<1>4. 0 .. n \subseteq G
  BY <1>2, <1>3, Upwards
<1> QED
  BY <1>1, <1>4

\* At the top it stays.
LEMMA WayStays ==
  ASSUME NEW V, NEW F \in [V -> V], NEW m \in V, NEW n \in Nat, NEW f, Way(V, F, m, n, f),
         NEW i \in 0 .. n, F[f[i]] = f[i]
  PROVE  f[n] = f[i]
<1>1. PICK G : G = {k \in 0 .. n : k >= i => f[k] = f[i]}
  OBVIOUS
<1>2. 0 \in G
  BY <1>1
<1>3. ASSUME NEW k \in 0 .. n, k \in G, k < n
      PROVE  k + 1 \in G
  <2>1. CASE k + 1 > i
    BY <1>1, <1>3, <2>1 DEF Way
  <2>2. CASE k + 1 = i
    BY <1>1, <1>3, <2>2
  <2>3. CASE k + 1 < i
    BY <1>1, <1>3, <2>3
  <2> QED
    BY <2>1, <2>2, <2>3
<1>4. 0 .. n \subseteq G
  BY <1>2, <1>3, Upwards
<1> QED
  BY <1>1, <1>4

\* A way that is back where it was, and had not come to a top, turns in a circle.
LEMMA WayTurns ==
  ASSUME NEW V, NEW F \in [V -> V], NEW m \in V, NEW n \in Nat, NEW f, Way(V, F, m, n, f),
         NEW i \in 0 .. n, NEW j \in 0 .. n, i < j, f[i] = f[j],
         \A k \in 0 .. j - 1 : F[f[k]] # f[k]
  PROVE  Turning(V, F, m)
<1>1. PICK S : S = {f[k] : k \in 0 .. j - 1}
  OBVIOUS
<1>2. m \in S /\ S \in SUBSET V
  BY <1>1 DEF Way
<1>3. ASSUME NEW k \in 0 .. j - 1
      PROVE  F[f[k]] \in S \ {f[k]}
  <2>1. F[f[k]] = f[k + 1]
    BY DEF Way
  <2>2. CASE k + 1 = j
    <3>1. i \in 0 .. j - 1
      OBVIOUS
    <3> QED
      BY <1>1, <2>1, <2>2, <3>1
  <2>3. CASE k + 1 < j
    <3>1. k + 1 \in 0 .. j - 1
      BY <2>3
    <3> QED
      BY <1>1, <2>1, <3>1
  <2> QED
    BY <2>2, <2>3
<1>4. \A v \in S : F[v] \in S \ {v}
  BY <1>1, <1>3
<1> QED
  BY <1>2, <1>4 DEF Turning

\* A way that is as long as V is large is back where it was.
LEMMA WayReturns ==
  ASSUME NEW V, IsFiniteSet(V), NEW F \in [V -> V], NEW m \in V,
         NEW f, Way(V, F, m, Cardinality(V), f)
  PROVE  \E i, j \in 0 .. Cardinality(V) : i < j /\ f[i] = f[j]
<1>1. PICK n : n = Cardinality(V) /\ n \in Nat
  BY FS_CardinalityType
<1>2. IsFiniteSet(0 .. n) /\ Cardinality(0 .. n) = n + 1
  BY <1>1, FS_Interval
<1>3. f \in [0 .. n -> V]
  BY <1>1 DEF Way
<1>4. PICK x, y \in 0 .. n : x # y /\ f[x] = f[y]
  BY <1>1, <1>2, <1>3, FS_PigeonHole
<1>5. x < y \/ y < x
  BY <1>4
<1> QED
  BY <1>1, <1>4, <1>5

\* It ends at a top if and only if it does not turn in a circle.
LEMMA WayEnds ==
  ASSUME NEW V, IsFiniteSet(V), NEW F \in [V -> V], NEW m \in V,
         NEW f, Way(V, F, m, Cardinality(V), f)
  PROVE  Turning(V, F, m) <=> F[f[Cardinality(V)]] # f[Cardinality(V)]
<1>1. PICK n : n = Cardinality(V) /\ n \in Nat
  BY FS_CardinalityType
<1>2. ASSUME Turning(V, F, m)
      PROVE  F[f[n]] # f[n]
  <2>1. PICK S \in SUBSET V : m \in S /\ \A v \in S : F[v] \in S \ {v}
    BY <1>2 DEF Turning
  <2>2. \A k \in 0 .. n : f[k] \in S
    BY <1>1, <2>1, WayWithin
  <2>3. f[n] \in S
    BY <1>1, <2>2
  <2> QED
    BY <2>1, <2>3
<1>3. ASSUME F[f[n]] # f[n]
      PROVE  Turning(V, F, m)
  <2>1. PICK i, j \in 0 .. n : i < j /\ f[i] = f[j]
    BY <1>1, WayReturns
  <2>2. ASSUME NEW k \in 0 .. j - 1
        PROVE  F[f[k]] # f[k]
    <3>1. k \in 0 .. n
      BY <1>1, <2>1
    <3>2. F[f[k]] = f[k] => f[n] = f[k]
      BY <1>1, <3>1, WayStays
    <3> QED
      BY <1>3, <3>2
  <2> QED
    BY <1>1, <2>1, <2>2, WayTurns
<1> QED
  BY <1>1, <1>2, <1>3

\* What is above turns if and only if what is below does.
LEMMA AboveTurns ==
  ASSUME NEW V, NEW F \in [V -> V], NEW m \in V
  PROVE  Turning(V, F, F[m]) <=> Turning(V, F, m)
<1>1. ASSUME Turning(V, F, m)
      PROVE  Turning(V, F, F[m])
  BY <1>1 DEF Turning
<1>2. ASSUME Turning(V, F, F[m])
      PROVE  Turning(V, F, m)
  <2>1. PICK S \in SUBSET V : F[m] \in S /\ \A v \in S : F[v] \in S \ {v}
    BY <1>2 DEF Turning
  <2>2. PICK T : T = S \cup {m}
    OBVIOUS
  <2>3. F[m] # m
    <3>1. F[m] = m => m \in S /\ F[m] \in S \ {m}
      BY <2>1
    <3> QED
      BY <3>1
  <2>4. T \in SUBSET V /\ m \in T /\ \A v \in T : F[v] \in T \ {v}
    BY <2>1, <2>2, <2>3
  <2> QED
    BY <2>4 DEF Turning
<1> QED
  BY <1>1, <1>2

\* The way from what is above m is one step ahead.
LEMMA WayAhead ==
  ASSUME NEW V, NEW F \in [V -> V], NEW m \in V, NEW n \in Nat,
         NEW f, Way(V, F, m, n, f), NEW g, Way(V, F, F[m], n, g)
  PROVE  g[n] = F[f[n]]
<1>1. PICK G : G = {k \in 0 .. n : g[k] = F[f[k]]}
  OBVIOUS
<1>2. 0 \in G
  BY <1>1 DEF Way
<1>3. \A k \in 0 .. n : k \in G /\ k < n => k + 1 \in G
  BY <1>1 DEF Way
<1>4. 0 .. n \subseteq G
  BY <1>2, <1>3, Upwards
<1> QED
  BY <1>1, <1>4

\* A set that has one if and only if it has what is above it has the start if it has the end.
LEMMA WayBack ==
  ASSUME NEW V, NEW F \in [V -> V], NEW m \in V, NEW n \in Nat, NEW f, Way(V, F, m, n, f),
         NEW S, \A v \in V : v \in S <=> F[v] \in S
  PROVE  m \in S <=> f[n] \in S
<1>1. PICK G : G = {k \in 0 .. n : m \in S <=> f[k] \in S}
  OBVIOUS
<1>2. 0 \in G
  BY <1>1 DEF Way
<1>3. \A k \in 0 .. n : k \in G /\ k < n => k + 1 \in G
  BY <1>1 DEF Way
<1>4. 0 .. n \subseteq G
  BY <1>2, <1>3, Upwards
<1> QED
  BY <1>1, <1>4
=============================================================================
