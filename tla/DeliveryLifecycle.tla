------------------------- MODULE DeliveryLifecycle -------------------------
(***************************************************************************)
(* What the delivery queue promises of each delivery, whatever threads,    *)
(* crashes and restarts do: once it is enqueued it is attempted at most    *)
(* MaxAttempts times on record, and it is settled exactly once, after a    *)
(* success, after the last allowed failure, or by a refusal.               *)
(***************************************************************************)
EXTENDS Integers

CONSTANTS
  Ids,          \* the deliveries
  MaxAttempts   \* attempts before a delivery is failed

VARIABLES
  stage,     \* "absent", "waiting", "delivered" or "failed"
  attempts   \* the attempts on record

lifeVars == <<stage, attempts>>

LifeInit ==
  /\ stage \in [Ids -> {"absent", "waiting"}]
  /\ attempts = [i \in Ids |-> 0]

Enqueue(i) ==
  /\ stage[i] = "absent"
  /\ stage' = [stage EXCEPT ![i] = "waiting"]
  /\ UNCHANGED attempts

Record(i) ==
  /\ stage[i] = "waiting"
  /\ attempts' = [attempts EXCEPT ![i] = @ + 1]

Succeed(i) ==
  /\ Record(i)
  /\ stage' = [stage EXCEPT ![i] = "delivered"]

Defer(i) ==
  /\ Record(i)
  /\ attempts[i] + 1 < MaxAttempts
  /\ UNCHANGED stage

GiveUp(i) ==
  /\ Record(i)
  /\ attempts[i] + 1 = MaxAttempts
  /\ stage' = [stage EXCEPT ![i] = "failed"]

Refuse(i) ==
  /\ stage[i] = "waiting"
  /\ stage' = [stage EXCEPT ![i] = "failed"]
  /\ UNCHANGED attempts

LifeNext == \E i \in Ids : \/ Enqueue(i) \/ Succeed(i) \/ Defer(i)
                           \/ GiveUp(i) \/ Refuse(i)

LifeSpec == LifeInit /\ [][LifeNext]_lifeVars
=============================================================================
