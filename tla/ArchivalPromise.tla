--------------------------- MODULE ArchivalPromise ---------------------------
(***************************************************************************)
(* What reliable archival promises to a caller, without coordinators,      *)
(* leases or attempts: an accepted archival may freeze one batch, then     *)
(* publishes exactly that batch at once with its completion, or is refused *)
(* and publishes nothing.                                                  *)
(***************************************************************************)
CONSTANTS Archivals, Batches, NoBatch

VARIABLES
  stage,      \* how far each archival has come
  frozen,     \* the batch it has frozen
  visible     \* the batch readers of the memory see

promise == <<stage, frozen, visible>>

Stages == {"unknown", "accepted", "prepared", "published", "refused"}

PInit ==
  /\ stage = [a \in Archivals |-> "unknown"]
  /\ frozen = [a \in Archivals |-> NoBatch]
  /\ visible = [a \in Archivals |-> NoBatch]

Accept(a) ==
  /\ stage[a] = "unknown"
  /\ stage' = [stage EXCEPT ![a] = "accepted"]
  /\ UNCHANGED <<frozen, visible>>

Prepare(a, b) ==
  /\ stage[a] = "accepted"
  /\ stage' = [stage EXCEPT ![a] = "prepared"]
  /\ frozen' = [frozen EXCEPT ![a] = b]
  /\ UNCHANGED visible

Publish(a) ==
  /\ stage[a] = "prepared"
  /\ stage' = [stage EXCEPT ![a] = "published"]
  /\ visible' = [visible EXCEPT ![a] = frozen[a]]
  /\ UNCHANGED frozen

Refuse(a) ==
  /\ stage[a] \in {"accepted", "prepared"}
  /\ stage' = [stage EXCEPT ![a] = "refused"]
  /\ UNCHANGED <<frozen, visible>>

PNext ==
  \E a \in Archivals :
    Accept(a) \/ (\E b \in Batches : Prepare(a, b)) \/ Publish(a) \/ Refuse(a)

PSpec == PInit /\ [][PNext]_promise
=============================================================================
