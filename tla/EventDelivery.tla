------------------------------ MODULE EventDelivery ------------------------------
(***************************************************************************)
(* What the transactional outbox promises for each integration event: it   *)
(* exists once its financial transaction has committed, the event queue    *)
(* accepts it before the database calls it published, and neither of the   *)
(* two is ever taken back.                                                 *)
(***************************************************************************)
CONSTANT Events

VARIABLE stage

Stages == {"absent", "stored", "accepted", "published"}

Init == stage = [e \in Events |-> "absent"]

(* A financial transaction commits the snapshots of the events E.          *)
Commit(E) ==
  /\ \A e \in E : stage[e] = "absent"
  /\ stage' = [e \in Events |-> IF e \in E THEN "stored" ELSE stage[e]]

Advance(e, from, to) == /\ stage[e] = from
                        /\ stage' = [stage EXCEPT ![e] = to]

(* The queue accepts the event for the first time.                         *)
Accept(e) == Advance(e, "stored", "accepted")

(* The database records that the event was published.                      *)
Confirm(e) == Advance(e, "accepted", "published")

Next ==
  \/ \E E \in SUBSET Events : E # {} /\ Commit(E)
  \/ \E e \in Events : Accept(e) \/ Confirm(e)

Spec == Init /\ [][Next]_stage
================================================================================
