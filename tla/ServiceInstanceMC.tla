--------------------------- MODULE ServiceInstanceMC ---------------------------
(***************************************************************************)
(* Small instances of ServiceInstance.                                     *)
(***************************************************************************)
EXTENDS ServiceInstance

CONSTANTS r1, r2

\* Two submissions compete for one slot.
SameRoute == [r \in Requests |-> "POST /wagering/transactions"]

\* The requests are business requests of different kinds.
OwnRoutes ==
  [r \in Requests |->
     IF r = r1 THEN "POST /wallets/reconciliation"
     ELSE "POST /wagering/transactions"]
================================================================================
