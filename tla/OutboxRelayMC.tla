------------------------------ MODULE OutboxRelayMC ------------------------------
(***************************************************************************)
(* Instances of OutboxRelay: two publishers and three events, two of one   *)
(* transaction (Processed and BalanceChanged) and one of another.          *)
(***************************************************************************)
EXTENDS OutboxRelay

CONSTANTS
  processed, changed, rejected, w1, p1, p2,
  MaxWork  \* bound: events and faults together

MCEvents      == {processed, changed, rejected}
MCEmissions   == {<<processed, changed>>, <<rejected>>}
MCAggregateOf == [e \in MCEvents |-> w1]

(* The more events, the fewer faults.                                      *)
MCSpec == Init /\ [][Next /\ Len(commits') + faults' <= MaxWork]_vars /\ Fairness
================================================================================
