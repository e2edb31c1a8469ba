---------------------------- MODULE IngressConsumerMC ----------------------------
(***************************************************************************)
(* Instances of IngressConsumer: two consumers; one wallet whose first     *)
(* message the use case refuses for good, one whose first is malformed.    *)
(***************************************************************************)
EXTENDS IngressConsumer, TLC

CONSTANTS w1, w2, c1, c2

MCMessages == 1..3
MCWalletOf == [m \in MCMessages |-> IF m = 3 THEN w2 ELSE w1]
MCFate     == [m \in MCMessages |-> CASE m = 1 -> "refused" [] m = 2 -> "valid"
                                      [] m = 3 -> "malformed"]

ValidMessages == 1..2
ValidWalletOf == [m \in ValidMessages |-> w1]
ValidFate     == [m \in ValidMessages |-> "valid"]

ConsumerSymmetry == Permutations({c1, c2})
================================================================================
