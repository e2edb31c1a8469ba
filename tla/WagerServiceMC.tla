---------------------------- MODULE WagerServiceMC ----------------------------
(***************************************************************************)
(* Small instances of WagerService.  A scenario is the set of commands the *)
(* requests of one behaviour choose from.                                  *)
(***************************************************************************)
EXTENDS WagerService, TLC

CONSTANTS w1, w2

MCOwners ==
  {[player |-> "ann", currency |-> "BRL"], [player |-> "bob", currency |-> "BRL"]}

Command(key, ext, kind, amount, ref) ==
  [provider |-> "p", key |-> key, ext |-> ext, wallet |-> w1, player |-> "ann",
   round |-> "r", kind |-> kind, amount |-> amount, currency |-> "BRL",
   ref |-> ref]

Bet       == Command("k1", "x1", "BET", 2, NoRef)
SmallBet  == Command("k1", "x1", "BET", 1, NoRef)      \* same key, other body
StolenBet == Command("k2", "x1", "BET", 2, NoRef)      \* same identity, other key
OtherBet  == Command("k3", "x3", "BET", 2, NoRef)
FarBet    == [Bet EXCEPT !.wallet = w2]                \* same key, other wallet
Dollars   == [OtherBet EXCEPT !.currency = "USD"]
Loss      == Command("k4", "x4", "LOSS", 0, NoRef)

Refund    == Command("k5", "x5", "REFUND", 2, "x1")
Rollback  == Command("k6", "x6", "ROLLBACK", 2, "x1")
Undo      == Command("k7", "x7", "ROLLBACK", 2, "x5")  \* of the refund
Win       == Command("k8", "x8", "WIN", 2, "x1")
BareWin   == Command("k9", "x9", "WIN", 2, NoRef)
WrongSum  == Command("ka", "xa", "REFUND", 1, "x1")
WrongUndo == Command("kc", "xc", "ROLLBACK", 1, "x5")
BigBet    == Command("kd", "xd", "BET", 4, NoRef)       \* spends the win too
UndoWin   == Command("ke", "xe", "ROLLBACK", 2, "x9")  \* of BareWin
OtherGame == [Win EXCEPT !.key = "kb", !.ext = "xb", !.round = "s"]
Stranger  == [Rollback EXCEPT !.provider = "q"]

IdentityScenario == {Bet, SmallBet, StolenBet, FarBet}
FundsScenario    == {Bet, OtherBet, Loss, BareWin, Dollars}
ReversalScenario == {Bet, Refund, Rollback, Undo, Win}
MismatchScenario == {Bet, FarBet, WrongSum, OtherGame, Stranger}
CycleScenario    == {Bet, Refund, WrongUndo}
SpentScenario    == {BareWin, BigBet, UndoWin}

MCCommands == IdentityScenario \cup FundsScenario \cup ReversalScenario
                \cup MismatchScenario \cup CycleScenario \cup SpentScenario

CONSTANT Scenarios

AllScenarios ==
  {IdentityScenario, FundsScenario, ReversalScenario, MismatchScenario,
   CycleScenario, SpentScenario}

\* A body redelivered with another one, and a dependent of it.
SharedScenario == {Bet, SmallBet, Refund}

\* A chain of dependents that may arrive in any order.
ChainScenario == {Bet, Refund, Undo}

Everything == AllScenarios \cup {SharedScenario, ChainScenario}

FromScenario(scenario) == \A q \in Requests : cmd[q] \in scenario

Delivered == \E q \in Requests : msg[q] # Http

\* Only the shared scenario is delivered by the broker too.
MCInit ==
  /\ Init
  /\ \E scenario \in Scenarios : FromScenario(scenario)
  /\ Delivered => FromScenario(SharedScenario)

MCSpec == MCInit /\ [][Next]_vars

\* Bounds: ann opens w1, then bob w2 where the scenario uses it; rows are
\* damaged, and two workers at work at once, in the scenarios they matter for.
Bounded ==
  /\ owner[w1] # NoOwner => owner[w1].player = "ann"
  /\ w2 \in Wallets /\ owner[w2] # NoOwner =>
       owner[w1] # NoOwner /\ \E q \in Requests : cmd[q].wallet = w2
  /\ corrupt # {} => FromScenario(SharedScenario) /\ ~Delivered
  /\ Cardinality({v \in Workers : pc[v] # "idle"}) > 1 =>
       FromScenario(SharedScenario) \/ FromScenario(ChainScenario)

\* Liveness: one owner, no constraint and no symmetry; the requests are
\* interchangeable, so each line of commands is given to them in one order.
CONSTANTS q1, q2, q3, Lines

MCOneOwner == {[player |-> "ann", currency |-> "BRL"]}

\* A bet, its refund and the refund's rollback; the same with two wrong
\* dependents of a waiting refund; a bet submitted twice.
WaitLines == {<<Bet, Refund, Undo>>, <<Refund, WrongUndo, Undo>>,
              <<Bet, Bet, Refund>>}

\* The bet leaves room that another credit takes before the win is resolved.
OverflowLines == {<<Bet, BareWin, Win>>}

LineCommands == {l[i] : l \in Lines, i \in 1..3}

LineInit == Init /\ <<cmd[q1], cmd[q2], cmd[q3]>> \in Lines

MCFairSpec == LineInit /\ [][Next]_vars /\ Fairness

RequestSymmetry == Permutations(Requests)

WorkerSymmetry == Permutations(Requests) \cup Permutations(Workers)

===============================================================================
