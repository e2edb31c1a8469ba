--------------------------- MODULE WagerLedgerProofs ---------------------------
(***************************************************************************)
(* Theorems about the tables under the atomic specification LedgerSpec,    *)
(* for every set of requests, wallets, commands and messages and every     *)
(* MaxMoney.                                                               *)
(***************************************************************************)
EXTENDS WagerLedger, TLAPS

\* The part of the tables a decision writes.
WrittenOK ==
  /\ balance \in [Wallets -> 0..MaxMoney]
  /\ version \in [Wallets -> Nat]
  /\ state \in [Requests -> States]
  /\ code \in [Requests -> FailureCodes \cup {"none"}]
  /\ observed \in [Requests -> (0..MaxMoney) \cup {NoBalance}]
  /\ refTxn \in [Requests -> Requests \cup {NoTxn}]
  /\ ledger \in [Wallets -> Seq(Entries)]
  /\ claims \in SUBSET [reference : Requests, reversal : Requests]
  /\ events \in [Requests \cup Wallets -> Seq(EventTypes)]

\* Every way the code builds a plan builds one of Plans.
LEMMA PlanMembers ==
  /\ Pending \in Plans /\ Settled \in Plans /\ Failed \in Plans
  /\ \A cd \in FailureCodes : Rejected(cd) \in Plans
  /\ \A dir \in Directions : Moved(dir) \in Plans /\ Compensated(dir) \in Plans
  BY DEF Plans

\* What the shapes of the plans amount to.
Shaped(p) ==
  /\ p.outcome \in {"pending", "reject", "settle", "move", "fail"}
  /\ p.outcome = "reject" => p.code \in FailureCodes
  /\ p.outcome = "move" => p.dir \in Directions
  /\ p.claim \in BOOLEAN
  /\ p.claim => p.outcome = "move"
  /\ p.outcome = "pending" => p = Pending
  /\ p.outcome = "fail" => p = Failed

LEMMA PlanShape ==
  ASSUME NEW p \in Plans
  PROVE  Shaped(p)
<1>1. Shaped(Pending) /\ Shaped(Settled) /\ Shaped(Failed)
  BY DEF Shaped, Plan, Pending, Settled, Failed, FailureCodes
<1>2. ASSUME NEW cd \in FailureCodes PROVE Shaped(Rejected(cd))
  BY DEF Shaped, Plan, Rejected, Pending, Failed
<1>3. ASSUME NEW dir \in Directions
      PROVE  Shaped(Moved(dir)) /\ Shaped(Compensated(dir))
  BY DEF Shaped, Plan, Moved, Compensated, Pending, Failed
<1>4. \/ p \in {Pending, Settled, Failed}
      \/ \E cd \in FailureCodes : p = Rejected(cd)
      \/ \E dir \in Directions : p = Moved(dir) \/ p = Compensated(dir)
  BY DEF Plans
<1> QED BY <1>1, <1>2, <1>3, <1>4, Zenon

\* Classifying a command yields a plan, whatever it is classified against, and
\* one that claims only against a processed reference that carries no claim.
LEMMA ClassifyType ==
  /\ \A c : ClassifyAlone(c) \in Plans /\ ~ClassifyAlone(c).claim
  /\ \A c, d, st, cl : ClassifyAgainst(c, d, st, cl) \in Plans
<1>1. "DEBIT" \in Directions /\ "CREDIT" \in Directions
  BY DEF Directions
<1>2. ASSUME NEW c PROVE ClassifyAlone(c) \in Plans /\ ~ClassifyAlone(c).claim
  <2>1. ClassifyAlone(c) \in Plans
    BY <1>1, PlanMembers DEF ClassifyAlone
  <2>2. ~Settled.claim /\ ~Moved("DEBIT").claim /\ ~Moved("CREDIT").claim
    BY DEF Settled, Moved, Plan
  <2> QED BY <2>1, <2>2 DEF ClassifyAlone
<1>3. ASSUME NEW c, NEW d, NEW st, NEW cl
      PROVE  ClassifyAgainst(c, d, st, cl) \in Plans
  <2>1. ReferenceFault(c, d) # "none" => ReferenceFault(c, d) \in FailureCodes
    BY DEF ReferenceFault, FailureCodes
  <2>2. {"REFERENCE_NOT_PROCESSED", "ALREADY_REVERSED"} \subseteq FailureCodes
    BY DEF FailureCodes
  <2>3. MovementOf(c, d) \in Plans
    BY <1>1, PlanMembers DEF MovementOf
  <2> QED BY <2>1, <2>2, <2>3, PlanMembers DEF ClassifyAgainst
<1> QED BY <1>2, <1>3

-------------------------------------------------------------------------------
(* What a decision is worth                                                *)

Undecided(t) == state[t] \in {"ABSENT", "PENDING_REFERENCE"}

\* dir is the way a movement of t takes money, r being the transaction it
\* resolved: a reversal goes against the movement of its reference.
Turns(t, r, dir) ==
  /\ cmd[t].kind = "BET" => dir = "DEBIT"
  /\ cmd[t].kind \in {"WIN", "REFUND"} => dir = "CREDIT"
  /\ cmd[t].kind \in ReversalKinds =>
       /\ cmd[r].kind \in {"BET", "WIN", "REFUND"}
       /\ dir = IF cmd[r].kind = "BET" THEN "CREDIT" ELSE "DEBIT"

FundsCodes == {"INSUFFICIENT_FUNDS", "REVERSAL_INSUFFICIENT_FUNDS"}

FaultCodes == {"INVALID_WIN_REFERENCE", "REFERENCE_KIND_NOT_ALLOWED",
               "REFERENCE_MISMATCH", "REVERSAL_AMOUNT_MISMATCH"}

\* There is ground to reject t with code cd, r being the transaction it
\* resolved and b the balance of its wallet.
Grounds(t, cd, r, b) ==
  /\ cd \in FundsCodes \cup FaultCodes \cup
       {"REFERENCE_NOT_FOUND", "REFERENCE_NOT_PROCESSED", "ALREADY_REVERSED"}
  /\ cd \in FundsCodes => b < cmd[t].amount
  /\ cd = "REFERENCE_NOT_FOUND" => r = NoTxn /\ t \in late
  /\ cd = "REFERENCE_NOT_PROCESSED" =>
       r # NoTxn /\ state[r] \in {"REJECTED", "FAILED"}
  /\ cd = "ALREADY_REVERSED" => Claimed(r)
  /\ cd \in FaultCodes => r # NoTxn /\ cd = ReferenceFault(cmd[t], cmd[r])

\* d is a decision the tables bear out: a rejection has its ground; a movement goes the way of its kind;
\* one that refers to another transaction finds it processed, of the same
\* identity and, if it is to be compensated, of the same amount and not
\* compensated yet.
BorneOut(t, d) ==
  /\ d \in Decisions
  /\ d.plan = Pending => d = Defer /\ NeedsReference(cmd[t])
  /\ d.plan.outcome = "settle" => cmd[t].kind = "LOSS" /\ d.ref = NoTxn
  /\ d.plan.outcome = "fail" => NeedsReference(cmd[t])
  /\ d.plan.outcome = "reject" => \A b : Grounds(t, d.plan.code, d.ref, b)
  /\ d.plan.outcome = "move" =>
       /\ cmd[t].kind # "LOSS"
       /\ Turns(t, d.ref, d.plan.dir)
       /\ d.plan.claim <=> cmd[t].kind \in ReversalKinds
       /\ d.ref # NoTxn =>
            Processed(d.ref) /\ SameIdentity(cmd[t], cmd[d.ref])
       /\ d.plan.claim =>
            /\ d.ref # NoTxn
            /\ ~Claimed(d.ref)
            /\ cmd[d.ref].amount = cmd[t].amount

LEMMA CommandFacts ==
  ASSUME LedgerTypeOK, NEW t \in Requests
  PROVE  /\ cmd[t].wallet \in Wallets
         /\ cmd[t].amount \in 0..MaxMoney
         /\ cmd[t].amount = 0 <=> cmd[t].kind = "LOSS"
         /\ cmd[t].kind \in Kinds
         /\ cmd[t].kind \in {"BET", "LOSS"} => ~NeedsReference(cmd[t])
         /\ cmd[t].kind \in ReversalKinds => NeedsReference(cmd[t])
  BY LedgerAssumptions DEF LedgerTypeOK, ValidCommand, NeedsReference

\* The three ways to decide.
LEMMA DecideCases ==
  ASSUME NEW t, NEW bad
  PROVE  \/ /\ ~NeedsReference(cmd[t])
            /\ Decide(t, bad) = [plan |-> ClassifyAlone(cmd[t]), ref |-> NoTxn]
         \/ /\ NeedsReference(cmd[t])
            /\ Decide(t, bad) = Defer
         \/ /\ NeedsReference(cmd[t])
            /\ \E r \in ReferencesOf(t) :
                 Decide(t, bad) = DecisionAgainst(t, r, bad)
<1>1. CASE NeedsReference(cmd[t]) /\ ReferencesOf(t) # {}
  <2>1. (CHOOSE r \in ReferencesOf(t) : TRUE) \in ReferencesOf(t)
    BY <1>1
  <2> QED BY <1>1, <2>1 DEF Decide
<1> QED BY <1>1 DEF Decide

LEMMA DeferBorneOut ==
  ASSUME NEW t \in Requests, NeedsReference(cmd[t])
  PROVE  BorneOut(t, Defer)
  BY PlanMembers DEF BorneOut, Defer, Decisions, Pending, Plan

LEMMA AloneBorneOut ==
  ASSUME LedgerTypeOK, NEW t \in Requests, ~NeedsReference(cmd[t])
  PROVE  BorneOut(t, [plan |-> ClassifyAlone(cmd[t]), ref |-> NoTxn])
<1> DEFINE p == ClassifyAlone(cmd[t])
           d == [plan |-> p, ref |-> NoTxn]
<1>1. d \in Decisions
  BY ClassifyType DEF Decisions
<1>2. cmd[t].kind \notin ReversalKinds /\ ~p.claim
  BY CommandFacts, ClassifyType
<1>3. CASE cmd[t].kind = "LOSS"
  <2>1. p = Settled
    BY <1>3 DEF ClassifyAlone
  <2> QED BY <1>1, <1>2, <1>3, <2>1 DEF BorneOut, Settled, Pending, Plan
<1>4. CASE cmd[t].kind # "LOSS"
  <2>1. cmd[t].kind \in {"BET", "WIN"}
    BY <1>2, <1>4, CommandFacts DEF Kinds, ReversalKinds
  <2>2. p = Moved(IF cmd[t].kind = "BET" THEN "DEBIT" ELSE "CREDIT")
    BY <1>4 DEF ClassifyAlone
  <2>3. /\ p.outcome = "move" /\ ~p.claim /\ p # Pending
        /\ p.dir = IF cmd[t].kind = "BET" THEN "DEBIT" ELSE "CREDIT"
    BY <2>2 DEF Moved, Pending, Plan
  <2>4. Turns(t, NoTxn, p.dir)
    BY <1>2, <2>1, <2>3 DEF Turns
  <2>5. d.plan = p /\ d.ref = NoTxn
    OBVIOUS
  <2>6. p.outcome \notin {"settle", "fail", "reject"}
    BY <2>3
  <2> HIDE DEF p, d
  <2>7. BorneOut(t, d)
    BY <1>1, <1>2, <1>4, <2>3, <2>4, <2>5, <2>6 DEF BorneOut
  <2> QED BY <2>7 DEF d, p
<1> QED BY <1>3, <1>4

\* A classification that moves money has found the reference processed.
LEMMA MovesAgainst ==
  ASSUME NEW c, NEW d, NEW st, NEW cl,
         ClassifyAgainst(c, d, st, cl).outcome = "move",
         c.kind \in {"WIN"} \cup ReversalKinds
  PROVE  LET p == ClassifyAgainst(c, d, st, cl) IN
         /\ st \notin PendingStates \cup {"REJECTED", "FAILED"}
         /\ SameIdentity(c, d)
         /\ p.claim <=> c.kind \in ReversalKinds
         /\ p.claim => ~cl /\ c.amount = d.amount
         /\ c.kind \in {"WIN", "REFUND"} => p.dir = "CREDIT"
         /\ c.kind \in ReversalKinds =>
              /\ d.kind \in {"BET", "WIN", "REFUND"}
              /\ p.dir = IF d.kind = "BET" THEN "CREDIT" ELSE "DEBIT"
<1>1. /\ Pending.outcome # "move"
      /\ \A cd : Rejected(cd).outcome # "move"
  BY DEF Pending, Rejected, Plan
<1>2. /\ ReferenceFault(c, d) = "none"
      /\ st \notin PendingStates \cup {"REJECTED", "FAILED"}
      /\ c.kind \in ReversalKinds => ~cl
      /\ ClassifyAgainst(c, d, st, cl) = MovementOf(c, d)
  BY <1>1 DEF ClassifyAgainst
<1>3. SameIdentity(c, d) /\ (c.kind # "WIN" => c.amount = d.amount)
  BY <1>2 DEF ReferenceFault
<1>4. /\ MovementOf(c, d).claim <=> c.kind \in ReversalKinds
  BY DEF MovementOf, Moved, Compensated, Plan, ReversalKinds
<1>5. /\ c.kind = "WIN" => MovementOf(c, d).dir = "CREDIT"
      /\ c.kind \in ReversalKinds =>
           MovementOf(c, d).dir = IF d.kind = "BET" THEN "CREDIT" ELSE "DEBIT"
  BY DEF MovementOf, Moved, Compensated, Plan, ReversalKinds
<1>6. /\ c.kind \in ReversalKinds => d.kind \in {"BET", "WIN", "REFUND"}
      /\ c.kind = "REFUND" => d.kind = "BET"
  BY <1>2 DEF ReferenceFault, Reverses, ReversalKinds
<1> QED BY <1>2, <1>3, <1>4, <1>5, <1>6 DEF ReversalKinds

LEMMA AgainstBorneOut ==
  ASSUME LedgerTypeOK, NEW t \in Requests, Undecided(t),
         NeedsReference(cmd[t]), NEW r \in ReferencesOf(t), NEW bad
  PROVE  BorneOut(t, DecisionAgainst(t, r, bad))
<1> DEFINE cl == Claimed(r)
           st == StateSeenBy(t, r)
           p == IF r \in bad THEN Failed
                ELSE ClassifyAgainst(cmd[t], cmd[r], st, cl)
           d == [plan |-> p, ref |-> IF p \in {Pending, Failed} THEN NoTxn ELSE r]
<1>1. d = DecisionAgainst(t, r, bad)
  BY DEF DecisionAgainst
<1>2. r \in Requests
  BY DEF ReferencesOf, Committed
<1>3. p \in Plans /\ d \in Decisions
  BY <1>2, ClassifyType, PlanMembers DEF Decisions
<1>4. p = Pending => d = Defer
  BY DEF Defer
<1>5. p.outcome # "settle"
  <2>1. /\ Pending.outcome # "settle" /\ Failed.outcome # "settle"
        /\ \A cd : Rejected(cd).outcome # "settle"
        /\ \A dir : Moved(dir).outcome # "settle"
        /\ \A dir : Compensated(dir).outcome # "settle"
    BY DEF Pending, Failed, Rejected, Moved, Compensated, Plan
  <2> QED BY <2>1 DEF ClassifyAgainst, MovementOf
<1>6. ASSUME p.outcome = "move"
      PROVE  /\ cmd[t].kind # "LOSS"
             /\ p.claim <=> cmd[t].kind \in ReversalKinds
             /\ Processed(r) /\ SameIdentity(cmd[t], cmd[r])
             /\ p.claim => d.ref # NoTxn /\ ~cl /\ cmd[r].amount = cmd[t].amount
             /\ d.ref = r /\ Turns(t, r, p.dir)
  <2>1. cmd[t].kind \in {"WIN"} \cup ReversalKinds
    BY CommandFacts DEF Kinds, ReversalKinds
  <2>2. Failed.outcome # "move" /\ Pending.outcome # "move"
    BY DEF Failed, Pending, Plan
  <2>3. p = ClassifyAgainst(cmd[t], cmd[r], st, cl) /\ p \notin {Pending, Failed}
    BY <1>6, <2>2
  <2>4. /\ st \notin PendingStates \cup {"REJECTED", "FAILED"}
        /\ SameIdentity(cmd[t], cmd[r])
        /\ p.claim <=> cmd[t].kind \in ReversalKinds
        /\ p.claim => ~cl /\ cmd[t].amount = cmd[r].amount
    BY <1>6, <2>1, <2>3, MovesAgainst
  <2>5. Processed(r)
    <3>1. state[r] \in States /\ (r = t \/ state[r] # "ABSENT")
      BY <1>2 DEF LedgerTypeOK, ReferencesOf, Committed
    <3> QED
      BY <2>4, <3>1
      DEF StateSeenBy, Undecided, Processed, States, Terminal, PendingStates
  <2>6. d.ref = r /\ r # NoTxn
    BY <1>2, <2>3, LedgerAssumptions
  <2>7. Turns(t, r, p.dir)
    BY <1>6, <2>1, <2>3, MovesAgainst DEF Turns, ReversalKinds
  <2> QED BY <2>1, <2>4, <2>5, <2>6, <2>7 DEF ReversalKinds
<1>7. ASSUME p.outcome = "reject", NEW b PROVE Grounds(t, d.plan.code, d.ref, b)
  <2>1. /\ Failed.outcome # "reject" /\ Pending.outcome # "reject"
        /\ \A cd : Rejected(cd).code = cd
    BY DEF Failed, Pending, Rejected, Plan
  <2>2. p = ClassifyAgainst(cmd[t], cmd[r], st, cl) /\ p \notin {Pending, Failed}
    BY <1>7, <2>1
  <2>3. d.ref = r /\ r # NoTxn
    BY <1>2, <2>2, LedgerAssumptions
  <2>4. \/ /\ ReferenceFault(cmd[t], cmd[r]) # "none"
           /\ p = Rejected(ReferenceFault(cmd[t], cmd[r]))
        \/ /\ st \in {"REJECTED", "FAILED"}
           /\ p = Rejected("REFERENCE_NOT_PROCESSED")
        \/ cl /\ p = Rejected("ALREADY_REVERSED")
    <3>1. MovementOf(cmd[t], cmd[r]).outcome # "reject"
      BY DEF MovementOf, Moved, Compensated, Plan
    <3> QED BY <1>7, <2>2, <3>1 DEF ClassifyAgainst
  <2>5. /\ ReferenceFault(cmd[t], cmd[r]) \in FaultCodes \cup {"none"}
        /\ FaultCodes \cap FundsCodes = {}
    BY DEF ReferenceFault, FaultCodes, FundsCodes
  <2>6. CASE /\ ReferenceFault(cmd[t], cmd[r]) # "none"
             /\ p = Rejected(ReferenceFault(cmd[t], cmd[r]))
    <3>1. p.code = ReferenceFault(cmd[t], cmd[r]) /\ p.code \in FaultCodes
      BY <2>1, <2>5, <2>6
    <3>2. p.code \notin FundsCodes \cup
            {"REFERENCE_NOT_FOUND", "REFERENCE_NOT_PROCESSED", "ALREADY_REVERSED"}
      BY <3>1 DEF FaultCodes, FundsCodes
    <3> QED BY <2>3, <3>1, <3>2 DEF Grounds
  <2>7. CASE st \in {"REJECTED", "FAILED"} /\ p = Rejected("REFERENCE_NOT_PROCESSED")
    <3>1. state[r] \in {"REJECTED", "FAILED"} /\ p.code = "REFERENCE_NOT_PROCESSED"
      BY <2>1, <2>7 DEF StateSeenBy
    <3> QED BY <2>3, <3>1 DEF Grounds, FundsCodes, FaultCodes
  <2>8. CASE cl /\ p = Rejected("ALREADY_REVERSED")
    <3>1. p.code = "ALREADY_REVERSED"
      BY <2>1, <2>8
    <3> QED BY <2>3, <2>8, <3>1 DEF Grounds, FundsCodes, FaultCodes
  <2> QED BY <2>4, <2>6, <2>7, <2>8
<1>8. BorneOut(t, d)
  BY <1>2, <1>3, <1>4, <1>5, <1>6, <1>7 DEF BorneOut
<1> QED BY <1>1, <1>8

\* Whatever the service may decide is borne out by the tables.
LEMMA PermittedBorneOut ==
  ASSUME LedgerTypeOK, NEW t \in Requests, Undecided(t), NEW d \in Permitted(t)
  PROVE  BorneOut(t, d)
<1>1. ASSUME NEW bad PROVE BorneOut(t, Decide(t, bad))
  BY DecideCases, DeferBorneOut, AloneBorneOut, AgainstBorneOut
<1> QED BY <1>1, DeferBorneOut DEF Permitted

-------------------------------------------------------------------------------
(* What a step writes                                                      *)

\* The movement d of t fits into a wallet with balance b.
Movable(t, d, b) ==
  /\ BorneOut(t, d)
  /\ d.plan.outcome = "move"
  /\ d.plan.dir \in Directions
  /\ After(b, d.plan.dir, cmd[t].amount) \in 0..MaxMoney

\* The five ways to write an outcome.
Outcome(t, b, v) ==
  \/ state[t] = "ABSENT" /\ NeedsReference(cmd[t]) /\ Wait(t)
  \/ \E cd \in FailureCodes, r \in Requests \cup {NoTxn} :
       Grounds(t, cd, r, b) /\ Reject(t, cd, r, b)
  \/ cmd[t].kind = "LOSS" /\ Settle(t, NoTxn, b)
  \/ NeedsReference(cmd[t]) /\ MarkFailed(t, b)
  \/ \E d \in Decisions : Movable(t, d, b) /\ Move(t, d.plan, d.ref, b, v)

LEMMA ExecuteOutcome ==
  ASSUME LedgerTypeOK, NEW t \in Requests, NEW d, BorneOut(t, d),
         NEW b \in 0..MaxMoney, NEW v \in Nat, Execute(t, d, b, v),
         d = Defer => state[t] = "ABSENT"
  PROVE  Outcome(t, b, v)
<1>1. Shaped(d.plan) /\ d \in Decisions /\ d.ref \in Requests \cup {NoTxn}
  BY PlanShape DEF BorneOut, Decisions
<1>2. CASE d.plan.outcome = "pending" /\ Wait(t)
  BY <1>1, <1>2 DEF Outcome, BorneOut, Shaped
<1>3. CASE d.plan.outcome = "reject" /\ Reject(t, d.plan.code, d.ref, b)
  <2>1. Grounds(t, d.plan.code, d.ref, b)
    BY <1>3 DEF BorneOut
  <2> QED BY <1>1, <1>3, <2>1 DEF Outcome, Shaped
<1>4. CASE d.plan.outcome = "settle" /\ Settle(t, d.ref, b)
  BY <1>4 DEF Outcome, BorneOut
<1>5. CASE d.plan.outcome = "fail" /\ MarkFailed(t, b)
  BY <1>5 DEF Outcome, BorneOut
<1>6. CASE Insufficient(t, d.plan, b) /\ Reject(t, InsufficientCode(t), d.ref, b)
  <2>1. InsufficientCode(t) \in FailureCodes /\ InsufficientCode(t) \in FundsCodes
    BY DEF InsufficientCode, FailureCodes, FundsCodes
  <2>2. b < cmd[t].amount
    BY <1>6 DEF Insufficient
  <2>3. Grounds(t, InsufficientCode(t), d.ref, b)
    BY <2>1, <2>2 DEF Grounds, FundsCodes, FaultCodes
  <2> QED BY <1>1, <1>6, <2>1, <2>3 DEF Outcome
<1>7. CASE /\ d.plan.outcome = "move"
           /\ ~Insufficient(t, d.plan, b)
           /\ ~Overflows(t, d.plan, b)
           /\ Move(t, d.plan, d.ref, b, v)
  <2>1. d.plan.dir \in Directions
    BY <1>1, <1>7 DEF Shaped
  <2>2. cmd[t].amount \in 0..MaxMoney /\ MaxMoney \in Nat
    BY CommandFacts, LedgerAssumptions
  <2>3. After(b, d.plan.dir, cmd[t].amount) \in 0..MaxMoney
    BY <1>7, <2>1, <2>2 DEF After, Insufficient, Overflows, Directions
  <2>4. Movable(t, d, b)
    BY <1>7, <2>1, <2>3 DEF Movable
  <2> QED BY <1>1, <1>7, <2>4 DEF Outcome
<1> QED BY <1>2, <1>3, <1>4, <1>5, <1>6, <1>7 DEF Execute

\* Both ways to decide a transaction write one of the five outcomes to an
\* undecided transaction.
Writes(t) ==
  /\ Undecided(t)
  /\ Outcome(t, balance[cmd[t].wallet], version[cmd[t].wallet])
  /\ UNCHANGED <<inputVars, late, corrupt>>

LEMMA AcceptWrites ==
  ASSUME LedgerTypeOK, NEW t \in Requests, Accept(t)
  PROVE  Writes(t)
<1> DEFINE w == cmd[t].wallet
<1>1. balance[w] \in 0..MaxMoney /\ version[w] \in Nat
  BY CommandFacts DEF LedgerTypeOK
<1>2. Undecided(t)
  BY DEF Accept, Undecided
<1>3. PICK d \in Permitted(t) : Execute(t, d, balance[w], version[w])
  BY DEF Accept
<1>4. Outcome(t, balance[w], version[w])
  BY <1>1, <1>2, <1>3, PermittedBorneOut, ExecuteOutcome DEF Accept
<1> QED BY <1>2, <1>4 DEF Accept, Writes

LEMMA ResolveWrites ==
  ASSUME LedgerTypeOK, NEW t \in Requests, ResolveWaiting(t)
  PROVE  Writes(t)
<1> DEFINE w == cmd[t].wallet
<1>1. balance[w] \in 0..MaxMoney /\ version[w] \in Nat
  BY CommandFacts DEF LedgerTypeOK
<1>2. Undecided(t)
  BY DEF ResolveWaiting, Undecided
<1>3. t \in late /\ Reject(t, "REFERENCE_NOT_FOUND", NoTxn, balance[w])
        => Outcome(t, balance[w], version[w])
  BY DEF Outcome, FailureCodes, Grounds, FundsCodes, FaultCodes
<1>4. ASSUME NEW d \in Permitted(t), d # Defer,
             Execute(t, d, balance[w], version[w])
      PROVE  Outcome(t, balance[w], version[w])
  BY <1>1, <1>2, <1>4, PermittedBorneOut, ExecuteOutcome
<1>5. Outcome(t, balance[w], version[w])
  BY <1>3, <1>4 DEF ResolveWaiting
<1> QED BY <1>2, <1>5 DEF ResolveWaiting, Writes

-------------------------------------------------------------------------------
(* Types                                                                   *)

LEMMA WritesType ==
  ASSUME LedgerTypeOK, NEW t \in Requests, Writes(t)
  PROVE  WrittenOK'
<1> DEFINE w == cmd[t].wallet
           b == balance[w]
           v == version[w]
<1> USE DEF LedgerTypeOK, WrittenOK
<1>1. w \in Wallets /\ b \in 0..MaxMoney /\ v \in Nat /\ cmd[t].amount \in Nat
  BY CommandFacts, LedgerAssumptions
<1>2. CASE Wait(t)
  BY <1>2 DEF Wait, Persist, Emit, States, EventTypes, walletVars
<1>3. ASSUME NEW cd \in FailureCodes, NEW r \in Requests \cup {NoTxn},
             Reject(t, cd, r, b)
      PROVE  WrittenOK'
  BY <1>1, <1>3 DEF Reject, Persist, Emit, States, Terminal, EventTypes, walletVars
<1>4. CASE Settle(t, NoTxn, b)
  BY <1>1, <1>4 DEF Settle, Persist, Emit, States, Terminal, EventTypes, walletVars
<1>5. CASE MarkFailed(t, b)
  BY <1>1, <1>5 DEF MarkFailed, Persist, States, Terminal, walletVars, FailureCodes
<1>6. ASSUME NEW d \in Decisions, Movable(t, d, b), Move(t, d.plan, d.ref, b, v)
      PROVE  WrittenOK'
  <2> DEFINE after == After(b, d.plan.dir, cmd[t].amount)
             entry == [txn |-> t, dir |-> d.plan.dir,
                       amount |-> cmd[t].amount, before |-> b, after |-> after]
  <2>1. after \in 0..MaxMoney /\ MaxMoney \in Nat /\ d.plan.dir \in Directions
    BY <1>6, LedgerAssumptions DEF Movable
  <2>2. d.ref \in Requests \cup {NoTxn} /\ (d.plan.claim => d.ref \in Requests)
    BY <1>6 DEF Movable, BorneOut, Decisions
  <2>3. entry \in Entries
    BY <1>1, <2>1 DEF Entries
  <2>4. ledger' \in [Wallets -> Seq(Entries)]
    BY <1>1, <1>6, <2>3 DEF Move
  <2>5. claims' \in SUBSET [reference : Requests, reversal : Requests]
    BY <1>6, <2>2 DEF Move
  <2>6. events' \in [Requests \cup Wallets -> Seq(EventTypes)]
    BY <1>6 DEF Move, Emit, EventTypes
  <2>7. /\ balance' \in [Wallets -> 0..MaxMoney]
        /\ version' \in [Wallets -> Nat]
    <3>1. /\ balance' = [balance EXCEPT ![w] = after]
          /\ version' = [version EXCEPT ![w] = v + 1]
      BY <1>6 DEF Move
    <3>2. /\ balance \in [Wallets -> 0..MaxMoney] /\ version \in [Wallets -> Nat]
          /\ v + 1 \in Nat
      BY <1>1
    <3> HIDE DEF after, w, v, b, LedgerTypeOK, WrittenOK
    <3> QED BY <2>1, <3>1, <3>2
  <2>8. /\ state' \in [Requests -> States]
        /\ code' \in [Requests -> FailureCodes \cup {"none"}]
        /\ observed' \in [Requests -> (0..MaxMoney) \cup {NoBalance}]
        /\ refTxn' \in [Requests -> Requests \cup {NoTxn}]
    BY <1>6, <2>1, <2>2 DEF Move, Persist, States, Terminal
  <2> QED BY <2>4, <2>5, <2>6, <2>7, <2>8
<1> QED BY <1>2, <1>3, <1>4, <1>5, <1>6 DEF Writes, Outcome

LEMMA WritesOwner ==
  ASSUME NEW t, Writes(t)
  PROVE  owner' = owner
  BY DEF Writes, Outcome, Wait, Reject, Settle, MarkFailed, Move, walletVars

LEMMA DeliveryType ==
  ASSUME LedgerTypeOK, NEW q \in Requests, RecordDelivery(q)
  PROVE  inbox' \in [Messages -> Commands \cup {NoDelivery}]
  BY DEF LedgerTypeOK, RecordDelivery

LEMMA TypeInit == LedgerInit => LedgerTypeOK
<1> SUFFICES ASSUME LedgerInit PROVE LedgerTypeOK
  OBVIOUS
<1>1. MaxMoney \in Nat
  BY LedgerAssumptions
<1> QED BY <1>1 DEF LedgerInit, LedgerTypeOK, States, NoBalance

LEMMA TypeStep == LedgerTypeOK /\ [LedgerNext]_ledgerVars => LedgerTypeOK'
<1> SUFFICES ASSUME LedgerTypeOK, [LedgerNext]_ledgerVars PROVE LedgerTypeOK'
  OBVIOUS
<1>1. ASSUME NEW w \in Wallets, NEW o \in Owners, NEW b \in OpeningBalances,
             OpenWallet(w, o, b)
      PROVE  LedgerTypeOK'
  <2>1. b \in 0..MaxMoney /\ MaxMoney \in Nat
    BY LedgerAssumptions
  <2>2. [txn |-> w, dir |-> "CREDIT", amount |-> b, before |-> 0, after |-> b]
          \in Entries
    BY <2>1 DEF Entries, Directions
  <2>3. ledger' \in [Wallets -> Seq(Entries)]
    <3> DEFINE e == [txn |-> w, dir |-> "CREDIT", amount |-> b,
                     before |-> 0, after |-> b]
    <3>1. <<e>> \in Seq(Entries)
      BY <2>2
    <3>2. ledger' = [ledger EXCEPT ![w] = <<e>>] \/ ledger' = ledger
      BY <1>1 DEF OpenWallet
    <3> HIDE DEF e
    <3> QED BY <3>1, <3>2 DEF LedgerTypeOK
  <2>4. events' \in [Requests \cup Wallets -> Seq(EventTypes)]
    <3>1. w \in Requests \cup Wallets
      OBVIOUS
    <3>2. <<"Processed", "BalanceChanged">> \in Seq(EventTypes)
      BY DEF EventTypes
    <3>3. events[w] \o <<"Processed", "BalanceChanged">> \in Seq(EventTypes)
      BY <3>1, <3>2 DEF LedgerTypeOK
    <3> QED BY <1>1, <3>3 DEF OpenWallet, LedgerTypeOK, Emit
  <2>5. /\ owner' \in [Wallets -> Owners \cup {NoOwner}]
        /\ balance' \in [Wallets -> 0..MaxMoney]
        /\ version' \in [Wallets -> Nat]
    BY <1>1, <2>1 DEF OpenWallet, LedgerTypeOK
  <2> QED
    BY <1>1, <2>3, <2>4, <2>5 DEF OpenWallet, LedgerTypeOK, inputVars, txnVars
<1>2. ASSUME NEW t \in Requests, Accept(t) PROVE LedgerTypeOK'
  <2>1. Writes(t)
    BY <1>2, AcceptWrites
  <2>2. inbox' \in [Messages -> Commands \cup {NoDelivery}]
    BY <1>2, DeliveryType DEF Accept
  <2> QED
    BY <2>1, <2>2, WritesType, WritesOwner
    DEF LedgerTypeOK, WrittenOK, Writes, inputVars
<1>3. ASSUME NEW t \in Requests, ResolveWaiting(t) PROVE LedgerTypeOK'
  <2>1. Writes(t) /\ inbox' = inbox
    BY <1>3, ResolveWrites DEF ResolveWaiting
  <2> QED
    BY <2>1, WritesType, WritesOwner
    DEF LedgerTypeOK, WrittenOK, Writes, inputVars
<1>4. ASSUME NEW t \in Requests, AcceptReplay(t) PROVE LedgerTypeOK'
  <2>1. inbox' \in [Messages -> Commands \cup {NoDelivery}]
    BY <1>4, DeliveryType DEF AcceptReplay
  <2> QED
    BY <1>4, <2>1 DEF LedgerTypeOK, AcceptReplay, inputVars, walletVars, txnVars
<1>5. ASSUME NEW t \in Requests, PassDeadline(t) \/ Corrupt(t)
      PROVE  LedgerTypeOK'
  BY <1>5
  DEF LedgerTypeOK, PassDeadline, Corrupt, Committed, inputVars, walletVars, txnVars
<1>6. CASE UNCHANGED ledgerVars
  BY <1>6 DEF LedgerTypeOK, ledgerVars, inputVars, walletVars, txnVars
<1> QED BY <1>1, <1>2, <1>3, <1>4, <1>5, <1>6 DEF LedgerNext

\* The tables keep their types; in particular no balance ever leaves
\* 0..MaxMoney, neither by a debit nor by an overflowing credit (wallet.go:89-136).
THEOREM LedgerTypes == LedgerSpec => []LedgerTypeOK
  BY TypeInit, TypeStep, PTL DEF LedgerSpec

-------------------------------------------------------------------------------
(* Steps by what they touch                                                *)

Untouched == UNCHANGED <<cmd, walletVars, txnVars, events>>

LEMMA StepCases ==
  ASSUME LedgerTypeOK, [LedgerNext]_ledgerVars
  PROVE  \/ \E w \in Wallets, o \in Owners, b \in OpeningBalances :
              OpenWallet(w, o, b)
         \/ \E t \in Requests : Writes(t) /\ (Accept(t) \/ ResolveWaiting(t))
         \/ Untouched
  BY AcceptWrites, ResolveWrites
  DEF LedgerNext, AcceptReplay, PassDeadline, Corrupt, ledgerVars, inputVars,
      Untouched

\* Writing the outcome of t writes t's row and no other.
LEMMA WritesRow ==
  ASSUME LedgerTypeOK, NEW t \in Requests, Writes(t)
  PROVE  /\ cmd' = cmd
         /\ state' \in [Requests -> States]
         /\ state'[t] \in {"PENDING_REFERENCE"} \cup Terminal
         /\ state[t] = "PENDING_REFERENCE" => state'[t] \in Terminal
         /\ \A u \in Requests \ {t} :
              /\ state'[u] = state[u]
              /\ code'[u] = code[u]
              /\ observed'[u] = observed[u]
              /\ refTxn'[u] = refTxn[u]
              /\ events'[u] = events[u]
         /\ Committed' = Committed \cup {t}
<1> DEFINE b == balance[cmd[t].wallet]
           v == version[cmd[t].wallet]
           RowWritten == \E st \in {"PENDING_REFERENCE"} \cup Terminal : \E cd, r, ob :
                            /\ Persist(t, st, cd, r, ob)
                            /\ st = "PENDING_REFERENCE" => state[t] = "ABSENT"
<1>1. RowWritten
  <2>1. CASE state[t] = "ABSENT" /\ Wait(t)
    BY <2>1 DEF Wait
  <2>2. ASSUME NEW cd, NEW r, Reject(t, cd, r, b) PROVE RowWritten
    BY <2>2 DEF Reject, Terminal
  <2>3. CASE Settle(t, NoTxn, b)
    BY <2>3 DEF Settle, Terminal
  <2>4. CASE MarkFailed(t, b)
    BY <2>4 DEF MarkFailed, Terminal
  <2>5. ASSUME NEW d, Move(t, d.plan, d.ref, b, v) PROVE RowWritten
    BY <2>5 DEF Move, Terminal
  <2> QED BY <2>1, <2>2, <2>3, <2>4, <2>5 DEF Writes, Outcome
<1>2. \A u \in Requests \ {t} : events'[u] = events[u]
  BY DEF Writes, Outcome, Wait, Reject, Settle, MarkFailed, Move, Emit,
         LedgerTypeOK
<1>0. PICK st \in {"PENDING_REFERENCE"} \cup Terminal : \E cd, r, ob :
        /\ Persist(t, st, cd, r, ob)
        /\ st = "PENDING_REFERENCE" => state[t] = "ABSENT"
  BY <1>1
<1>3. PICK cd, r, ob :
        /\ Persist(t, st, cd, r, ob)
        /\ st = "PENDING_REFERENCE" => state[t] = "ABSENT"
  BY <1>0
<1>4. cmd' = cmd
  BY DEF Writes, inputVars
<1>5. /\ state' \in [Requests -> States]
      /\ state'[t] = st
      /\ \A u \in Requests \ {t} :
           /\ state'[u] = state[u]
           /\ code'[u] = code[u]
           /\ observed'[u] = observed[u]
           /\ refTxn'[u] = refTxn[u]
  BY <1>3 DEF Persist, LedgerTypeOK, States, Terminal
<1>6. Committed' = Committed \cup {t}
  BY <1>5 DEF Committed, Terminal
<1> QED BY <1>2, <1>3, <1>4, <1>5, <1>6

LEMMA OpenFrame ==
  ASSUME NEW w \in Wallets, NEW o, NEW b, OpenWallet(w, o, b), LedgerTypeOK
  PROVE  /\ UNCHANGED <<cmd, txnVars, claims>>
         /\ \A u \in Requests : events'[u] = events[u]
         /\ Committed' = Committed
  BY LedgerAssumptions
  DEF OpenWallet, inputVars, txnVars, Emit, LedgerTypeOK, Committed

-------------------------------------------------------------------------------
(* Identity                                                                *)

LEMMA IdentityStep ==
  ASSUME LedgerTypeOK, IdentityUnique, [LedgerNext]_ledgerVars
  PROVE  IdentityUnique'
<1> SUFFICES ASSUME NEW t \in Committed', NEW u \in Committed', t # u
             PROVE  ~Collides(t, u)'
  BY DEF IdentityUnique
<1>1. CASE Committed' = Committed /\ cmd' = cmd
  BY <1>1 DEF IdentityUnique, Collides, SameKey, SameExternal
<1>2. ASSUME NEW x \in Requests, Writes(x), ResolveWaiting(x)
      PROVE  Committed' = Committed /\ cmd' = cmd
  BY <1>2, WritesRow DEF ResolveWaiting, Committed
<1>3. ASSUME NEW x \in Requests, Writes(x), Accept(x)
      PROVE  ~Collides(t, u)'
  <2>1. Committed' = Committed \cup {x} /\ cmd' = cmd
    BY <1>3, WritesRow
  <2>2. \A y \in Committed : ~Collides(x, y) /\ ~Collides(y, x)
    BY <1>3 DEF Accept, Collides, SameKey, SameExternal
  <2>3. ~Collides(t, u)
    BY <2>1, <2>2 DEF IdentityUnique
  <2> QED BY <2>1, <2>3 DEF Collides, SameKey, SameExternal
<1>4. CASE Untouched
  BY <1>1, <1>4 DEF Untouched, txnVars, Committed
<1>5. ASSUME NEW w \in Wallets, NEW o \in Owners, NEW b \in OpeningBalances,
             OpenWallet(w, o, b)
      PROVE  Committed' = Committed /\ cmd' = cmd
  BY <1>5, OpenFrame
<1> QED BY <1>1, <1>2, <1>3, <1>4, <1>5, StepCases

\* No two transactions ever share an idempotency key or an external identity
\* of a provider (service.go:205-236, the unique indexes).
THEOREM IdentityHolds == LedgerSpec => []IdentityUnique
<1>1. LedgerInit => IdentityUnique
  BY DEF LedgerInit, IdentityUnique, Committed
<1>2. LedgerTypeOK /\ IdentityUnique /\ [LedgerNext]_ledgerVars
        => IdentityUnique'
  BY IdentityStep
<1> QED BY <1>1, <1>2, LedgerTypes, PTL DEF LedgerSpec

-------------------------------------------------------------------------------
(* Terminal rows                                                           *)

Frozen ==
  \A t \in Requests :
    /\ state[t] \in Terminal =>
         /\ state'[t] = state[t]
         /\ code'[t] = code[t]
         /\ observed'[t] = observed[t]
         /\ refTxn'[t] = refTxn[t]
         /\ events'[t] = events[t]
    /\ state[t] = "PENDING_REFERENCE" =>
         state'[t] \in Terminal \cup {"PENDING_REFERENCE"}

LEMMA FrozenStep ==
  ASSUME LedgerTypeOK, [LedgerNext]_ledgerVars
  PROVE  Frozen
<1>1. ASSUME NEW x \in Requests, Writes(x) PROVE Frozen
  BY <1>1, WritesRow DEF Frozen, Writes, Undecided, Terminal
<1>2. ASSUME NEW w \in Wallets, NEW o \in Owners, NEW b \in OpeningBalances,
             OpenWallet(w, o, b)
      PROVE  Frozen
  BY <1>2, OpenFrame DEF Frozen, txnVars
<1>3. CASE Untouched
  BY <1>3 DEF Frozen, Untouched, txnVars
<1> QED BY <1>1, <1>2, <1>3, StepCases

\* A terminal transaction is immutable and tells nothing more; a waiting one
\* only waits on or ends (wager.go:453-470).
THEOREM TerminalHolds == LedgerSpec => TerminalFrozen
<1>1. LedgerTypeOK /\ [LedgerNext]_ledgerVars => [Frozen]_ledgerVars
  BY FrozenStep
<1> QED BY <1>1, LedgerTypes, PTL DEF LedgerSpec, TerminalFrozen, Frozen

-------------------------------------------------------------------------------
(***************************************************************************)
(* What the tables of WagerLedger say about each other: the inbox and the  *)
(* outbox, the ledger and the balance, the ledger and the transactions,    *)
(* compensations and claims.                                               *)
(***************************************************************************)

(* Inbox                                                                   *)

Backed(m) ==
  \E t \in Committed :
    /\ cmd[t].provider = inbox[m].provider
    /\ cmd[t].key = inbox[m].key
    /\ Digest(cmd[t]) = Digest(inbox[m])

LEMMA CommittedGrows ==
  ASSUME LedgerTypeOK, [LedgerNext]_ledgerVars
  PROVE  Committed \subseteq Committed' /\ cmd' = cmd
<1>1. ASSUME NEW x \in Requests, Writes(x)
      PROVE  Committed \subseteq Committed' /\ cmd' = cmd
  BY <1>1, WritesRow
<1>2. ASSUME NEW w \in Wallets, NEW o \in Owners, NEW b \in OpeningBalances,
             OpenWallet(w, o, b)
      PROVE  Committed \subseteq Committed' /\ cmd' = cmd
  BY <1>2, OpenFrame
<1>3. CASE Untouched
  BY <1>3 DEF Untouched, txnVars, Committed
<1> QED BY <1>1, <1>2, <1>3, StepCases

LEMMA InboxStep ==
  ASSUME LedgerTypeOK, InboxBacked, [LedgerNext]_ledgerVars
  PROVE  InboxBacked'
<1> SUFFICES ASSUME NEW m \in Messages, (inbox[m] # NoDelivery)'
             PROVE  Backed(m)'
  BY DEF InboxBacked, Backed
<1>1. Committed \subseteq Committed' /\ cmd' = cmd
  BY CommittedGrows
<1>2. CASE inbox'[m] = inbox[m]
  <2>1. Backed(m)
    BY <1>2 DEF InboxBacked, Backed
  <2> QED BY <1>1, <1>2, <2>1 DEF Backed, Digest
<1>3. ASSUME NEW q \in Requests, Accept(q), RecordDelivery(q)
      PROVE  Backed(m)'
  <2>1. q \in Committed'
    BY <1>3, AcceptWrites, WritesRow
  <2>2. inbox'[m] = inbox[m] \/ inbox'[m] = cmd[q]
    BY <1>3 DEF RecordDelivery, LedgerTypeOK
  <2> QED BY <1>1, <1>2, <2>1, <2>2 DEF Backed, Digest
<1>4. ASSUME NEW q \in Requests, AcceptReplay(q), RecordDelivery(q)
      PROVE  Backed(m)'
  <2>1. PICK u \in Committed : SameKey(q, u) /\ Digest(cmd[q]) = Digest(cmd[u])
    BY <1>4 DEF AcceptReplay
  <2>2. inbox'[m] = inbox[m] \/ inbox'[m] = cmd[q]
    BY <1>4 DEF RecordDelivery, LedgerTypeOK
  <2> QED BY <1>1, <1>2, <2>1, <2>2 DEF Backed, Digest, SameKey
<1> QED
  BY <1>2, <1>3, <1>4
  DEF LedgerNext, Accept, AcceptReplay, OpenWallet, ResolveWaiting,
      PassDeadline, Corrupt, ledgerVars

\* A message identity is remembered only together with the durable result of
\* the command it carried (service.go:44-96).
THEOREM InboxHolds == LedgerSpec => []InboxBacked
<1>1. LedgerInit => InboxBacked
  BY DEF LedgerInit, InboxBacked
<1>2. LedgerTypeOK /\ InboxBacked /\ [LedgerNext]_ledgerVars => InboxBacked'
  BY InboxStep
<1> QED BY <1>1, <1>2, LedgerTypes, PTL DEF LedgerSpec

-------------------------------------------------------------------------------
(* Outbox                                                                  *)

TellsOutcome(t) ==
  \/ state[t] # "PENDING_REFERENCE" /\ events[t] = OutcomeEvents(t)
  \/ /\ state[t] # "ABSENT" /\ NeedsReference(cmd[t])
     /\ events[t] = <<"PendingReference">> \o OutcomeEvents(t)

\* What an undecided transaction has told is its wait or nothing, and appending
\* to it tells exactly that and what is appended.
LEMMA UndecidedTold ==
  ASSUME LedgerTypeOK, NEW t \in Requests, Undecided(t), TellsOutcome(t)
  PROVE  \/ state[t] = "ABSENT" /\ events[t] = <<>>
         \/ /\ state[t] = "PENDING_REFERENCE"
            /\ NeedsReference(cmd[t])
            /\ events[t] = <<"PendingReference">>
<1>1. OutcomeEvents(t) = <<>>
  BY DEF OutcomeEvents, Undecided
<1>2. <<"PendingReference">> \o <<>> = <<"PendingReference">>
  OBVIOUS
<1> QED BY <1>1, <1>2 DEF TellsOutcome, Undecided

LEMMA ToldNow ==
  ASSUME LedgerTypeOK, NEW t \in Requests, Undecided(t), TellsOutcome(t),
         cmd' = cmd, state'[t] \in Terminal,
         events'[t] = events[t] \o OutcomeEvents(t)'
  PROVE  TellsOutcome(t)'
<1> DEFINE o == OutcomeEvents(t)'
<1>1. o \in Seq(EventTypes)
  <2>1. o \in {<<"Processed">>, <<"Processed", "BalanceChanged">>,
               <<"Rejected">>, <<>>}
    BY DEF OutcomeEvents
  <2>2. /\ <<"Processed">> \in Seq(EventTypes)
        /\ <<"Processed", "BalanceChanged">> \in Seq(EventTypes)
        /\ <<"Rejected">> \in Seq(EventTypes)
        /\ <<>> \in Seq(EventTypes)
    BY DEF EventTypes
  <2> HIDE DEF o
  <2> QED BY <2>1, <2>2
<1>2. <<>> \o o = o
  BY <1>1
<1>3. state'[t] \notin {"PENDING_REFERENCE", "ABSENT"}
  BY DEF Terminal
<1>4. NeedsReference(cmd'[t]) <=> NeedsReference(cmd[t])
  BY DEF NeedsReference
<1> HIDE DEF o
<1>5. CASE events[t] = <<>>
  BY <1>2, <1>3, <1>5 DEF TellsOutcome, o
<1>6. CASE events[t] = <<"PendingReference">> /\ NeedsReference(cmd[t])
  BY <1>3, <1>4, <1>6 DEF TellsOutcome, o
<1> QED BY <1>5, <1>6, UndecidedTold

LEMMA WriterTells ==
  ASSUME LedgerTypeOK, NEW t \in Requests, Writes(t), TellsOutcome(t)
  PROVE  TellsOutcome(t)'
<1> DEFINE b == balance[cmd[t].wallet]
           v == version[cmd[t].wallet]
<1>1. Undecided(t) /\ cmd' = cmd
  BY WritesRow DEF Writes
<1>2. events \in [Requests \cup Wallets -> Seq(EventTypes)]
      /\ t \in Requests \cup Wallets
  BY DEF LedgerTypeOK
<1>3. state \in [Requests -> States]
  BY DEF LedgerTypeOK
<1>4. CASE state[t] = "ABSENT" /\ NeedsReference(cmd[t]) /\ Wait(t)
  <2>1. events[t] = <<>>
    BY <1>1, <1>4, UndecidedTold
  <2>2. <<>> \o <<"PendingReference">> = <<"PendingReference">>
        /\ <<"PendingReference">> \o <<>> = <<"PendingReference">>
    OBVIOUS
  <2>3. events'[t] = <<"PendingReference">> /\ state'[t] = "PENDING_REFERENCE"
    BY <1>2, <1>3, <1>4, <2>1, <2>2 DEF Wait, Persist, Emit
  <2>4. OutcomeEvents(t)' = <<>>
    BY <2>3 DEF OutcomeEvents
  <2> QED BY <1>1, <1>4, <2>2, <2>3, <2>4 DEF TellsOutcome, NeedsReference
<1>5. ASSUME NEW cd, NEW r, Reject(t, cd, r, b) PROVE TellsOutcome(t)'
  <2>1. state'[t] = "REJECTED" /\ events'[t] = events[t] \o <<"Rejected">>
    BY <1>2, <1>3, <1>5 DEF Reject, Persist, Emit
  <2> QED BY <1>1, <2>1, ToldNow DEF OutcomeEvents, Terminal
<1>6. CASE cmd[t].kind = "LOSS" /\ Settle(t, NoTxn, b)
  <2>1. state'[t] = "PROCESSED" /\ events'[t] = events[t] \o <<"Processed">>
    BY <1>2, <1>3, <1>6 DEF Settle, Persist, Emit
  <2> QED BY <1>1, <1>6, <2>1, ToldNow DEF OutcomeEvents, Terminal
<1>7. CASE MarkFailed(t, b)
  <2>1. state'[t] = "FAILED" /\ events'[t] = events[t]
    BY <1>3, <1>7 DEF MarkFailed, Persist
  <2>2. events[t] \o <<>> = events[t]
    BY <1>2
  <2> QED BY <1>1, <2>1, <2>2, ToldNow DEF OutcomeEvents, Terminal
<1>8. ASSUME NEW d, Movable(t, d, b), Move(t, d.plan, d.ref, b, v)
      PROVE  TellsOutcome(t)'
  <2>1. /\ state'[t] = "PROCESSED"
        /\ events'[t] = events[t] \o <<"Processed", "BalanceChanged">>
    BY <1>2, <1>3, <1>8 DEF Move, Persist, Emit
  <2>2. cmd[t].kind # "LOSS"
    BY <1>8 DEF Movable, BorneOut
  <2> QED BY <1>1, <2>1, <2>2, ToldNow DEF OutcomeEvents, Terminal
<1> QED BY <1>4, <1>5, <1>6, <1>7, <1>8 DEF Writes, Outcome

LEMMA EventsStep ==
  ASSUME LedgerTypeOK, EventsTellOutcome, [LedgerNext]_ledgerVars
  PROVE  EventsTellOutcome'
<1> SUFFICES ASSUME NEW t \in Requests PROVE TellsOutcome(t)'
  BY DEF EventsTellOutcome, TellsOutcome
<1>1. TellsOutcome(t)
  BY DEF EventsTellOutcome, TellsOutcome
<1>2. CASE state'[t] = state[t] /\ events'[t] = events[t] /\ cmd' = cmd
  BY <1>1, <1>2 DEF TellsOutcome, OutcomeEvents, NeedsReference
<1>3. ASSUME NEW x \in Requests, Writes(x) PROVE TellsOutcome(t)'
  <2>1. CASE x = t
    BY <1>1, <1>3, <2>1, WriterTells
  <2>2. CASE x # t
    BY <1>2, <1>3, <2>2, WritesRow
  <2> QED BY <2>1, <2>2
<1>4. ASSUME NEW w \in Wallets, NEW o \in Owners, NEW b \in OpeningBalances,
             OpenWallet(w, o, b)
      PROVE  TellsOutcome(t)'
  BY <1>2, <1>4, OpenFrame DEF txnVars
<1>5. CASE Untouched
  BY <1>2, <1>5 DEF Untouched, txnVars
<1> QED BY <1>3, <1>4, <1>5, StepCases

\* The outbox tells each outcome once, after the wait if there was one
\* (service.go:503-641).
THEOREM EventsHold == LedgerSpec => []EventsTellOutcome
<1>1. LedgerInit => EventsTellOutcome
  BY DEF LedgerInit, EventsTellOutcome, OutcomeEvents
<1>2. LedgerTypeOK /\ EventsTellOutcome /\ [LedgerNext]_ledgerVars
        => EventsTellOutcome'
  BY EventsStep
<1> QED BY <1>1, <1>2, LedgerTypes, PTL DEF LedgerSpec

-------------------------------------------------------------------------------
(* The ledger and the balance                                              *)

Before(L, i) == IF i = 1 THEN 0 ELSE L[i - 1].after

LinksUp(L) ==
  \A i \in 1..Len(L) :
    /\ L[i].before = Before(L, i)
    /\ L[i].after = After(L[i].before, L[i].dir, L[i].amount)
    /\ L[i].amount > 0

Opened(L, w) == L # <<>> /\ L[1].txn = w

WalletChained(w) ==
  /\ balance[w] = Before(ledger[w], Len(ledger[w]) + 1)
  /\ LinksUp(ledger[w])
  /\ owner[w] # NoOwner =>
       version[w] = Len(ledger[w]) + (IF Opened(ledger[w], w) THEN 0 ELSE 1)

\* Only an existing wallet has entries or transactions.
Grounded ==
  /\ \A w \in Wallets : owner[w] = NoOwner => ledger[w] = <<>>
  /\ \A t \in Committed : owner[cmd[t].wallet] # NoOwner

LEMMA ChainIsWalletChained ==
  /\ LedgerChain <=> \A w \in Wallets : WalletChained(w)
  /\ LedgerChain' <=> \A w \in Wallets : WalletChained(w)'
  BY DEF LedgerChain, WalletChained, LinksUp, Before, Opened

\* Appending the entry of a movement keeps a chain a chain.
LEMMA AppendLinksUp ==
  ASSUME NEW L \in Seq(Entries), NEW e \in Entries, LinksUp(L),
         e.before = Before(L, Len(L) + 1),
         e.after = After(e.before, e.dir, e.amount),
         e.amount > 0
  PROVE  /\ LinksUp(Append(L, e))
         /\ Len(Append(L, e)) = Len(L) + 1
         /\ Before(Append(L, e), Len(L) + 2) = e.after
         /\ \A w : e.txn # w => (Opened(Append(L, e), w) <=> Opened(L, w))
<1> DEFINE M == Append(L, e)
           n == Len(L)
<1>1. n \in Nat /\ Len(M) = n + 1 /\ M \in Seq(Entries) /\ M # <<>>
  OBVIOUS
<1>2. M[n + 1] = e /\ \A i \in 1..n : M[i] = L[i]
  OBVIOUS
<1> HIDE DEF M
<1>3. Before(M, n + 2) = e.after
  BY <1>1, <1>2 DEF Before
<1>4. ASSUME NEW i \in 1..n + 1 PROVE Before(M, i) = Before(L, i)
  BY <1>1, <1>2 DEF Before
<1>5. LinksUp(M)
  <2> SUFFICES ASSUME NEW i \in 1..n + 1
               PROVE  /\ M[i].before = Before(M, i)
                      /\ M[i].after = After(M[i].before, M[i].dir, M[i].amount)
                      /\ M[i].amount > 0
    BY <1>1 DEF LinksUp
  <2>1. CASE i = n + 1
    BY <1>1, <1>2, <1>4, <2>1
  <2>2. CASE i \in 1..n
    BY <1>2, <1>4, <2>2 DEF LinksUp
  <2> QED BY <1>1, <2>1, <2>2
<1>6. ASSUME NEW w, e.txn # w PROVE Opened(M, w) <=> Opened(L, w)
  <2>1. CASE n = 0
    <3>1. L = <<>>
      BY <2>1
    <3>2. M # <<>> /\ M[1] = e
      BY <1>1, <1>2, <2>1
    <3> QED BY <1>6, <3>1, <3>2 DEF Opened
  <2>2. CASE n > 0
    <3>1. L # <<>> /\ M # <<>> /\ M[1] = L[1]
      BY <1>1, <1>2, <2>2
    <3> QED BY <3>1 DEF Opened
  <2> QED BY <1>1, <2>1, <2>2
<1> QED BY <1>1, <1>3, <1>5, <1>6 DEF M

\* What a movement writes.
LEMMA MoveWrites ==
  ASSUME LedgerTypeOK, NEW t \in Requests, NEW d, NEW w,
         w = cmd[t].wallet, Movable(t, d, balance[w]),
         Move(t, d.plan, d.ref, balance[w], version[w])
  PROVE  \E e \in Entries :
           /\ e.txn = t /\ e.dir = d.plan.dir /\ e.amount = cmd[t].amount
           /\ e.before = balance[w]
           /\ e.after = After(balance[w], d.plan.dir, cmd[t].amount)
           /\ e.amount > 0
           /\ ledger' = [ledger EXCEPT ![w] = Append(ledger[w], e)]
           /\ balance' = [balance EXCEPT ![w] = e.after]
           /\ version' = [version EXCEPT ![w] = version[w] + 1]
           /\ observed' = [observed EXCEPT ![t] = e.after]
           /\ owner' = owner
<1> DEFINE b == balance[w]
           after == After(b, d.plan.dir, cmd[t].amount)
           e == [txn |-> t, dir |-> d.plan.dir, amount |-> cmd[t].amount,
                 before |-> b, after |-> after]
<1>1. w \in Wallets /\ cmd[t].amount \in 0..MaxMoney /\ MaxMoney \in Nat
  BY CommandFacts, LedgerAssumptions
<1>2. cmd[t].amount > 0
  BY <1>1, CommandFacts DEF Movable, BorneOut
<1>3. b \in Nat /\ after \in Nat /\ d.plan.dir \in Directions
  BY <1>1 DEF LedgerTypeOK, Movable
<1>4. e \in Entries
  BY <1>1, <1>3 DEF Entries
<1>5. /\ ledger' = [ledger EXCEPT ![w] = Append(ledger[w], e)]
      /\ balance' = [balance EXCEPT ![w] = after]
      /\ version' = [version EXCEPT ![w] = version[w] + 1]
      /\ observed' = [observed EXCEPT ![t] = after]
      /\ owner' = owner
  BY DEF Move, Persist
<1>6. e.after = after /\ e.before = b /\ e.amount = cmd[t].amount
      /\ e.txn = t /\ e.dir = d.plan.dir
  OBVIOUS
<1> HIDE DEF e, after, b
<1> QED BY <1>2, <1>4, <1>5, <1>6 DEF after, b

\* A write that moves nothing leaves the wallets alone.
LEMMA WritesMoney ==
  ASSUME LedgerTypeOK, NEW t \in Requests, Writes(t)
  PROVE  LET w == cmd[t].wallet IN
         \/ /\ UNCHANGED walletVars
            /\ state'[t] = "PROCESSED" => cmd[t].kind = "LOSS" /\ refTxn'[t] = NoTxn
         \/ \E d \in Decisions :
              /\ Movable(t, d, balance[w])
              /\ Move(t, d.plan, d.ref, balance[w], version[w])
<1> DEFINE b == balance[cmd[t].wallet]
           v == version[cmd[t].wallet]
           Still == /\ UNCHANGED walletVars
                    /\ state'[t] = "PROCESSED" =>
                         cmd[t].kind = "LOSS" /\ refTxn'[t] = NoTxn
<1>0. state \in [Requests -> States] /\ refTxn \in [Requests -> Requests \cup {NoTxn}]
  BY DEF LedgerTypeOK
<1>1. CASE Wait(t)
  BY <1>0, <1>1 DEF Wait, Persist
<1>2. ASSUME NEW cd, NEW r, Reject(t, cd, r, b) PROVE Still
  BY <1>0, <1>2 DEF Reject, Persist
<1>3. CASE cmd[t].kind = "LOSS" /\ Settle(t, NoTxn, b)
  BY <1>0, <1>3 DEF Settle, Persist
<1>4. CASE MarkFailed(t, b)
  BY <1>0, <1>4 DEF MarkFailed, Persist
<1> QED BY <1>1, <1>2, <1>3, <1>4 DEF Writes, Outcome

LEMMA ChainStep ==
  ASSUME LedgerTypeOK, LedgerChain, Grounded, [LedgerNext]_ledgerVars
  PROVE  LedgerChain' /\ Grounded'
<1> USE ChainIsWalletChained
<1>1. ASSUME UNCHANGED <<cmd, walletVars>>, Committed' = Committed
      PROVE  LedgerChain' /\ Grounded'
  BY <1>1 DEF WalletChained, Grounded, walletVars
<1>2. CASE Untouched
  BY <1>1, <1>2 DEF Untouched, txnVars, Committed
<1>3. ASSUME NEW x \in Wallets, NEW o \in Owners, NEW b \in OpeningBalances,
             OpenWallet(x, o, b)
      PROVE  LedgerChain' /\ Grounded'
  <2> DEFINE e == [txn |-> x, dir |-> "CREDIT", amount |-> b,
                   before |-> 0, after |-> b]
  <2>1. /\ owner' = [owner EXCEPT ![x] = o]
        /\ balance' = [balance EXCEPT ![x] = b]
        /\ version' = [version EXCEPT ![x] = 1]
        /\ owner[x] = NoOwner /\ o # NoOwner
        /\ b \in Nat
    BY <1>3, LedgerAssumptions DEF OpenWallet
  <2>2. ledger[x] = <<>>
    BY <2>1 DEF Grounded
  <2>3. \/ b > 0 /\ ledger' = [ledger EXCEPT ![x] = <<e>>]
        \/ b = 0 /\ ledger' = ledger
    BY <1>3, <2>1 DEF OpenWallet
  <2>4. /\ owner \in [Wallets -> Owners \cup {NoOwner}]
        /\ balance \in [Wallets -> 0..MaxMoney]
        /\ version \in [Wallets -> Nat]
        /\ ledger \in [Wallets -> Seq(Entries)]
    BY DEF LedgerTypeOK
  <2>5. /\ owner'[x] = o /\ balance'[x] = b /\ version'[x] = 1
        /\ \A w \in Wallets \ {x} :
             /\ owner'[w] = owner[w] /\ balance'[w] = balance[w]
             /\ version'[w] = version[w] /\ ledger'[w] = ledger[w]
    BY <2>1, <2>3, <2>4
  <2>6. ASSUME NEW w \in Wallets \ {x} PROVE WalletChained(w)'
    BY <2>5 DEF WalletChained
  <2>7. WalletChained(x)'
    <3>1. CASE b = 0
      <4>1. ledger'[x] = <<>>
        BY <2>2, <2>3, <3>1
      <4> QED
        BY <2>5, <3>1, <4>1 DEF WalletChained, LinksUp, Before, Opened
    <3>2. CASE b > 0
      <4>1. ledger'[x] = <<e>>
        BY <2>3, <2>4, <3>2
      <4>2. Len(<<e>>) = 1 /\ <<e>>[1] = e /\ <<e>> # <<>>
        OBVIOUS
      <4>3. LinksUp(<<e>>) /\ Before(<<e>>, 2) = b /\ Opened(<<e>>, x)
        BY <2>1, <3>2, <4>2 DEF LinksUp, Before, Opened, After
      <4> HIDE DEF e
      <4> QED BY <2>5, <4>1, <4>2, <4>3 DEF WalletChained
    <3> QED BY <2>1, <3>1, <3>2
  <2>8. Committed' = Committed /\ cmd' = cmd
    BY <1>3, OpenFrame
  <2>9. Grounded'
    BY <2>1, <2>5, <2>8 DEF Grounded, Committed, LedgerTypeOK
  <2> QED BY <2>6, <2>7, <2>9
<1>4. ASSUME NEW t \in Requests, Writes(t), Accept(t) \/ ResolveWaiting(t)
      PROVE  LedgerChain' /\ Grounded'
  <2>0. PICK w \in Wallets : w = cmd[t].wallet
    BY CommandFacts
  <2>1. owner[w] # NoOwner
    BY <1>4, <2>0 DEF Accept, ResolveWaiting, Grounded, Committed
  <2>2. cmd' = cmd /\ Committed' = Committed \cup {t} /\ owner' = owner
    BY <1>4, WritesRow, WritesOwner
  <2>3. CASE UNCHANGED walletVars
    BY <2>0, <2>1, <2>2, <2>3 DEF WalletChained, Grounded, walletVars
  <2>4. ASSUME NEW d \in Decisions, Movable(t, d, balance[w]),
               Move(t, d.plan, d.ref, balance[w], version[w])
        PROVE  LedgerChain' /\ Grounded'
    <3>1. PICK e \in Entries :
           /\ e.txn = t /\ e.dir = d.plan.dir /\ e.amount = cmd[t].amount
           /\ e.before = balance[w]
           /\ e.after = After(balance[w], d.plan.dir, cmd[t].amount)
           /\ e.amount > 0
           /\ ledger' = [ledger EXCEPT ![w] = Append(ledger[w], e)]
           /\ balance' = [balance EXCEPT ![w] = e.after]
           /\ version' = [version EXCEPT ![w] = version[w] + 1]
           /\ observed' = [observed EXCEPT ![t] = e.after]
           /\ owner' = owner
      BY <2>0, <2>4, MoveWrites
    <3>2. /\ ledger \in [Wallets -> Seq(Entries)]
          /\ balance \in [Wallets -> 0..MaxMoney]
          /\ version \in [Wallets -> Nat]
      BY DEF LedgerTypeOK
    <3>3. WalletChained(w) /\ e.txn # w
      BY <2>1, <3>1, LedgerAssumptions
    <3>4. /\ LinksUp(Append(ledger[w], e))
          /\ Len(Append(ledger[w], e)) = Len(ledger[w]) + 1
          /\ Before(Append(ledger[w], e), Len(ledger[w]) + 2) = e.after
          /\ Opened(Append(ledger[w], e), w) <=> Opened(ledger[w], w)
      BY <2>1, <3>1, <3>2, <3>3, AppendLinksUp DEF WalletChained
    <3>5. /\ ledger'[w] = Append(ledger[w], e)
          /\ balance'[w] = e.after
          /\ version'[w] = version[w] + 1
          /\ \A x \in Wallets \ {w} :
               /\ ledger'[x] = ledger[x]
               /\ balance'[x] = balance[x]
               /\ version'[x] = version[x]
      BY <2>1, <3>1, <3>2
    <3>6. Len(ledger[w]) \in Nat /\ version[w] \in Nat
      BY <2>1, <3>2
    <3>7. WalletChained(w)'
      <4> DEFINE M == Append(ledger[w], e)
      <4>1. Len(M) + 1 = Len(ledger[w]) + 2
        BY <3>4, <3>6
      <4>2. balance'[w] = Before(ledger'[w], Len(ledger'[w]) + 1)
        BY <3>4, <3>5, <4>1
      <4>3. version'[w] =
              Len(ledger'[w]) + (IF Opened(ledger'[w], w) THEN 0 ELSE 1)
        <5>1. version[w] =
                Len(ledger[w]) + (IF Opened(ledger[w], w) THEN 0 ELSE 1)
          BY <2>1, <3>3 DEF WalletChained
        <5>2. CASE Opened(ledger[w], w)
          BY <3>4, <3>5, <3>6, <5>1, <5>2
        <5>3. CASE ~Opened(ledger[w], w)
          BY <3>4, <3>5, <3>6, <5>1, <5>3
        <5> QED BY <5>2, <5>3
      <4>4. LinksUp(ledger'[w])
        BY <3>4, <3>5
      <4> QED BY <2>2, <4>2, <4>3, <4>4 DEF WalletChained
    <3>8. ASSUME NEW x \in Wallets, x # w PROVE WalletChained(x)'
      BY <2>2, <3>5, <3>8 DEF WalletChained
    <3>9. Grounded'
      BY <2>0, <2>1, <2>2, <3>5 DEF Grounded
    <3> QED BY <3>7, <3>8, <3>9
  <2> QED BY <1>4, <2>0, <2>3, <2>4, WritesMoney
<1> QED BY <1>2, <1>3, <1>4, StepCases

LEMMA ChainInit == LedgerInit => LedgerChain /\ Grounded
<1> SUFFICES ASSUME LedgerInit PROVE LedgerChain /\ Grounded
  OBVIOUS
<1>1. ASSUME NEW w \in Wallets PROVE WalletChained(w)
  BY DEF LedgerInit, WalletChained, LinksUp, Before
<1>2. Grounded
  BY DEF LedgerInit, Grounded, Committed
<1> QED BY <1>1, <1>2, ChainIsWalletChained

\* The balance is always the last entry's, every entry starts where the last
\* one ended and the version counts them: no movement is lost or applied twice
\* (service.go:554-626, wallet.go:89-169).
THEOREM ChainHolds == LedgerSpec => [](LedgerChain /\ Grounded)
  BY ChainInit, ChainStep, LedgerTypes, PTL DEF LedgerSpec

-------------------------------------------------------------------------------
(* The ledger and the transactions                                         *)

\* Entry e of wallet w against the transactions.
Records(e, w) ==
  e.txn # w =>
    /\ e.txn \in Requests
    /\ Processed(e.txn)
    /\ cmd[e.txn].wallet = w
    /\ cmd[e.txn].amount = e.amount
    /\ observed[e.txn] = e.after

NoneTwice(L, w) ==
  \A i, j \in 1..Len(L) : L[i].txn # w /\ L[j].txn = L[i].txn => j = i

Posted(t) ==
  Processed(t) /\ cmd[t].kind # "LOSS" =>
    \E i \in 1..Len(ledger[cmd[t].wallet]) : ledger[cmd[t].wallet][i].txn = t

Matches ==
  /\ \A w \in Wallets :
       /\ \A i \in 1..Len(ledger[w]) : Records(ledger[w][i], w)
       /\ NoneTwice(ledger[w], w)
  /\ \A t \in Requests : Posted(t)

LEMMA MatchesImplies == Matches => LedgerMatchesTransactions
  BY DEF Matches, Records, NoneTwice, Posted, LedgerMatchesTransactions

\* What an entry records stays true as long as no processed row changes.
LEMMA RecordsStays ==
  ASSUME NEW w, NEW e, Records(e, w), cmd' = cmd,
         \A u \in Requests : Processed(u) =>
           state'[u] = state[u] /\ observed'[u] = observed[u]
  PROVE  Records(e, w)'
  BY DEF Records, Processed

LEMMA MatchesStep ==
  ASSUME LedgerTypeOK, Matches, Grounded, [LedgerNext]_ledgerVars
  PROVE  Matches'
<1>0. ledger \in [Wallets -> Seq(Entries)]
  BY DEF LedgerTypeOK
<1>1. CASE Untouched
  <2>1. /\ cmd' = cmd /\ ledger' = ledger
        /\ state' = state /\ observed' = observed
    BY <1>1 DEF Untouched, walletVars, txnVars
  <2> QED BY <2>1 DEF Matches, Records, NoneTwice, Posted, Processed
<1>2. ASSUME NEW x \in Wallets, NEW o \in Owners, NEW b \in OpeningBalances,
             OpenWallet(x, o, b)
      PROVE  Matches'
  <2>1. /\ cmd' = cmd /\ state' = state /\ observed' = observed
        /\ ledger[x] = <<>>
    BY <1>2, OpenFrame DEF OpenWallet, Grounded, txnVars
  <2>2. PICK e : /\ e.txn = x
                 /\ ledger' = ledger \/ ledger' = [ledger EXCEPT ![x] = <<e>>]
    <3> DEFINE e == [txn |-> x, dir |-> "CREDIT", amount |-> b,
                     before |-> 0, after |-> b]
    <3>1. e.txn = x
      OBVIOUS
    <3>2. ledger' = ledger \/ ledger' = [ledger EXCEPT ![x] = <<e>>]
      BY <1>2 DEF OpenWallet
    <3> HIDE DEF e
    <3> QED BY <3>1, <3>2
  <2>3. CASE ledger' = ledger
    BY <2>1, <2>3 DEF Matches, Records, NoneTwice, Posted, Processed
  <2>4. CASE ledger' = [ledger EXCEPT ![x] = <<e>>]
    <3>1. /\ ledger'[x] = <<e>>
          /\ \A w \in Wallets : w # x => ledger'[w] = ledger[w]
      BY <1>0, <2>4
    <3>2. ASSUME NEW t \in Requests PROVE Posted(t)'
      <4>1. PICK w \in Wallets : w = cmd[t].wallet
        BY CommandFacts
      <4>2. CASE w = x
        <5>1. ~(Processed(t) /\ cmd[t].kind # "LOSS")
          <6>1. \A i : i \notin 1..Len(ledger[x])
            BY <2>1
          <6>2. Posted(t)
            BY DEF Matches
          <6> QED BY <4>1, <4>2, <6>1, <6>2, Zenon DEF Posted
        <5> QED BY <2>1, <5>1 DEF Posted, Processed
      <4>3. CASE w # x
        BY <2>1, <3>1, <4>1, <4>3 DEF Matches, Posted, Processed
      <4> QED BY <4>2, <4>3
    <3>3. ASSUME NEW w \in Wallets
          PROVE  /\ \A i \in 1..Len(ledger'[w]) : Records(ledger[w][i], w)'
                 /\ NoneTwice(ledger[w], w)'
      <4>1. CASE w = x
        <5>1. Len(ledger'[w]) = 1 /\ ledger'[w][1].txn = w
          BY <2>2, <3>1, <4>1
        <5> QED BY <5>1 DEF Records, NoneTwice
      <4>2. CASE w # x
        <5>1. ledger'[w] = ledger[w]
          BY <3>1, <4>2
        <5>2. /\ \A i \in 1..Len(ledger[w]) : Records(ledger[w][i], w)
              /\ NoneTwice(ledger[w], w)
          BY DEF Matches
        <5> QED BY <2>1, <5>1, <5>2 DEF Records, NoneTwice, Processed
      <4> QED BY <4>1, <4>2
    <3> QED BY <3>2, <3>3 DEF Matches
  <2> QED BY <2>2, <2>3, <2>4
<1>3. ASSUME NEW t \in Requests, Writes(t) PROVE Matches'
  <2>0. PICK w \in Wallets : w = cmd[t].wallet
    BY CommandFacts
  <2>1. /\ cmd' = cmd /\ ~Processed(t)
        /\ \A u \in Requests \ {t} :
             state'[u] = state[u] /\ observed'[u] = observed[u]
    BY <1>3, WritesRow DEF Writes, Undecided, Processed
  <2>2. \A u \in Requests : Processed(u) =>
          state'[u] = state[u] /\ observed'[u] = observed[u]
    BY <2>1
  <2>3. ASSUME NEW x \in Wallets, NEW i \in 1..Len(ledger[x])
        PROVE  Records(ledger[x][i], x) /\ ledger[x][i].txn # t
    <3>1. Records(ledger[x][i], x)
      BY DEF Matches
    <3> QED BY <2>1, <3>1, LedgerAssumptions DEF Records
  <2>4. CASE /\ UNCHANGED walletVars
             /\ state'[t] = "PROCESSED" => cmd[t].kind = "LOSS"
    <3>1. ledger' = ledger
      BY <2>4 DEF walletVars
    <3>2. ASSUME NEW x \in Wallets, NEW i \in 1..Len(ledger[x])
          PROVE  Records(ledger[x][i], x)'
      BY <2>1, <2>2, <2>3, <3>1 DEF Records, Processed
    <3>3. ASSUME NEW u \in Requests PROVE Posted(u)'
      BY <2>1, <2>4, <3>1 DEF Matches, Posted, Processed
    <3> QED BY <3>1, <3>2, <3>3 DEF Matches, NoneTwice
  <2>5. ASSUME NEW d \in Decisions, Movable(t, d, balance[w]),
               Move(t, d.plan, d.ref, balance[w], version[w])
        PROVE  Matches'
    <3> DEFINE L == ledger[w]
               n == Len(ledger[w])
    <3>1. PICK e \in Entries :
            /\ e.txn = t /\ e.amount = cmd[t].amount
            /\ ledger' = [ledger EXCEPT ![w] = Append(L, e)]
            /\ observed' = [observed EXCEPT ![t] = e.after]
      BY <2>0, <2>5, MoveWrites
    <3>2. observed'[t] = e.after /\ state'[t] = "PROCESSED"
      BY <2>5, <3>1 DEF LedgerTypeOK, Move, Persist
    <3>3. L \in Seq(Entries) /\ n \in Nat
      BY <1>0
    <3>4. /\ Len(ledger'[w]) = n + 1
          /\ ledger'[w][n + 1] = e
          /\ \A i \in 1..n : ledger'[w][i] = ledger[w][i]
          /\ \A x \in Wallets : x # w => ledger'[x] = ledger[x]
      <4>1. ledger'[w] = Append(L, e)
        BY <1>0, <3>1
      <4>2. \A x \in Wallets : x # w => ledger'[x] = ledger[x]
        BY <1>0, <3>1
      <4>3. /\ Len(Append(L, e)) = n + 1 /\ Append(L, e)[n + 1] = e
            /\ \A i \in 1..n : Append(L, e)[i] = L[i]
        BY <3>3
      <4> QED BY <4>1, <4>2, <4>3
    <3>6. ASSUME NEW x \in Wallets, NEW k \in Entries, Records(k, x), k.txn # t
          PROVE  Records(k, x)'
      BY <2>1, <2>2, <3>6, RecordsStays
    <3>7. Records(e, w)'
      BY <2>0, <2>1, <3>1, <3>2 DEF Records, Processed
    <3>8. ASSUME NEW i \in 1..n + 1
          PROVE  \E k : k = ledger'[w][i] /\ Records(k, w)'
      <4>1. CASE i = n + 1
        BY <3>4, <3>7, <4>1
      <4>2. CASE i \in 1..n
        <5>1. L[i] \in Entries
          BY <3>3, <4>2
        <5> QED BY <2>3, <3>4, <3>6, <4>2, <5>1
      <4> QED BY <3>3, <4>1, <4>2
    <3>9. NoneTwice(ledger[w], w)'
      <4> SUFFICES ASSUME NEW i \in 1..n + 1, NEW j \in 1..n + 1,
                          ledger'[w][i].txn # w,
                          ledger'[w][j].txn = ledger'[w][i].txn
                   PROVE  j = i
        BY <3>4 DEF NoneTwice
      <4>1. NoneTwice(L, w)
        BY DEF Matches
      <4>2. \A k \in 1..n : L[k].txn # t
        BY <2>3
      <4> QED BY <3>1, <3>3, <3>4, <4>1, <4>2 DEF NoneTwice
    <3>10. ASSUME NEW x \in Wallets, x # w
           PROVE  /\ \A i \in 1..Len(ledger'[x]) :
                       \E k : k = ledger'[x][i] /\ Records(k, x)'
                  /\ NoneTwice(ledger[x], x)'
      <4>1. \A i \in 1..Len(ledger[x]) : ledger[x][i] \in Entries
        BY <1>0
      <4>2. NoneTwice(ledger[x], x)
        BY DEF Matches
      <4>3. ledger'[x] = ledger[x]
        BY <3>4, <3>10
      <4>4. NoneTwice(ledger[x], x)'
        BY <4>2, <4>3 DEF NoneTwice
      <4> QED BY <2>3, <3>6, <4>1, <4>3, <4>4
    <3>11. ASSUME NEW u \in Requests PROVE Posted(u)'
      <4>1. CASE u = t
        <5>1. n + 1 \in 1..Len(ledger'[w])
          BY <3>3, <3>4
        <5> QED BY <2>0, <2>1, <3>1, <3>4, <4>1, <5>1 DEF Posted
      <4>2. CASE u # t /\ Processed(u) /\ cmd[u].kind # "LOSS"
        <5>1. PICK x \in Wallets : x = cmd[u].wallet
          BY CommandFacts
        <5>2. PICK i \in 1..Len(ledger[x]) : ledger[x][i].txn = u
          BY <4>2, <5>1 DEF Matches, Posted
        <5>3. i \in 1..Len(ledger'[x]) /\ ledger'[x][i] = ledger[x][i]
          BY <3>3, <3>4, <5>2
        <5> QED BY <2>1, <5>1, <5>2, <5>3 DEF Posted
      <4>3. CASE u # t /\ ~(Processed(u) /\ cmd[u].kind # "LOSS")
        BY <2>1, <4>3 DEF Posted, Processed
      <4> QED BY <4>1, <4>2, <4>3
    <3>12. ASSUME NEW x \in Wallets, NEW i \in 1..Len(ledger'[x])
           PROVE  Records(ledger[x][i], x)'
      <4>1. PICK k : k = ledger'[x][i] /\ Records(k, x)'
        BY <3>4, <3>8, <3>10
      <4> QED BY <4>1 DEF Records
    <3> QED BY <3>9, <3>10, <3>11, <3>12 DEF Matches
  <2> QED BY <1>3, <2>0, <2>4, <2>5, WritesMoney
<1> QED BY <1>1, <1>2, <1>3, StepCases

\* Entries and transactions tell the same story, in the inductive form
\* (service.go:554-626).
LEMMA MatchesHolds == LedgerSpec => []Matches
<1>1. LedgerInit => Matches
  BY DEF LedgerInit, Matches, NoneTwice, Posted, Processed
<1>2. LedgerTypeOK /\ Matches /\ LedgerChain /\ Grounded
        /\ [LedgerNext]_ledgerVars => Matches'
  BY MatchesStep
<1> QED BY <1>1, <1>2, LedgerTypes, ChainHolds, PTL DEF LedgerSpec

\* Every entry belongs to a processed transaction of its wallet, amount and
\* told balance, and every processed movement has exactly one entry
\* (service.go:554-626).
THEOREM LedgerMatchesHolds == LedgerSpec => []LedgerMatchesTransactions
  BY MatchesHolds, MatchesImplies, PTL

-------------------------------------------------------------------------------
(* Compensations                                                           *)

IsReversal(t) == cmd[t].kind \in ReversalKinds

\* What a processed dependent rests on.
RestsOn(t) ==
  Processed(t) /\ refTxn[t] # NoTxn =>
    Processed(refTxn[t]) /\ SameIdentity(cmd[t], cmd[refTxn[t]])

Compensates(t) ==
  Processed(t) /\ IsReversal(t) =>
    /\ refTxn[t] # NoTxn
    /\ cmd[t].amount = cmd[refTxn[t]].amount
    /\ Claimed(refTxn[t])

Alone(t, u) ==
  Processed(t) /\ IsReversal(t) /\ Processed(u) /\ IsReversal(u) /\ u # t =>
    refTxn[u] # refTxn[t]

\* CompensatedOnce with what makes it inductive: a processed reversal has left
\* its claim.
Compensation ==
  /\ \A t \in Requests : RestsOn(t) /\ Compensates(t)
  /\ \A t, u \in Requests : Alone(t, u)

LEMMA CompensationImplies == Compensation => CompensatedOnce
  BY DEF Compensation, RestsOn, Compensates, Alone, IsReversal, CompensatedOnce

LEMMA CompensationStep ==
  ASSUME LedgerTypeOK, Compensation, [LedgerNext]_ledgerVars
  PROVE  Compensation'
<1>1. ASSUME UNCHANGED <<cmd, txnVars, claims>> PROVE Compensation'
  BY <1>1
  DEF Compensation, RestsOn, Compensates, Alone, IsReversal, Processed,
      Claimed, txnVars
<1>2. CASE Untouched
  BY <1>1, <1>2 DEF Untouched, walletVars
<1>3. ASSUME NEW w \in Wallets, NEW o \in Owners, NEW b \in OpeningBalances,
             OpenWallet(w, o, b)
      PROVE  Compensation'
  BY <1>1, <1>3, OpenFrame
<1>4. ASSUME NEW t \in Requests, Writes(t) PROVE Compensation'
  <2>1. /\ cmd' = cmd /\ ~Processed(t)
        /\ \A u \in Requests \ {t} :
             state'[u] = state[u] /\ refTxn'[u] = refTxn[u]
    BY <1>4, WritesRow DEF Writes, Undecided, Processed
  <2>2. \A u \in Requests : refTxn[u] \in Requests \cup {NoTxn}
    BY DEF LedgerTypeOK
  <2>3. CASE /\ UNCHANGED walletVars
             /\ state'[t] = "PROCESSED" =>
                  cmd[t].kind = "LOSS" /\ refTxn'[t] = NoTxn
    <3>1. claims' = claims /\ (Processed(t)' => ~IsReversal(t))
      BY <2>3 DEF walletVars, IsReversal, ReversalKinds, Processed
    <3>2. ASSUME NEW u \in Requests PROVE RestsOn(u)' /\ Compensates(u)'
      <4>1. CASE u = t
        BY <2>1, <2>3, <3>1, <4>1 DEF RestsOn, Compensates, IsReversal, Processed
      <4>2. CASE u # t
        BY <2>1, <2>2, <3>1, <4>2
        DEF Compensation, RestsOn, Compensates, IsReversal, Processed, Claimed
      <4> QED BY <4>1, <4>2
    <3>3. ASSUME NEW u \in Requests, NEW x \in Requests PROVE Alone(u, x)'
      BY <2>1, <3>1 DEF Compensation, Alone, IsReversal, Processed
    <3> QED BY <3>2, <3>3 DEF Compensation
  <2>4. ASSUME NEW d \in Decisions, NEW b, NEW v,
               Movable(t, d, b), Move(t, d.plan, d.ref, b, v)
        PROVE  Compensation'
    <3>1. /\ d.ref # NoTxn =>
               Processed(d.ref) /\ SameIdentity(cmd[t], cmd[d.ref])
          /\ d.plan.claim <=> IsReversal(t)
          /\ d.plan.claim =>
               /\ d.ref # NoTxn /\ ~Claimed(d.ref)
               /\ cmd[d.ref].amount = cmd[t].amount
      BY <2>4 DEF Movable, BorneOut, IsReversal
    <3>2. /\ state'[t] = "PROCESSED" /\ refTxn'[t] = d.ref
          /\ d.plan.claim =>
               claims' = claims \cup {[reference |-> d.ref, reversal |-> t]}
          /\ ~d.plan.claim => claims' = claims
      BY <2>4 DEF Move, Persist, LedgerTypeOK
    <3>3. claims \subseteq claims'
      BY <2>4 DEF Move
    <3>4. d.plan.claim => Claimed(refTxn[t])'
      <4> DEFINE c == [reference |-> d.ref, reversal |-> t]
      <4>1. c.reference = d.ref
        OBVIOUS
      <4>2. d.plan.claim => c \in claims'
        BY <3>2
      <4> HIDE DEF c
      <4> QED BY <3>2, <4>1, <4>2 DEF Claimed
    <3>5. d.ref \in Requests \cup {NoTxn} /\ d.ref # t
      BY <2>1, <3>1, LedgerAssumptions DEF Decisions
    <3>6. RestsOn(t)' /\ Compensates(t)'
      BY <2>1, <3>1, <3>2, <3>4, <3>5
      DEF RestsOn, Compensates, IsReversal, Processed
    <3>7. ASSUME NEW u \in Requests, u # t PROVE RestsOn(u)' /\ Compensates(u)'
      <4>1. RestsOn(u) /\ Compensates(u)
        BY DEF Compensation
      <4>2. Claimed(refTxn[u]) => Claimed(refTxn[u])'
        BY <2>1, <3>3, <3>7 DEF Claimed
      <4> QED
        BY <2>1, <2>2, <3>7, <4>1, <4>2
        DEF RestsOn, Compensates, IsReversal, Processed
    <3>8. ASSUME NEW u \in Requests, u # t, Processed(u), IsReversal(u), IsReversal(t)
          PROVE  refTxn[u] # d.ref
      BY <3>1, <3>8 DEF Compensation, Compensates
    <3>9. ASSUME NEW u \in Requests, NEW x \in Requests PROVE Alone(u, x)'
      <4>1. Alone(u, x)
        BY DEF Compensation
      <4> QED BY <2>1, <3>2, <3>8, <4>1 DEF Alone, IsReversal, Processed
    <3> QED BY <3>6, <3>7, <3>9 DEF Compensation
  <2> QED BY <1>4, <2>3, <2>4, WritesMoney
<1> QED BY <1>2, <1>3, <1>4, StepCases

\* A transaction is compensated at most once, by an operation of its own
\* amount and identity; a processed dependent rests on a processed reference
\* (resolve.go:72-121).
THEOREM CompensatedOnceHolds == LedgerSpec => []CompensatedOnce
<1>1. LedgerInit => Compensation
  BY DEF LedgerInit, Compensation, RestsOn, Compensates, Alone, Processed
<1>2. LedgerTypeOK /\ Compensation /\ [LedgerNext]_ledgerVars => Compensation'
  BY CompensationStep
<1>3. LedgerSpec => []Compensation
  BY <1>1, <1>2, LedgerTypes, PTL DEF LedgerSpec
<1> QED BY <1>3, CompensationImplies, PTL

-------------------------------------------------------------------------------
(* Reversals                                                               *)

\* An entry goes the way its transaction takes money.
Directed(e, w) == e.txn # w => Turns(e.txn, refTxn[e.txn], e.dir)

\* L has a movement of r and after it one of t that undoes it.
Undoes(L, r, t) ==
  \E i, j \in 1..Len(L) :
    /\ i < j /\ L[i].txn = r /\ L[j].txn = t
    /\ L[i].amount = L[j].amount /\ L[i].dir # L[j].dir

Undone(t) ==
  Processed(t) /\ IsReversal(t) => Undoes(ledger[cmd[t].wallet], refTxn[t], t)

\* ReversalsUndo with what makes it inductive: the direction of every entry is
\* known, so the one a reversal will go against is.
Undoing ==
  /\ \A w \in Wallets : \A i \in 1..Len(ledger[w]) : Directed(ledger[w][i], w)
  /\ \A t \in Requests : Undone(t)

LEMMA UndoingImplies == Undoing => ReversalsUndo
  BY DEF Undoing, Undone, Undoes, IsReversal, ReversalsUndo

\* A step that adds entry e at the end of w's ledger and nothing else.
Adds(e, w) ==
  /\ Len(ledger[w]) \in Nat /\ Len(ledger'[w]) = Len(ledger[w]) + 1
  /\ ledger'[w][Len(ledger[w]) + 1] = e
  /\ \A i \in 1..Len(ledger[w]) : ledger'[w][i] = ledger[w][i]
  /\ \A x \in Wallets : x # w => ledger'[x] = ledger[x]

\* A movement is such a step.
LEMMA MoveAppends ==
  ASSUME LedgerTypeOK, NEW t \in Requests, NEW d, NEW w,
         w = cmd[t].wallet, Movable(t, d, balance[w]),
         Move(t, d.plan, d.ref, balance[w], version[w])
  PROVE  \E e \in Entries :
           /\ e.txn = t /\ e.dir = d.plan.dir /\ e.amount = cmd[t].amount
           /\ Adds(e, w)
<1>1. ledger \in [Wallets -> Seq(Entries)] /\ w \in Wallets
  BY CommandFacts DEF LedgerTypeOK
<1>2. PICK e \in Entries :
        /\ e.txn = t /\ e.dir = d.plan.dir /\ e.amount = cmd[t].amount
        /\ ledger' = [ledger EXCEPT ![w] = Append(ledger[w], e)]
  BY MoveWrites
<1>3. /\ ledger'[w] = Append(ledger[w], e)
      /\ \A x \in Wallets : x # w => ledger'[x] = ledger[x]
  BY <1>1, <1>2
<1>4. ledger[w] \in Seq(Entries)
  BY <1>1
<1>5. LET n == Len(ledger[w]) IN
      /\ n \in Nat /\ Len(Append(ledger[w], e)) = n + 1
      /\ Append(ledger[w], e)[n + 1] = e
      /\ \A i \in 1..n : Append(ledger[w], e)[i] = ledger[w][i]
  BY <1>4
<1>6. Adds(e, w)
  BY <1>3, <1>5 DEF Adds
<1> QED BY <1>2, <1>6

\* The entry a reversal of t goes against is in the ledger, the other way.
LEMMA ReferencePosted ==
  ASSUME LedgerTypeOK, Matches, Undoing, NEW t \in Requests, IsReversal(t),
         NEW d, BorneOut(t, d), d.plan.outcome = "move"
  PROVE  LET L == ledger[cmd[t].wallet] IN
         \E i \in 1..Len(L) :
           /\ L[i].txn = d.ref /\ L[i].amount = cmd[t].amount
           /\ L[i].dir # d.plan.dir
<1> DEFINE r == d.ref
<1>1. /\ r # NoTxn /\ r \in Requests /\ Processed(r)
      /\ SameIdentity(cmd[t], cmd[r]) /\ cmd[r].amount = cmd[t].amount
      /\ Turns(t, r, d.plan.dir)
  BY DEF BorneOut, IsReversal, Decisions
<1>2. PICK w \in Wallets : w = cmd[t].wallet /\ w = cmd[r].wallet
  BY <1>1, CommandFacts DEF SameIdentity
<1>3. /\ cmd[r].kind \in {"BET", "WIN", "REFUND"}
      /\ d.plan.dir = IF cmd[r].kind = "BET" THEN "CREDIT" ELSE "DEBIT"
  BY <1>1 DEF Turns, IsReversal
<1>4. PICK i \in 1..Len(ledger[w]) : ledger[w][i].txn = r
  BY <1>1, <1>2, <1>3 DEF Matches, Posted
<1>5. Records(ledger[w][i], w) /\ Directed(ledger[w][i], w)
  BY DEF Matches, Undoing
<1>6. r # w
  BY <1>1, LedgerAssumptions
<1>7. ledger[w][i].amount = cmd[t].amount
  BY <1>1, <1>4, <1>5, <1>6 DEF Records
<1>8. Turns(r, refTxn[r], ledger[w][i].dir)
  BY <1>4, <1>5, <1>6 DEF Directed
<1>9. ledger[w][i].dir # d.plan.dir
  BY <1>3, <1>8 DEF Turns
<1> QED BY <1>2, <1>4, <1>7, <1>9

LEMMA UndoingStep ==
  ASSUME LedgerTypeOK, Matches, Grounded, Undoing, [LedgerNext]_ledgerVars
  PROVE  Undoing'
<1>0. ledger \in [Wallets -> Seq(Entries)]
  BY DEF LedgerTypeOK
<1>1. CASE Untouched
  <2>1. UNCHANGED <<cmd, ledger, state, refTxn>>
    BY <1>1 DEF Untouched, walletVars, txnVars
  <2>2. ASSUME NEW w \in Wallets, NEW i \in 1..Len(ledger'[w])
        PROVE  Directed(ledger[w][i], w)'
    <3>1. Directed(ledger[w][i], w)
      BY <2>1 DEF Undoing
    <3> QED BY <2>1, <3>1 DEF Directed, Turns
  <2>3. ASSUME NEW t \in Requests PROVE Undone(t)'
    <3>1. Undone(t)
      BY DEF Undoing
    <3> QED BY <2>1, <3>1 DEF Undone, IsReversal, Processed
  <2> QED BY <2>2, <2>3 DEF Undoing
<1>2. ASSUME NEW x \in Wallets, NEW o \in Owners, NEW b \in OpeningBalances,
             OpenWallet(x, o, b)
      PROVE  Undoing'
  <2>1. /\ UNCHANGED <<cmd, state, refTxn>>
        /\ ledger[x] = <<>>
    BY <1>2, OpenFrame DEF OpenWallet, Grounded, txnVars
  <2>2. \A w \in Wallets : w # x => ledger'[w] = ledger[w]
    BY <1>0, <1>2 DEF OpenWallet
  <2>3. \A i \in 1..Len(ledger'[x]) : ledger'[x][i].txn = x
    <3> DEFINE e == [txn |-> x, dir |-> "CREDIT", amount |-> b,
                     before |-> 0, after |-> b]
    <3>1. e.txn = x
      OBVIOUS
    <3>2. ledger'[x] = ledger[x] \/ ledger'[x] = <<e>>
      BY <1>0, <1>2 DEF OpenWallet
    <3> HIDE DEF e
    <3>3. Len(<<e>>) = 1 /\ <<e>>[1] = e
      OBVIOUS
    <3> QED BY <2>1, <3>1, <3>2, <3>3
  <2>4. ASSUME NEW w \in Wallets, NEW i \in 1..Len(ledger'[w])
        PROVE  Directed(ledger[w][i], w)'
    <3>1. CASE w = x
      BY <2>3, <3>1 DEF Directed
    <3>2. CASE w # x
      <4>1. ledger'[w] = ledger[w] /\ Directed(ledger[w][i], w)
        BY <2>2, <3>2 DEF Undoing
      <4> QED BY <2>1, <4>1 DEF Directed, Turns
    <3> QED BY <3>1, <3>2
  <2>5. ASSUME NEW t \in Requests PROVE Undone(t)'
    <3>1. PICK w \in Wallets : w = cmd[t].wallet
      BY CommandFacts
    <3>2. Undone(t)
      BY DEF Undoing
    <3>3. CASE w = x
      <4>1. \A i : i \notin 1..Len(ledger[w])
        BY <2>1, <3>3
      <4>2. ~(Processed(t) /\ IsReversal(t))
        BY <3>1, <3>2, <4>1, Zenon DEF Undone, Undoes
      <4> QED BY <2>1, <4>2 DEF Undone, Processed, IsReversal
    <3>4. CASE w # x
      <4>1. ledger'[w] = ledger[w]
        BY <2>2, <3>4
      <4> QED
        BY <2>1, <3>1, <3>2, <4>1 DEF Undone, Processed, IsReversal
    <3> QED BY <3>3, <3>4
  <2> QED BY <2>4, <2>5 DEF Undoing
<1>3. ASSUME NEW t \in Requests, Writes(t) PROVE Undoing'
  <2>0. PICK w \in Wallets : w = cmd[t].wallet
    BY CommandFacts
  <2>1. /\ cmd' = cmd /\ ~Processed(t)
        /\ \A u \in Requests \ {t} : state'[u] = state[u] /\ refTxn'[u] = refTxn[u]
    BY <1>3, WritesRow DEF Writes, Undecided, Processed
  <2>2. ASSUME NEW x \in Wallets, NEW i \in 1..Len(ledger[x]), NEW e,
               e = ledger[x][i]
        PROVE  Directed(e, x)'
    <3>1. Records(e, x) /\ Directed(e, x)
      BY <2>2 DEF Matches, Undoing
    <3>2. e.txn # x => e.txn \in Requests \ {t}
      BY <2>1, <3>1 DEF Records
    <3> QED BY <2>1, <3>1, <3>2 DEF Directed, Turns
  <2>3. CASE /\ UNCHANGED walletVars
             /\ state'[t] = "PROCESSED" => cmd[t].kind = "LOSS"
    <3>1. ledger' = ledger
      BY <2>3 DEF walletVars
    <3>2. ASSUME NEW x \in Wallets, NEW i \in 1..Len(ledger'[x])
          PROVE  Directed(ledger[x][i], x)'
      <4>1. PICK e : e = ledger[x][i]
        OBVIOUS
      <4>2. Directed(e, x)'
        BY <2>2, <3>1, <4>1
      <4> QED BY <3>1, <4>1, <4>2 DEF Directed, Turns
    <3>3. ASSUME NEW u \in Requests PROVE Undone(u)'
      <4>1. CASE u = t
        BY <2>1, <2>3, <4>1 DEF Undone, Processed, IsReversal, ReversalKinds
      <4>2. CASE u # t
        <5>1. Undone(u)
          BY DEF Undoing
        <5> QED
          BY <2>1, <3>1, <4>2, <5>1 DEF Undone, Processed, IsReversal
      <4> QED BY <4>1, <4>2
    <3> QED BY <3>2, <3>3 DEF Undoing
  <2>4. ASSUME NEW d \in Decisions, Movable(t, d, balance[w]),
               Move(t, d.plan, d.ref, balance[w], version[w])
        PROVE  Undoing'
    <3> DEFINE n == Len(ledger[w])
    <3>0. PICK e \in Entries :
            /\ e.txn = t /\ e.dir = d.plan.dir /\ e.amount = cmd[t].amount
            /\ Adds(e, w)
      BY <2>0, <2>4, MoveAppends
    <3>1. /\ n \in Nat /\ Len(ledger'[w]) = n + 1 /\ ledger'[w][n + 1] = e
          /\ \A i \in 1..n : ledger'[w][i] = ledger[w][i]
          /\ \A x \in Wallets : x # w => ledger'[x] = ledger[x]
      BY <3>0 DEF Adds
    <3> HIDE DEF n
    <3>2. state'[t] = "PROCESSED" /\ refTxn'[t] = d.ref
      BY <2>4 DEF LedgerTypeOK, Move, Persist
    <3>3. BorneOut(t, d) /\ d.plan.outcome = "move"
      BY <2>4 DEF Movable
    <3>4. Directed(e, w)'
      <4>1. Turns(t, d.ref, d.plan.dir)
        BY <3>3 DEF BorneOut
      <4> QED BY <2>1, <3>0, <3>2, <4>1 DEF Directed, Turns
    <3>5. ASSUME NEW x \in Wallets, NEW i \in 1..Len(ledger'[x])
          PROVE  Directed(ledger[x][i], x)'
      <4>1. CASE x = w /\ i = n + 1
        <5>1. ledger'[x][i] = e
          BY <3>1, <4>1
        <5> QED BY <3>4, <4>1, <5>1 DEF Directed, Turns
      <4>2. CASE ~(x = w /\ i = n + 1)
        <5>1. /\ i \in 1..Len(ledger[x])
              /\ ledger'[x][i] = ledger[x][i]
          BY <3>1, <4>2 DEF n
        <5>2. PICK k : k = ledger[x][i]
          OBVIOUS
        <5>3. Directed(k, x)'
          BY <2>2, <5>1, <5>2
        <5> QED BY <5>1, <5>2, <5>3 DEF Directed, Turns
      <4> QED BY <4>1, <4>2
    <3>6. ASSUME IsReversal(t) PROVE Undone(t)'
      <4>1. PICK i \in 1..n : /\ ledger[w][i].txn = d.ref
                              /\ ledger[w][i].amount = cmd[t].amount
                              /\ ledger[w][i].dir # d.plan.dir
        BY <2>0, <3>3, <3>6, ReferencePosted DEF n
      <4>2. ledger'[w][i] = ledger[w][i]
        BY <3>1
      <4>3. i \in 1..n + 1 /\ n + 1 \in 1..n + 1 /\ i < n + 1
        BY <3>1
      <4>4. Undoes(ledger'[w], d.ref, t)
        BY <3>0, <3>1, <4>1, <4>2, <4>3 DEF Undoes
      <4> QED BY <2>0, <2>1, <3>2, <4>4 DEF Undone
    <3>7. ASSUME NEW u \in Requests \ {t} PROVE Undone(u)'
      <4> SUFFICES ASSUME Processed(u), IsReversal(u) PROVE Undone(u)'
        BY <2>1, <3>7 DEF Undone, Processed, IsReversal
      <4>1. PICK x \in Wallets : x = cmd[u].wallet
        BY CommandFacts
      <4>2. Undoes(ledger[x], refTxn[u], u)
        <5>1. Undone(u)
          BY DEF Undoing
        <5> QED BY <4>1, <5>1 DEF Undone
      <4>3. Undoes(ledger'[x], refTxn[u], u)
        <5>1. PICK i \in 1..Len(ledger[x]), j \in 1..Len(ledger[x]) :
                LET L == ledger[x] IN
                /\ i < j /\ L[i].txn = refTxn[u] /\ L[j].txn = u
                /\ L[i].amount = L[j].amount /\ L[i].dir # L[j].dir
          BY <4>2 DEF Undoes
        <5>2. ASSUME NEW k \in 1..Len(ledger[x])
              PROVE  k \in 1..Len(ledger'[x]) /\ ledger'[x][k] = ledger[x][k]
          <6>1. CASE x = w
            BY <3>1, <5>2, <6>1 DEF n
          <6>2. CASE x # w
            BY <3>1, <5>2, <6>2
          <6> QED BY <6>1, <6>2
        <5>3. /\ i \in 1..Len(ledger'[x]) /\ ledger'[x][i] = ledger[x][i]
              /\ j \in 1..Len(ledger'[x]) /\ ledger'[x][j] = ledger[x][j]
          BY <5>2
        <5> QED BY <5>1, <5>3 DEF Undoes
      <4>4. refTxn'[u] = refTxn[u] /\ cmd'[u] = cmd[u]
        BY <2>1
      <4> QED BY <4>1, <4>3, <4>4 DEF Undone
    <3>8. ~IsReversal(t) => Undone(t)'
      BY <2>1 DEF Undone, IsReversal
    <3> QED BY <3>5, <3>6, <3>7, <3>8 DEF Undoing
  <2> QED BY <1>3, <2>0, <2>3, <2>4, WritesMoney
<1> QED BY <1>1, <1>2, <1>3, StepCases

\* In the ledger of its wallet a processed reversal stands after the transaction
\* it reverses, with its amount the other way (resolve.go:109-114,
\* service.go:554-626).
THEOREM ReversalsUndoHolds == LedgerSpec => []ReversalsUndo
<1>1. LedgerInit => Undoing
  BY DEF LedgerInit, Undoing, Undone, Processed
<1>2. LedgerTypeOK /\ Matches /\ Grounded /\ Undoing
        /\ [LedgerNext]_ledgerVars => Undoing'
  BY UndoingStep
<1>3. LedgerSpec => []Undoing
  BY <1>1, <1>2, LedgerTypes, MatchesHolds, ChainHolds, PTL DEF LedgerSpec
<1> QED BY <1>3, UndoingImplies, PTL

-------------------------------------------------------------------------------
(* Rejections                                                              *)

Reasoned(t) ==
  state[t] = "REJECTED" => Grounds(t, code[t], refTxn[t], observed[t])

\* A claim belongs to the reversal that took it.
Held(c) ==
  Processed(c.reversal) /\ IsReversal(c.reversal) /\ refTxn[c.reversal] = c.reference

\* RejectionsTrue with what makes it inductive: a claim is never left behind by
\* a reversal that did not take effect.
Reasons ==
  /\ \A t \in Requests : Reasoned(t)
  /\ \A c \in claims : Held(c)

LEMMA ReasonsImply ==
  ASSUME LedgerTypeOK, Reasons
  PROVE  RejectionsTrue
<1> SUFFICES ASSUME NEW t \in Requests, state[t] = "REJECTED",
                    NEW r, r = refTxn[t], NEW cd, cd = code[t]
             PROVE
    CASE cd \in {"INSUFFICIENT_FUNDS", "REVERSAL_INSUFFICIENT_FUNDS"} ->
           observed[t] < cmd[t].amount
      [] cd = "REFERENCE_NOT_FOUND" -> r = NoTxn /\ t \in late
      [] cd = "REFERENCE_NOT_PROCESSED" ->
           r # NoTxn /\ state[r] \in {"REJECTED", "FAILED"}
      [] cd = "ALREADY_REVERSED" ->
           \E u \in Requests :
             Processed(u) /\ cmd[u].kind \in ReversalKinds /\ refTxn[u] = r
      [] OTHER -> r # NoTxn /\ cd = ReferenceFault(cmd[t], cmd[r])
  BY DEF RejectionsTrue
<1>1. Grounds(t, cd, r, observed[t])
  BY DEF Reasons, Reasoned
<1>2. CASE cd \in FundsCodes
  BY <1>1, <1>2 DEF Grounds, FundsCodes
<1>3. CASE cd = "REFERENCE_NOT_FOUND"
  BY <1>1, <1>3 DEF Grounds
<1>4. CASE cd = "REFERENCE_NOT_PROCESSED"
  BY <1>1, <1>4 DEF Grounds
<1>5. CASE cd = "ALREADY_REVERSED"
  <2>1. PICK c \in claims : c.reference = r
    BY <1>1, <1>5 DEF Grounds, Claimed
  <2>2. c.reversal \in Requests
    BY DEF LedgerTypeOK
  <2>3. /\ Processed(c.reversal) /\ refTxn[c.reversal] = r
        /\ cmd[c.reversal].kind \in ReversalKinds
    BY <2>1 DEF Reasons, Held, IsReversal
  <2> QED BY <1>5, <2>2, <2>3
<1>6. CASE cd \in FaultCodes
  <2>1. r # NoTxn /\ cd = ReferenceFault(cmd[t], cmd[r])
    BY <1>1, <1>6 DEF Grounds
  <2> QED BY <1>6, <2>1 DEF FaultCodes
<1> QED BY <1>1, <1>2, <1>3, <1>4, <1>5, <1>6 DEF Grounds

\* Grounds stay, as deadlines, claims and final transactions do.
LEMMA GroundsLast ==
  ASSUME NEW t \in Requests, NEW cd, NEW r \in Requests \cup {NoTxn}, NEW b,
         Grounds(t, cd, r, b),
         cmd' = cmd, claims \subseteq claims', late \subseteq late',
         \A u \in Requests : state[u] \in Terminal => state'[u] = state[u]
  PROVE  Grounds(t, cd, r, b)'
<1>1. cd \in FundsCodes => b < cmd'[t].amount
  BY DEF Grounds
<1>2. cd = "REFERENCE_NOT_FOUND" => r = NoTxn /\ t \in late'
  BY DEF Grounds
<1>3. cd = "REFERENCE_NOT_PROCESSED" =>
        r # NoTxn /\ state'[r] \in {"REJECTED", "FAILED"}
  BY DEF Grounds, Terminal
<1>4. cd = "ALREADY_REVERSED" => Claimed(r)'
  BY DEF Grounds, Claimed
<1>5. cd \in FaultCodes => r # NoTxn /\ cd = ReferenceFault(cmd[t], cmd[r])'
  BY DEF Grounds, ReferenceFault, SameIdentity
<1> QED BY <1>1, <1>2, <1>3, <1>4, <1>5 DEF Grounds

LEMMA LateGrows ==
  ASSUME [LedgerNext]_ledgerVars
  PROVE  late \subseteq late'
<1>1. CASE UNCHANGED late
  BY <1>1
<1>2. ASSUME NEW t \in Requests, PassDeadline(t) PROVE late \subseteq late'
  BY <1>2 DEF PassDeadline
<1> QED
  BY <1>1, <1>2
  DEF LedgerNext, OpenWallet, Accept, AcceptReplay, ResolveWaiting, Corrupt, ledgerVars

\* A write keeps the grounds of the rows it does not write.
LEMMA ReasonsElsewhere ==
  ASSUME LedgerTypeOK, Reasons, NEW t, cmd' = cmd,
         claims \subseteq claims', late \subseteq late',
         \A u \in Requests : state[u] \in Terminal => state'[u] = state[u],
         \A u \in Requests \ {t} :
           /\ state'[u] = state[u] /\ code'[u] = code[u]
           /\ refTxn'[u] = refTxn[u] /\ observed'[u] = observed[u],
         t \in Requests => ~Processed(t)
  PROVE  /\ \A u \in Requests \ {t} : Reasoned(u)'
         /\ \A c \in claims : Held(c)'
<1>1. ASSUME NEW u \in Requests \ {t} PROVE Reasoned(u)'
  <2>1. PICK cd, r, b : cd = code[u] /\ r = refTxn[u] /\ b = observed[u]
    OBVIOUS
  <2>2. r \in Requests \cup {NoTxn}
    BY <2>1 DEF LedgerTypeOK
  <2>3. state[u] = "REJECTED" => Grounds(u, cd, r, b)
    BY <2>1 DEF Reasons, Reasoned
  <2>4. state[u] = "REJECTED" => Grounds(u, cd, r, b)'
    BY <2>2, <2>3, GroundsLast
  <2>5. cd = code'[u] /\ r = refTxn'[u] /\ b = observed'[u] /\ state'[u] = state[u]
    BY <2>1
  <2> QED BY <2>4, <2>5 DEF Reasoned, Grounds
<1>2. ASSUME NEW c \in claims PROVE Held(c)'
  <2>1. Held(c) /\ c.reversal \in Requests
    BY DEF Reasons, LedgerTypeOK
  <2>2. c.reversal # t
    BY <2>1 DEF Held
  <2> QED BY <2>1, <2>2 DEF Held, Processed, IsReversal
<1> QED BY <1>1, <1>2

LEMMA ReasonsStep ==
  ASSUME LedgerTypeOK, Reasons, [LedgerNext]_ledgerVars
  PROVE  Reasons'
<1>0. late \subseteq late'
  BY LateGrows
<1>1. ASSUME UNCHANGED <<cmd, txnVars, claims>> PROVE Reasons'
  <2>1. UNCHANGED <<cmd, state, code, refTxn, observed, claims>>
    BY <1>1 DEF txnVars
  <2>2. NoTxn \notin Requests
    BY LedgerAssumptions
  <2>3. /\ \A u \in Requests \ {NoTxn} : Reasoned(u)'
        /\ \A c \in claims : Held(c)'
    BY <1>0, <2>1, <2>2, ReasonsElsewhere
  <2> QED BY <2>1, <2>2, <2>3 DEF Reasons
<1>2. CASE Untouched
  BY <1>1, <1>2 DEF Untouched, walletVars
<1>3. ASSUME NEW w \in Wallets, NEW o \in Owners, NEW b \in OpeningBalances,
             OpenWallet(w, o, b)
      PROVE  Reasons'
  BY <1>1, <1>3, OpenFrame
<1>4. ASSUME NEW t \in Requests, Writes(t) PROVE Reasons'
  <2> DEFINE b == balance[cmd[t].wallet]
             v == version[cmd[t].wallet]
  <2>1. /\ cmd' = cmd /\ Undecided(t) /\ ~Processed(t)
        /\ \A u \in Requests \ {t} :
             /\ state'[u] = state[u] /\ code'[u] = code[u]
             /\ refTxn'[u] = refTxn[u] /\ observed'[u] = observed[u]
    BY <1>4, WritesRow DEF Writes, Undecided, Processed
  <2>2. \A u \in Requests : state[u] \in Terminal => state'[u] = state[u]
    BY <2>1 DEF Undecided, Terminal
  <2>3. /\ state \in [Requests -> States]
        /\ code \in [Requests -> FailureCodes \cup {"none"}]
        /\ refTxn \in [Requests -> Requests \cup {NoTxn}]
        /\ observed \in [Requests -> (0..MaxMoney) \cup {NoBalance}]
    BY DEF LedgerTypeOK
  <2>4. ASSUME claims' = claims, Reasoned(t)' PROVE Reasons'
    BY <1>0, <2>1, <2>2, <2>4, ReasonsElsewhere DEF Reasons
  <2>5. ASSUME NEW cd \in FailureCodes, NEW r \in Requests \cup {NoTxn},
               Grounds(t, cd, r, b), Reject(t, cd, r, b)
        PROVE  Reasons'
    <3>1. PICK ob : ob = b
      OBVIOUS
    <3>2. /\ claims' = claims /\ code'[t] = cd /\ refTxn'[t] = r /\ observed'[t] = ob
      BY <2>3, <2>5, <3>1 DEF Reject, Persist, walletVars
    <3>3. Grounds(t, cd, r, ob)
      BY <2>5, <3>1
    <3> HIDE DEF b
    <3>4. Grounds(t, cd, r, ob)'
      BY <1>0, <2>1, <2>2, <3>2, <3>3, GroundsLast
    <3>5. Reasoned(t)'
      BY <3>2, <3>4 DEF Reasoned, Grounds
    <3> QED BY <2>4, <3>2, <3>5
  <2>6. CASE Wait(t)
    BY <2>3, <2>4, <2>6 DEF Wait, Persist, walletVars, Reasoned
  <2>7. CASE Settle(t, NoTxn, b)
    BY <2>3, <2>4, <2>7 DEF Settle, Persist, walletVars, Reasoned
  <2>8. CASE MarkFailed(t, b)
    BY <2>3, <2>4, <2>8 DEF MarkFailed, Persist, walletVars, Reasoned
  <2>9. ASSUME NEW d \in Decisions, Movable(t, d, b), Move(t, d.plan, d.ref, b, v)
        PROVE  Reasons'
    <3>1. d.plan.claim <=> IsReversal(t)
      BY <2>9 DEF Movable, BorneOut, IsReversal
    <3>2. /\ state'[t] = "PROCESSED" /\ refTxn'[t] = d.ref
          /\ claims' = IF d.plan.claim
                       THEN claims \cup {[reference |-> d.ref, reversal |-> t]}
                       ELSE claims
      BY <2>3, <2>9 DEF Move, Persist
    <3>3. claims \subseteq claims'
      BY <3>2
    <3>4. /\ \A u \in Requests \ {t} : Reasoned(u)'
          /\ \A c \in claims : Held(c)'
      BY <1>0, <2>1, <2>2, <3>3, ReasonsElsewhere
    <3>5. Reasoned(t)'
      BY <3>2 DEF Reasoned
    <3>6. ASSUME NEW c \in claims' PROVE Held(c)'
      <4>1. CASE c \in claims
        BY <3>4, <4>1
      <4>2. CASE c \notin claims
        <5>1. c.reference = d.ref /\ c.reversal = t /\ d.plan.claim
          BY <3>2, <3>6, <4>2
        <5> QED BY <2>1, <3>1, <3>2, <5>1 DEF Held, Processed, IsReversal
      <4> QED BY <4>1, <4>2
    <3> QED BY <3>4, <3>5, <3>6 DEF Reasons
  <2> QED BY <1>4, <2>5, <2>6, <2>7, <2>8, <2>9 DEF Writes, Outcome
<1> QED BY <1>2, <1>3, <1>4, StepCases

\* A rejected transaction was rejected for a reason that is still true: funds,
\* deadline, a reference that failed, that another reversal has taken, or that
\* does not fit (resolve.go:72-121, service.go:320-322, 566-581).
THEOREM RejectionsTrueHolds == LedgerSpec => []RejectionsTrue
<1>1. LedgerInit => Reasons
  BY DEF LedgerInit, Reasons, Reasoned
<1>2. LedgerTypeOK /\ Reasons /\ [LedgerNext]_ledgerVars => Reasons'
  BY ReasonsStep
<1>3. LedgerSpec => []Reasons
  BY <1>1, <1>2, LedgerTypes, PTL DEF LedgerSpec
<1> QED BY <1>3, ReasonsImply, LedgerTypes, PTL
===============================================================================
