------------------------------ MODULE WagerService ------------------------------
(***************************************************************************)
(* The submit and resolve use cases of internal/application/service.go as  *)
(* concurrent PostgreSQL transactions (READ COMMITTED).  A request calls   *)
(* SubmitWagerTransaction (msg = Http) or SubmitWagerFromInbox; a worker   *)
(* calls ResolvePendingReference.  Each step is one statement that reads   *)
(* what others may have committed since the last one, or that waits for a  *)
(* lock; the writes of a transaction become visible in its Commit step.    *)
(*                                                                         *)
(*   request: idle -> begin -> lookupKey -> lookupExt -> lockWallet        *)
(*                 -> insert -> resolve -> commit -> done                  *)
(*   worker:  idle -> lockRow -> lockWallet -> resolve -> commit -> idle   *)
(***************************************************************************)
EXTENDS WagerLedger

CONSTANTS
  Workers,     \* concurrent runs of the reference worker
  Free,        \* no lock holder
  MaxTries,    \* maxConcurrentWriteRetries
  Faulty       \* the processes that statements may fail

ASSUME ServiceAssumptions ==
  /\ MaxTries \in Nat \ {0}
  /\ Requests \cap Workers = {}
  /\ Faulty \subseteq Requests \cup Workers
  /\ Free \notin Requests \cup Workers

Procs == Requests \cup Workers

VARIABLES
  pc,          \* where each process is
  tries,       \* how many attempts a request has lost to concurrent writes
  target,      \* the transaction a process works on; a request's is itself
  seen,        \* the wallet as read under its row lock
  decision,    \* the outcome planned from the rows read so far
  walletLock,  \* SELECT ... FOR UPDATE holders: wallets
  rowLock,     \*   and transactions
  reply        \* what the caller of a request was told

procVars == <<pc, tries, target, seen, decision>>
lockVars == <<walletLock, rowLock>>
vars     == <<ledgerVars, procVars, lockVars, reply>>

Steps ==
  {"idle", "begin", "lookupKey", "lookupExt", "lockRow", "lockWallet",
   "insert", "resolve", "commit", "done"}

Refusals ==
  {"duplicate", "idempotencyConflict", "externalConflict", "inboxConflict",
   "notFound", "unsupportedCurrency", "overflow", "corrupt", "transient"}

Replies ==
  [status : {"none", "result"} \cup Refusals, txn : Requests \cup {NoTxn},
   state : States, code : FailureCodes \cup {"none"},
   observed : (0..MaxMoney) \cup {NoBalance}]

Refusal(status) ==
  [status |-> status, txn |-> NoTxn, state |-> "ABSENT", code |-> "none",
   observed |-> NoBalance]

NoReply == Refusal("none")

\* resultOf: the caller sees the row as it is when it is read.
ResultOf(t) ==
  [status |-> "result", txn |-> t, state |-> state[t], code |-> code[t],
   observed |-> observed[t]]

Unread == [balance |-> 0, version |-> 0]

TypeOK ==
  /\ LedgerTypeOK
  /\ pc \in [Procs -> Steps]
  /\ tries \in [Requests -> 0..MaxTries]
  /\ target \in [Procs -> Requests \cup {NoTxn}]
  /\ seen \in [Procs -> [balance : 0..MaxMoney, version : Nat]]
  /\ decision \in [Procs -> Decisions]
  /\ walletLock \in [Wallets -> Procs \cup {Free}]
  /\ rowLock \in [Requests -> Workers \cup {Free}]
  /\ reply \in [Requests -> Replies]

Init ==
  /\ LedgerInit
  /\ pc = [p \in Procs |-> "idle"]
  /\ tries = [q \in Requests |-> 0]
  /\ target = [p \in Procs |-> IF p \in Requests THEN p ELSE NoTxn]
  /\ seen = [p \in Procs |-> Unread]
  /\ decision = [p \in Procs |-> Defer]
  /\ walletLock = [w \in Wallets |-> Free]
  /\ rowLock = [t \in Requests |-> Free]
  /\ reply = [q \in Requests |-> NoReply]

-------------------------------------------------------------------------------
(* Transactions and locks                                                  *)

WalletOf(p) == cmd[target[p]].wallet

\* Uncommitted rows other processes may have to wait for.
HoldsDelivery(q) ==
  /\ msg[q] # Http
  /\ pc[q] \in {"lookupKey", "lookupExt", "lockWallet", "insert", "resolve",
                "commit"}

HoldsRow(q) == pc[q] \in {"resolve", "commit"}

\* The processes whose transaction must end before p's next statement returns.
Blockers(p) ==
  CASE pc[p] = "begin" ->
         {q \in Requests : HoldsDelivery(q) /\ msg[q] = msg[p]}
    [] pc[p] = "insert" ->
         {q \in Requests : HoldsRow(q) /\ Collides(p, q)}
    [] pc[p] = "lockRow" -> {rowLock[target[p]]} \ {Free}
    [] pc[p] = "lockWallet" -> {walletLock[WalletOf(p)]} \ {Free}
    \* the foreign key takes FOR KEY SHARE on the resolved reference
    [] pc[p] = "commit" /\ decision[p].ref # NoTxn ->
         {rowLock[decision[p].ref]} \ {Free, p}
    [] OTHER -> {}

Unblocked(p) == Blockers(p) = {}

\* p waits for itself through others.
InWaitCycle(p) ==
  \A S \in SUBSET Procs :
    Blockers(p) \subseteq S /\ (\A x \in S : Blockers(x) \subseteq S) => p \in S

Goto(p, step) == pc' = [pc EXCEPT ![p] = step]

\* Mutant: an aborted transaction is not rolled back.
KeepLocks(p) == UNCHANGED <<walletLock, rowLock>>

ReleaseLocks(p) ==
  /\ walletLock' = [w \in Wallets |->
                      IF walletLock[w] = p THEN Free ELSE walletLock[w]]
  /\ rowLock' = [t \in Requests |->
                   IF rowLock[t] = p THEN Free ELSE rowLock[t]]

\* The transaction of p ends, committed or not, and p goes to step.
EndTransaction(p, step) ==
  /\ Goto(p, step)
  /\ ReleaseLocks(p)
  /\ seen' = [seen EXCEPT ![p] = Unread]
  /\ decision' = [decision EXCEPT ![p] = Defer]

Finish(q, answer) ==
  /\ EndTransaction(q, "done")
  /\ reply' = [reply EXCEPT ![q] = answer]
  /\ UNCHANGED <<tries, target>>

\* The call ends without a durable effect.
Refuse(q, status) == Finish(q, Refusal(status)) /\ UNCHANGED ledgerVars

\* ErrConcurrentWrite: the transaction rolls back and the use case starts
\* over, at most MaxTries times.
FirstStep(q) == IF msg[q] = Http THEN "lookupKey" ELSE "begin"

ConcurrentWrite(q) ==
  IF tries[q] + 1 < MaxTries
  THEN /\ EndTransaction(q, FirstStep(q))
       /\ tries' = [tries EXCEPT ![q] = @ + 1]
       /\ UNCHANGED <<ledgerVars, target, reply>>
  ELSE Refuse(q, "transient")

\* The caller may lose the answer of a transaction that did commit.
AnswerWith(q, answer) ==
  \/ Finish(q, answer)
  \/ Finish(q, Refusal("transient"))

-------------------------------------------------------------------------------
(* SubmitWagerTransaction and SubmitWagerFromInbox                         *)

Continue(q, step) ==
  /\ Goto(q, step)
  /\ UNCHANGED <<ledgerVars, tries, target, seen, decision, lockVars, reply>>

Start(q) == pc[q] = "idle" /\ Continue(q, FirstStep(q))

\* Mutant: the inbox row commits on its own, before the domain result.
BeginDeliveryApart(q) ==
  /\ pc[q] = "begin"
  /\ Unblocked(q)
  /\ \/ /\ inbox[msg[q]] = NoDelivery
        /\ inbox' = [inbox EXCEPT ![msg[q]] = cmd[q]]
        /\ Goto(q, "lookupKey")
        /\ UNCHANGED <<inputVars, walletVars, txnVars, late, corrupt, events,
                       tries, target, seen, decision, lockVars, reply>>
     \/ inbox[msg[q]] = cmd[q] /\ Refuse(q, "duplicate")

\* Inbox.Begin: INSERT ... ON CONFLICT DO NOTHING waits for a concurrent
\* insert of the same message id.
BeginDelivery(q) ==
  /\ pc[q] = "begin"
  /\ Unblocked(q)
  /\ \/ inbox[msg[q]] = NoDelivery /\ Continue(q, "lookupKey")
     \/ inbox[msg[q]] = cmd[q] /\ Refuse(q, "duplicate")
     \/ /\ inbox[msg[q]] \notin {NoDelivery, cmd[q]}
        /\ Refuse(q, "inboxConflict")

\* Mutant: the stored row is answered whatever was asked.
ReplayAnything(q, u) ==
  /\ RecordDelivery(q)
  /\ AnswerWith(q, ResultOf(u))
  /\ UNCHANGED <<inputVars, walletVars, txnVars, late, corrupt, events>>

\* The stored row u already holds the key of q.
Replay(q, u) ==
  \/ /\ Digest(cmd[u]) = Digest(cmd[q])
     /\ RecordDelivery(q)
     /\ AnswerWith(q, ResultOf(u))
     /\ UNCHANGED <<inputVars, walletVars, txnVars, late, corrupt, events>>
  \/ /\ Digest(cmd[u]) # Digest(cmd[q])
     /\ Refuse(q, "idempotencyConflict")

LookupKey(q) ==
  /\ pc[q] = "lookupKey"
  /\ \/ (\A u \in Committed : ~SameKey(q, u)) /\ Continue(q, "lookupExt")
     \/ \E u \in Committed :
          /\ SameKey(q, u)
          /\ IF u \in corrupt THEN Refuse(q, "corrupt") ELSE Replay(q, u)

\* Mutant: every row found by the external identity is another's.
LookupExternalOnly(q) ==
  /\ pc[q] = "lookupExt"
  /\ \/ (\A u \in Committed : ~SameExternal(q, u)) /\ Continue(q, "lockWallet")
     \/ (\E u \in Committed : SameExternal(q, u)) /\ Refuse(q, "externalConflict")

\* A second statement, so an equivalent command may have committed since.
LookupExternal(q) ==
  /\ pc[q] = "lookupExt"
  /\ \/ (\A u \in Committed : ~SameExternal(q, u)) /\ Continue(q, "lockWallet")
     \/ \E u \in Committed :
          /\ SameExternal(q, u)
          /\ IF u \in corrupt THEN Refuse(q, "corrupt")
             ELSE IF SameKey(q, u) THEN Replay(q, u)
             ELSE Refuse(q, "externalConflict")

\* Mutant: the wallet is read without FOR UPDATE.
ReadWallet(p, step) ==
  LET w == WalletOf(p) IN
  /\ seen' = [seen EXCEPT ![p] = [balance |-> balance[w],
                                  version |-> version[w]]]
  /\ Goto(p, step)
  /\ UNCHANGED <<ledgerVars, tries, target, decision, lockVars, reply>>

TakeWallet(p, step) ==
  LET w == WalletOf(p) IN
  /\ walletLock' = [walletLock EXCEPT ![w] = p]
  /\ seen' = [seen EXCEPT ![p] = [balance |-> balance[w],
                                  version |-> version[w]]]
  /\ Goto(p, step)
  /\ UNCHANGED <<ledgerVars, tries, target, decision, rowLock, reply>>

\* Mutant: the currency is not compared with the wallet's.
LockWalletAnyCurrency(q) ==
  /\ pc[q] = "lockWallet"
  /\ Unblocked(q)
  /\ \/ owner[cmd[q].wallet] = NoOwner /\ Refuse(q, "notFound")
     \/ owner[cmd[q].wallet] # NoOwner /\ TakeWallet(q, "insert")

LockWallet(q) ==
  LET w == cmd[q].wallet IN
  /\ pc[q] = "lockWallet"
  /\ Unblocked(q)
  /\ \/ owner[w] = NoOwner /\ Refuse(q, "notFound")
     \/ /\ owner[w] # NoOwner
        /\ owner[w].currency # cmd[q].currency
        /\ Refuse(q, "unsupportedCurrency")
     \/ /\ owner[w] # NoOwner
        /\ owner[w].currency = cmd[q].currency
        /\ TakeWallet(q, "insert")

\* Mutant: no unique index on key or external identity.
InsertAnyRow(q) == pc[q] = "insert" /\ Unblocked(q) /\ Continue(q, "resolve")

\* The unique indexes wait for an uncommitted row and refuse a committed one.
InsertRow(q) ==
  /\ pc[q] = "insert"
  /\ Unblocked(q)
  /\ \/ (\A u \in Committed : ~Collides(q, u)) /\ Continue(q, "resolve")
     \/ (\E u \in Committed : Collides(q, u)) /\ ConcurrentWrite(q)

\* loadReference and planOperation.  The claim lookup is a statement of its
\* own, but it decides only when the reference is on the locked wallet, where
\* no other transaction can add a claim.
Resolve(p) ==
  /\ pc[p] = "resolve"
  /\ decision' = [decision EXCEPT ![p] = Decide(target[p], corrupt)]
  /\ Goto(p, "commit")
  /\ UNCHANGED <<ledgerVars, tries, target, seen, lockVars, reply>>

\* Unique index on the compensated reference (its second one, on the reversal,
\* is never at stake: a reversal row is new).
ClaimTaken(d) == d.plan.claim /\ Claimed(d.ref)

CommitSubmit(q) ==
  LET d == decision[q] IN
  /\ pc[q] = "commit"
  /\ Unblocked(q)
  /\ \/ Overflows(q, d.plan, seen[q].balance) /\ Refuse(q, "overflow")
     \/ ClaimTaken(d) /\ ConcurrentWrite(q)
     \/ /\ ~ClaimTaken(d)
        /\ Execute(q, d, seen[q].balance, seen[q].version)
        /\ RecordDelivery(q)
        /\ AnswerWith(q, ResultOf(q)')
        /\ UNCHANGED <<inputVars, late, corrupt>>

-------------------------------------------------------------------------------
(* ResolvePendingReference, called by the reference worker                 *)

\* A claim of the schedule (ReferenceSchedule.tla) hands the worker a waiting
\* transaction; the lease does not exclude other workers.
Pick(v, t) ==
  /\ pc[v] = "idle"
  /\ state[t] = "PENDING_REFERENCE"
  /\ target' = [target EXCEPT ![v] = t]
  /\ Goto(v, "lockRow")
  /\ UNCHANGED <<ledgerVars, tries, seen, decision, lockVars, reply>>

\* The worker's transaction ends without an effect on the tables.
EndResolve(v) ==
  /\ EndTransaction(v, "idle")
  /\ target' = [target EXCEPT ![v] = NoTxn]
  /\ UNCHANGED <<tries, reply>>

GiveUp(v) == EndResolve(v) /\ UNCHANGED ledgerVars

\* Mutant: the row is not looked at again under its lock.
LockRowUnseen(v) ==
  /\ pc[v] = "lockRow"
  /\ Unblocked(v)
  /\ rowLock' = [rowLock EXCEPT ![target[v]] = v]
  /\ Goto(v, "lockWallet")
  /\ UNCHANGED <<ledgerVars, tries, target, seen, decision, walletLock, reply>>

LockRow(v) ==
  LET t == target[v] IN
  /\ pc[v] = "lockRow"
  /\ Unblocked(v)
  /\ \/ (t \in corrupt \/ state[t] \in Terminal) /\ GiveUp(v)
     \/ /\ t \notin corrupt
        /\ state[t] \notin Terminal
        /\ rowLock' = [rowLock EXCEPT ![t] = v]
        /\ Goto(v, "lockWallet")
        /\ UNCHANGED <<ledgerVars, tries, target, seen, decision, walletLock,
                       reply>>

LockWalletOfRow(v) ==
  /\ pc[v] = "lockWallet"
  /\ Unblocked(v)
  /\ TakeWallet(v, "resolve")

\* Mutant: nothing expires.
CommitResolveNeverLate(v) ==
  LET t == target[v]
      d == decision[v]
      b == seen[v].balance
  IN
  /\ pc[v] = "commit"
  /\ Unblocked(v)
  /\ \/ (d.plan = Pending \/ Overflows(t, d.plan, b) \/ ClaimTaken(d)) /\ GiveUp(v)
     \/ /\ d.plan # Pending
        /\ ~ClaimTaken(d)
        /\ Execute(t, d, b, seen[v].version)
        /\ EndResolve(v)
        /\ UNCHANGED <<inputVars, late, corrupt, inbox>>

\* While the plan is to wait, the deadline decides between expiry and another
\* attempt, which changes the schedule only.
CommitResolve(v) ==
  LET t == target[v]
      d == decision[v]
      b == seen[v].balance
  IN
  /\ pc[v] = "commit"
  /\ Unblocked(v)
  /\ \/ d.plan = Pending /\ t \notin late /\ GiveUp(v)
     \/ Overflows(t, d.plan, b) /\ GiveUp(v)
     \/ ClaimTaken(d) /\ GiveUp(v)
     \/ /\ \/ /\ d.plan = Pending
              /\ t \in late
              /\ Reject(t, "REFERENCE_NOT_FOUND", NoTxn, b)
           \/ /\ d.plan # Pending
              /\ ~ClaimTaken(d)
              /\ Execute(t, d, b, seen[v].version)
        /\ EndResolve(v)
        /\ UNCHANGED <<inputVars, late, corrupt, inbox>>

-------------------------------------------------------------------------------
(* Failures and the specification                                          *)

\* A statement fails for another reason, the call's context ends or the
\* process dies: the transaction rolls back.
Fail(p) ==
  /\ p \in Faulty
  /\ pc[p] \notin {"idle", "done"}
  /\ \/ p \in Requests /\ Refuse(p, "transient")
     \/ p \in Workers /\ GiveUp(p)

\* PostgreSQL breaks a wait cycle by aborting one of its transactions.
BreakDeadlock(p) ==
  /\ pc[p] \notin {"idle", "done"}
  /\ InWaitCycle(p)
  /\ \/ p \in Requests /\ ConcurrentWrite(p)
     \/ p \in Workers /\ GiveUp(p)

\* Steps no modelled process takes.
Open == \E w \in Wallets, o \in Owners, b \in OpeningBalances :
  OpenWallet(w, o, b) /\ UNCHANGED <<procVars, lockVars, reply>>

Expire(t) == PassDeadline(t) /\ UNCHANGED <<procVars, lockVars, reply>>

Damage(t) == Corrupt(t) /\ UNCHANGED <<procVars, lockVars, reply>>

Submit(q) ==
  \/ Start(q)
  \/ BeginDelivery(q)
  \/ LookupKey(q)
  \/ LookupExternal(q)
  \/ LockWallet(q)
  \/ InsertRow(q)
  \/ Resolve(q)
  \/ CommitSubmit(q)

Advance(v) ==
  \/ LockRow(v)
  \/ LockWalletOfRow(v)
  \/ Resolve(v)
  \/ CommitResolve(v)

ResolveReference(v) ==
  \/ \E t \in Requests : Pick(v, t)
  \/ Advance(v)

Next ==
  \/ \E q \in Requests : Submit(q)
  \/ \E v \in Workers : ResolveReference(v)
  \/ \E p \in Procs : Fail(p) \/ BreakDeadlock(p)
  \/ \E t \in Requests : Expire(t) \/ Damage(t)
  \/ Open

Spec == Init /\ [][Next]_vars

Proceed(q) == pc[q] # "idle" /\ Submit(q)

\* Row locks are queues and starve nobody (strong fairness); whenever a worker
\* is free again and again, each waiting transaction is claimed again; time
\* passes; wait cycles are detected.
Fairness ==
  /\ \A q \in Requests : SF_vars(Proceed(q))
  /\ \A v \in Workers : SF_vars(Advance(v))
  /\ \A t \in Requests : SF_vars(\E v \in Workers : Pick(v, t))
  /\ \A t \in Requests : WF_vars(Expire(t))
  /\ \A p \in Procs : WF_vars(BreakDeadlock(p))

FairSpec == Spec /\ Fairness

-------------------------------------------------------------------------------
(* Properties                                                              *)

\* Whoever has passed the wallet lock holds it and still knows the wallet as
\* it is, so SaveBalance, a plain UPDATE without a version check, loses no
\* concurrent movement (wallets.go:33-52).
ViewIsCurrent ==
  \A p \in Procs : pc[p] \in {"insert", "resolve", "commit"} =>
    /\ walletLock[WalletOf(p)] = p
    /\ seen[p] = [balance |-> balance[WalletOf(p)],
                  version |-> version[WalletOf(p)]]

\* A result or a duplicate notice is given only for a command that is durable
\* under the caller's own key and projection, and a terminal answer stays true
\* for ever (service.go:205-236, 782-803).
AnswersHold ==
  \A q \in Requests :
    /\ reply[q].status = "result" =>
         LET t == reply[q].txn IN
         /\ t \in Committed
         /\ SameKey(q, t) /\ Digest(cmd[q]) = Digest(cmd[t])
         /\ reply[q].state \in Terminal => reply[q] = ResultOf(t)
    /\ reply[q].status = "duplicate" =>
         \E t \in Committed : SameKey(q, t) /\ Digest(cmd[q]) = Digest(cmd[t])

\* A conflict is reported only against a row that really holds the identity,
\* and a refused call leaves no row of its own (service.go:205-236).
ConflictsAreReal ==
  \A q \in Requests :
    /\ reply[q].status = "idempotencyConflict" =>
         \E t \in Committed : SameKey(q, t) /\ Digest(cmd[q]) # Digest(cmd[t])
    /\ reply[q].status = "externalConflict" =>
         \E t \in Committed : SameExternal(q, t) /\ ~SameKey(q, t)
    /\ reply[q].status \in Refusals \ {"transient"} => state[q] = "ABSENT"

\* Every call that has started is answered, deadlocks and races included.
CallsEnd == \A q \in Requests : pc[q] # "idle" ~> pc[q] = "done"

\* A credit that would overflow the wallet now.
CreditRefused(t) ==
  Overflows(t, Decide(t, corrupt).plan, balance[cmd[t].wallet])

\* A waiting transaction reaches an outcome, unless its row is damaged or its
\* credit does not fit into the wallet (service.go:272-332).
WaitingEnds ==
  \A t \in Requests :
    state[t] = "PENDING_REFERENCE"
      ~> (state[t] \in Terminal \/ t \in corrupt \/ CreditRefused(t))

\* The same without the exception, as the use case's comment has it: a waiting
\* transaction expires at its deadline (service.go:268-271).
DeadlineEndsWaiting ==
  \A t \in Requests :
    (state[t] = "PENDING_REFERENCE" /\ t \in late) ~> state[t] \in Terminal
===============================================================================
