----------------------------- MODULE ReferenceSchedule -----------------------------
(***************************************************************************)
(* Which waiting transaction a reference worker resolves and when          *)
(* (internal/adapters/worker/reference.go, ClaimDueReferences and the      *)
(* schedule columns of wager_transactions).  WagerService leaves that      *)
(* choice free and models what the resolution does to the books; here only *)
(* its end matters: the transaction ends, or is scheduled again.           *)
(*                                                                         *)
(*   worker: idle -> batch -> locked -> batch ... -> idle                  *)
(*                                                                         *)
(* Unlike an outbox row a claim has no number: a worker whose lease ran    *)
(* out goes on with its batch.  The row lock and the state read under it   *)
(* are what keeps it harmless.                                             *)
(*                                                                         *)
(* Times are distances from now, as in OutboxRelay: wait[t] is             *)
(* nextAttemptAt - now, lease[t] is claimedUntil - now and remaining[t] is *)
(* referenceDeadline - now, or 0 from the deadline on.                     *)
(***************************************************************************)
EXTENDS Integers, FiniteSets

CONSTANTS
  Txns,               \* transactions that were accepted without their reference
  Workers,            \* one per running instance
  Batch,              \* ReferenceClaimBatch
  Lease,              \* ReferenceClaimLease
  Ttl,                \* ReferenceTTL
  BackoffBase,        \* ReferenceBackoffBase
  BackoffCap,         \* ReferenceBackoffCap
  JitterDenominator,  \* referenceJitterDenominator
  Horizon,            \* bound: overdue rows are told apart up to this distance
  MaxFaults           \* bound: failed calls, crashes, lapses of held leases,
                      \* damaged rows

NoTxn == "none"

ASSUME ScheduleAssumptions ==
  /\ NoTxn \notin Txns
  /\ {Batch, Lease, Ttl, BackoffBase, BackoffCap, JitterDenominator}
       \subseteq Nat \ {0}
  /\ BackoffBase <= BackoffCap
  /\ {Horizon, MaxFaults} \subseteq Nat

VARIABLES
  state,      \* absent, PENDING_REFERENCE or terminal
  wait,       \* nextAttemptAt,
  lease,      \*   claimedUntil,
  attempts,   \*   referenceAttempts
  remaining,  \*   and referenceDeadline
  found,      \* the transactions whose reference can be resolved by now
  corrupt,    \* the rows that no longer rehydrate
  pc,         \* where each worker is
  batch,      \* the claimed transactions it has not finished
  current,    \* the one whose row it has locked
  faults      \* how many faults have happened

columns == <<wait, lease, attempts, remaining>>
inputs  == <<found, corrupt>>
procs   == <<pc, batch, current>>
vars    == <<state, columns, inputs, procs, faults>>

Unclaimed == -1

Init ==
  /\ state = [t \in Txns |-> "absent"]
  /\ wait = [t \in Txns |-> 0]
  /\ lease = [t \in Txns |-> Unclaimed]
  /\ attempts = [t \in Txns |-> 0]
  /\ remaining = [t \in Txns |-> Ttl]
  /\ found = {} /\ corrupt = {}
  /\ pc = [w \in Workers |-> "idle"]
  /\ batch = [w \in Workers |-> {}]
  /\ current = [w \in Workers |-> NoTxn]
  /\ faults = 0

Fault == faults < MaxFaults /\ faults' = faults + 1

-------------------------------------------------------------------------------
(* The schedule                                                            *)

BackoffUncapped(n) ==
  LET delay[i \in Nat] == IF i = 0 THEN BackoffBase ELSE 2 * delay[i - 1]
  IN  delay[n]

\* 1s doubled per attempt up to the cap.
Backoff(n) ==
  LET delay[i \in Nat] == IF i = 0 THEN BackoffBase
                          ELSE IF 2 * delay[i - 1] > BackoffCap THEN BackoffCap
                          ELSE 2 * delay[i - 1]
  IN  delay[n]

\* ReferenceBackoff: the hash of transaction and attempt picks the jitter.
Delays(n) == {Backoff(n) + j : j \in 0..(Backoff(n) \div JitterDenominator)}

\* A submission, or a delivery, commits a transaction as PENDING_REFERENCE.
Accept(t) ==
  /\ state[t] = "absent"
  /\ state' = [state EXCEPT ![t] = "waiting"]
  /\ \E d \in Delays(0) : wait' = [wait EXCEPT ![t] = d]
  /\ UNCHANGED <<lease, attempts, remaining, inputs, procs, faults>>

\* The reference of t commits, or reaches a terminal state.
Arrive(t) ==
  /\ t \notin found
  /\ found' = found \cup {t}
  /\ UNCHANGED <<state, columns, corrupt, procs, faults>>

\* A row stops to rehydrate, through damage from outside the service.
Damage(t) ==
  /\ state[t] = "waiting" /\ t \notin corrupt
  /\ Fault
  /\ corrupt' = corrupt \cup {t}
  /\ UNCHANGED <<state, columns, found, procs>>

Locked == {t \in Txns : \E w \in Workers : current[w] = t}

DueUnclaimed(t) == state[t] = "waiting" /\ wait[t] <= 0 /\ lease[t] = Unclaimed

DueLeased(t) == state[t] = "waiting" /\ wait[t] <= 0

\* WHERE of ClaimDueReferences.
Due(t) == state[t] = "waiting" /\ wait[t] <= 0 /\ lease[t] <= 0

\* ORDER BY "nextAttemptAt", "id" LIMIT Batch FOR UPDATE SKIP LOCKED; the ids
\* do not tell which of two rows of one instant comes first.
FirstDue(T) ==
  LET due == {t \in Txns \ Locked : Due(t)} IN
  /\ T \subseteq due
  /\ Cardinality(T) = (IF Cardinality(due) < Batch THEN Cardinality(due) ELSE Batch)
  /\ \A t \in T, u \in due \ T : wait[t] <= wait[u]

\* The claim is committed before its rows are scanned.  One row that does not
\* rehydrate, or a lost answer, fails the pass, and the rows stay leased.
Claim(w) ==
  /\ pc[w] = "idle"
  /\ \E T \in SUBSET Txns :
       /\ T # {} /\ FirstDue(T)
       /\ lease' = [t \in Txns |-> IF t \in T THEN Lease ELSE lease[t]]
       /\ \/ /\ T \cap corrupt = {}
             /\ batch' = [batch EXCEPT ![w] = T]
             /\ pc' = [pc EXCEPT ![w] = "batch"]
             /\ UNCHANGED <<current, faults>>
          \/ T \cap corrupt # {} /\ UNCHANGED <<procs, faults>>
          \/ Fault /\ UNCHANGED procs
  /\ UNCHANGED <<state, wait, attempts, remaining, inputs>>

-------------------------------------------------------------------------------
(* A pass                                                                  *)

\* ResolvePendingReference locks the row first; it waits for another worker.
Lock(w) ==
  /\ pc[w] = "batch"
  /\ \E t \in batch[w] \ Locked :
       /\ current' = [current EXCEPT ![w] = t]
       /\ batch' = [batch EXCEPT ![w] = @ \ {t}]
  /\ pc' = [pc EXCEPT ![w] = "locked"]
  /\ UNCHANGED <<state, columns, inputs, faults>>

\* The row is unlocked, and the worker goes on with the next one.
Unlock(w) ==
  /\ current' = [current EXCEPT ![w] = NoTxn]
  /\ pc' = [pc EXCEPT ![w] = IF batch[w] = {} THEN "idle" ELSE "batch"]
  /\ UNCHANGED batch

\* A terminal outcome clears the schedule.
End(t) ==
  /\ state' = [state EXCEPT ![t] = "terminal"]
  /\ wait' = [wait EXCEPT ![t] = 0]
  /\ lease' = [lease EXCEPT ![t] = Unclaimed]
  /\ attempts' = [attempts EXCEPT ![t] = 0]
  /\ remaining' = [remaining EXCEPT ![t] = 0]

RetryUncounted(t) ==
  /\ \E d \in Delays(attempts[t]) : wait' = [wait EXCEPT ![t] = d]
  /\ attempts' = [attempts EXCEPT ![t] = @ + 1]
  /\ lease' = [lease EXCEPT ![t] = Unclaimed]
  /\ UNCHANGED <<state, remaining>>

\* rescheduleReference and RescheduleReference.
Retry(t) ==
  /\ \E d \in Delays(attempts[t] + 1) : wait' = [wait EXCEPT ![t] = d]
  /\ attempts' = [attempts EXCEPT ![t] = @ + 1]
  /\ lease' = [lease EXCEPT ![t] = Unclaimed]
  /\ UNCHANGED <<state, remaining>>

RolledBack == UNCHANGED <<state, columns>>

\* The rest of ResolvePendingReference: a row that does not rehydrate fails the
\* call, a terminal one is left alone; a reference that can be resolved ends the
\* wait, and so does the deadline.  The worker goes on whatever the outcome.  A
\* credit that does not fit its wallet, which fails each time, is left to
\* WagerService.
Resolve(w) ==
  LET t == current[w] IN
  /\ pc[w] = "locked"
  /\ \/ t \in corrupt /\ RolledBack /\ UNCHANGED faults
     \/ t \notin corrupt /\ state[t] = "terminal" /\ RolledBack /\ UNCHANGED faults
     \/ /\ t \notin corrupt /\ state[t] = "waiting"
        /\ IF t \in found \/ remaining[t] = 0 THEN End(t) ELSE Retry(t)
        /\ UNCHANGED faults
     \/ RolledBack /\ Fault
  /\ Unlock(w)
  /\ UNCHANGED inputs

\* The process stops or dies; its claims stay as they are.
Crash(w) ==
  /\ pc[w] # "idle" /\ Fault
  /\ pc' = [pc EXCEPT ![w] = "idle"]
  /\ batch' = [batch EXCEPT ![w] = {}]
  /\ current' = [current EXCEPT ![w] = NoTxn]
  /\ UNCHANGED <<state, columns, inputs>>

Held == UNION {batch[w] \cup {current[w]} : w \in Workers}

\* One unit of time passes.  A lease that lapses while a worker still has the
\* row counts as a fault: its pass took longer than the lease.
Tick ==
  /\ wait' = [t \in Txns |->
                IF state[t] = "waiting" /\ wait[t] > -Horizon
                THEN wait[t] - 1 ELSE wait[t]]
  /\ lease' = [t \in Txns |-> IF lease[t] > 0 THEN lease[t] - 1 ELSE lease[t]]
  /\ remaining' = [t \in Txns |->
                     IF state[t] = "waiting" /\ remaining[t] > 0
                     THEN remaining[t] - 1 ELSE remaining[t]]
  /\ IF \E t \in Held \cap Txns : lease[t] = 1 THEN Fault ELSE UNCHANGED faults
  /\ UNCHANGED <<state, attempts, inputs, procs>>

Next ==
  \/ \E t \in Txns : Accept(t) \/ Arrive(t) \/ Damage(t)
  \/ \E w \in Workers : Claim(w) \/ Lock(w) \/ Resolve(w) \/ Crash(w)
  \/ Tick

\* Every instance runs its worker (Run), row locks are queues, time passes.
Fairness ==
  /\ WF_vars(Tick)
  /\ \A w \in Workers :
       WF_vars(Claim(w)) /\ SF_vars(Lock(w)) /\ WF_vars(Resolve(w))

Spec == Init /\ [][Next]_vars /\ Fairness

-------------------------------------------------------------------------------
(* Properties                                                              *)

\* The cap and the jitter on it (backoff_test.go:24).
LongestDelay == BackoffCap + BackoffCap \div JitterDenominator

\* In particular no attempt is scheduled further ahead than the longest delay.
TypeOK ==
  /\ state \in [Txns -> {"absent", "waiting", "terminal"}]
  /\ wait \in [Txns -> -Horizon..LongestDelay]
  /\ lease \in [Txns -> {Unclaimed} \cup 0..Lease]
  /\ attempts \in [Txns -> Nat]
  /\ remaining \in [Txns -> 0..Ttl]
  /\ found \subseteq Txns /\ corrupt \subseteq Txns
  /\ pc \in [Workers -> {"idle", "batch", "locked"}]
  /\ batch \in [Workers -> SUBSET Txns]
  /\ current \in [Workers -> Txns \cup {NoTxn}]
  /\ faults \in 0..MaxFaults

\* The workers that have t claimed or locked.
Owners(t) == {w \in Workers : t \in batch[w] \cup {current[w]}}

\* A lease gives a transaction to one worker, and any other one that has it is paid
\* for by a fault: by a pass that outlived its lease, for a claim has no number
\* that could tell the two apart.  Without faults, a transaction is in the hands of
\* one worker at a time, and only under a lease (plan.md AC 225).
OneOwner ==
  \A t \in Txns :
    Cardinality(Owners(t)) <= faults + (IF lease[t] > 0 THEN 1 ELSE 0)

\* The least time n retries take: the first comes one delay after acceptance.
TimeOf(n) ==
  LET total[i \in Nat] == IF i = 0 THEN 0 ELSE total[i - 1] + Backoff(i - 1)
  IN  total[n]

\* No retry storm: the attempts of a waiting transaction are spread over its time
\* as the backoff has it, except for at most one for each fault, as when two
\* workers resolve it from their batches one after the other (plan.md AC 84).
NoRetryStorm ==
  \A t \in Txns :
    (state[t] = "waiting" /\ attempts[t] >= faults) =>
      Ttl - remaining[t] >= TimeOf(attempts[t] - faults)

\* Where no row is damaged every accepted transaction ends, at the latest after
\* its deadline, whichever instances stop while they have it claimed (AC 87).
WaitingEnds ==
  \A t \in Txns : state[t] = "waiting" ~> (state[t] = "terminal" \/ corrupt # {})

\* The same where a row is damaged: its neighbours still expire at their
\* deadline, as plan.md:208 (AC 87) has it.
ExpiryHappens ==
  \A t \in Txns :
    (state[t] = "waiting" /\ remaining[t] = 0)
      ~> (state[t] = "terminal" \/ t \in corrupt)
===================================================================================
