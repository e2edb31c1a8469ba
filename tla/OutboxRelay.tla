------------------------------- MODULE OutboxRelay -------------------------------
(***************************************************************************)
(* The outbox publishers (internal/adapters/outbox/publisher.go) over the  *)
(* table outbox_events and the FIFO queue wager-events.fifo.  Each         *)
(* instance runs one publisher, which repeats a pass: claim a batch of due *)
(* events under a lease, send each, and confirm or reschedule it.  A row   *)
(* carries no owner: the number of its claim (attempts) stands for one.    *)
(*                                                                         *)
(*   publisher: idle -> sending -> confirm | reschedule -> sending ...     *)
(*                                                                         *)
(* Times are distances from now: wait[e] is nextAttemptAt - now and        *)
(* lease[e] is claimedUntil - now, and Tick moves them all.  All instances *)
(* read one clock.                                                         *)
(***************************************************************************)
EXTENDS Integers, FiniteSets, Functions, SequencesExt

CONSTANTS
  Events,        \* the event snapshots
  AggregateOf,   \* the wallet of each event
  Emissions,     \* the event sequences that financial transactions insert
  Publishers,    \* one per running instance
  Batch,         \* the largest claimed batch
  Lease,         \* how long a claimed batch stays owned
  BackoffBase,   \* the first retry delay
  BackoffCap,    \* the largest retry delay
  DedupWindow,   \* how long the queue remembers a MessageDeduplicationId
  Horizon,       \* bound: overdue events are told apart up to this distance
  MaxFaults      \* bound: failed calls, crashes and lapses of held leases

ASSUME RelayAssumptions ==
  /\ Events # {}
  /\ Emissions \subseteq Seq(Events)
  /\ \A s \in Emissions : s # <<>> /\ IsInjective(s)
  /\ {Batch, Lease, BackoffBase, BackoffCap} \subseteq Nat \ {0}
  /\ {DedupWindow, Horizon, MaxFaults} \subseteq Nat

VARIABLES
  commits,    \* the events of outbox_events, in the order of their commits
  wait,       \* their publication columns: nextAttemptAt,
  lease,      \*   claimedUntil,
  attempts,   \*   attempts
  published,  \*   and publishedAt # NULL
  log,        \* what the event queue holds or has handed out, oldest first
  age,        \* the time since the queue last took each event
  pc,         \* where each publisher is
  batch,      \* the claimed records a publisher has not finished
  current,    \* the record it is sending
  elapsed,    \* the time since its pass began: now - pass start
  faults      \* how many faults have happened

columns == <<wait, lease, attempts, published>>
queue   == <<log, age>>
procs   == <<pc, batch, current, elapsed>>
vars    == <<commits, columns, queue, procs, faults>>

Unclaimed == -1
Records   == [event : Events, attempts : Nat]
NoRecord  == [event |-> CHOOSE e \in Events : TRUE, attempts |-> 0]

Init ==
  /\ commits = <<>> /\ log = <<>>
  /\ wait = [e \in Events |-> 0]
  /\ lease = [e \in Events |-> Unclaimed]
  /\ attempts = [e \in Events |-> 0]
  /\ published = [e \in Events |-> FALSE]
  /\ age = [e \in Events |-> DedupWindow]
  /\ pc = [p \in Publishers |-> "idle"]
  /\ batch = [p \in Publishers |-> {}]
  /\ current = [p \in Publishers |-> NoRecord]
  /\ elapsed = [p \in Publishers |-> 0]
  /\ faults = 0

Stored == Range(commits)

(***************************************************************************)
(* Rows                                                                    *)
(***************************************************************************)

(* A financial transaction commits its events.  Their createdAt, and so    *)
(* their first nextAttemptAt, is the instant the transaction began, which  *)
(* may lie lag before the commit: it waited for its wallet since.          *)
CommitEvents ==
  /\ \E s \in Emissions, lag \in 0..Horizon :
       /\ Range(s) \cap Stored = {}
       /\ commits' = commits \o s
       /\ wait' = [e \in Events |-> IF e \in Range(s) THEN -lag ELSE wait[e]]
  /\ UNCHANGED <<lease, attempts, published, queue, procs, faults>>

Pending == {e \in Stored : ~published[e]}

DueLeased(e) == e \in Pending /\ wait[e] <= 0

DueUnclaimed(e) == e \in Pending /\ wait[e] <= 0 /\ lease[e] = Unclaimed

(* "claimedUntil" IS NULL OR "claimedUntil" <= now.                        *)
Due(e) == e \in Pending /\ wait[e] <= 0 /\ lease[e] <= 0

(* ORDER BY "nextAttemptAt", "eventId" LIMIT Batch; ids do not tell which  *)
(* of two events of one instant comes first.                               *)
FirstDue(E) ==
  LET due == {e \in Events : Due(e)} IN
  /\ E \subseteq due
  /\ Cardinality(E) = (IF Cardinality(due) < Batch THEN Cardinality(due) ELSE Batch)
  /\ \A e \in E, f \in due \ E : wait[e] <= wait[f]

LeaseUncounted(E) ==
  /\ lease' = [e \in Events |-> IF e \in E THEN Lease ELSE lease[e]]
  /\ UNCHANGED <<wait, attempts, published>>

(* The update of ClaimDueEvents.                                           *)
LeaseRows(E) ==
  /\ lease' = [e \in Events |-> IF e \in E THEN Lease ELSE lease[e]]
  /\ attempts' = [e \in Events |-> IF e \in E THEN attempts[e] + 1 ELSE attempts[e]]
  /\ UNCHANGED <<wait, published>>

HoldsAnyLease(r) == ~published[r.event] /\ lease[r.event] # Unclaimed

(* WHERE of ConfirmEvent and RescheduleEvent: the record's claim is still  *)
(* the last one of its row and has not been released.                      *)
HoldsLease(r) ==
  /\ ~published[r.event]
  /\ lease[r.event] # Unclaimed
  /\ attempts[r.event] = r.attempts

MarkPublished(r) ==
  /\ published' = [published EXCEPT ![r.event] = TRUE]
  /\ lease' = [lease EXCEPT ![r.event] = Unclaimed]
  /\ UNCHANGED <<wait, attempts>>

BackoffUncapped(claims) ==
  LET delay[n \in Nat] == IF n <= 1 THEN BackoffBase ELSE 2 * delay[n - 1]
  IN  delay[claims]

(* 1s doubled per attempt up to the cap.                                   *)
Backoff(claims) ==
  LET delay[n \in Nat] == IF n <= 1 THEN BackoffBase
                          ELSE IF 2 * delay[n - 1] >= BackoffCap THEN BackoffCap
                          ELSE 2 * delay[n - 1]
  IN  delay[claims]

RetryOnce(r, since) ==
  /\ wait' = [wait EXCEPT ![r.event] = Backoff(r.attempts) - since]
  /\ lease' = [lease EXCEPT ![r.event] = Unclaimed]
  /\ published' = [published EXCEPT ![r.event] = r.attempts >= 1]
  /\ UNCHANGED attempts

(* now.Add(Backoff(attempts)) with now read when the pass began.           *)
RetryLater(r, since) ==
  /\ wait' = [wait EXCEPT ![r.event] = Backoff(r.attempts) - since]
  /\ lease' = [lease EXCEPT ![r.event] = Unclaimed]
  /\ UNCHANGED <<attempts, published>>

(***************************************************************************)
(* The event queue                                                         *)
(***************************************************************************)

(* A FIFO queue drops a message whose MessageDeduplicationId it took less  *)
(* than DedupWindow ago.                                                   *)
Take(e) ==
  IF age[e] < DedupWindow
  THEN UNCHANGED queue
  ELSE /\ log' = Append(log, e)
       /\ age' = [age EXCEPT ![e] = 0]

(***************************************************************************)
(* A pass of publisher p                                                   *)
(***************************************************************************)
Fault == faults < MaxFaults /\ faults' = faults + 1

(* The pass ends: nothing it still had in hand is released.                *)
EndPass(p) ==
  /\ pc' = [pc EXCEPT ![p] = "idle"]
  /\ batch' = [batch EXCEPT ![p] = {}]
  /\ current' = [current EXCEPT ![p] = NoRecord]
  /\ elapsed' = [elapsed EXCEPT ![p] = 0]

Claim(p) ==
  /\ pc[p] = "idle"
  /\ \E E \in SUBSET Events :
       /\ E # {} /\ FirstDue(E)
       /\ LeaseRows(E)
       /\ \/ /\ batch' = [batch EXCEPT ![p] =
                            {[event |-> e, attempts |-> attempts'[e]] : e \in E}]
             /\ pc' = [pc EXCEPT ![p] = "sending"]
             /\ UNCHANGED <<current, elapsed, faults>>
          \/ Fault /\ UNCHANGED procs      \* committed, but the answer was lost
  /\ UNCHANGED <<commits, queue>>

(* The order of the records is that of UPDATE ... RETURNING: any.  An      *)
(* error of Publish says nothing of whether the queue took the event.      *)
Publish(p) ==
  /\ pc[p] = "sending"
  /\ \E r \in batch[p] :
       /\ current' = [current EXCEPT ![p] = r]
       /\ \/ /\ Take(r.event)
             /\ pc' = [pc EXCEPT ![p] = "confirm"]
             /\ UNCHANGED faults
          \/ /\ Fault
             /\ Take(r.event) \/ UNCHANGED queue
             /\ pc' = [pc EXCEPT ![p] = "reschedule"]
  /\ UNCHANGED <<commits, columns, batch, elapsed>>

(* The next record of the batch, or the end of the pass.                   *)
NextRecord(p) ==
  LET rest == batch[p] \ {current[p]} IN
  IF rest = {} THEN EndPass(p)
  ELSE /\ pc' = [pc EXCEPT ![p] = "sending"]
       /\ batch' = [batch EXCEPT ![p] = rest]
       /\ current' = [current EXCEPT ![p] = NoRecord]
       /\ UNCHANGED elapsed

Confirm(p) ==
  /\ pc[p] = "confirm"
  /\ IF HoldsLease(current[p]) THEN MarkPublished(current[p]) ELSE UNCHANGED columns
  /\ NextRecord(p)
  /\ UNCHANGED <<commits, queue, faults>>

Reschedule(p) ==
  /\ pc[p] = "reschedule"
  /\ IF HoldsLease(current[p]) THEN RetryLater(current[p], elapsed[p])
     ELSE UNCHANGED columns
  /\ NextRecord(p)
  /\ UNCHANGED <<commits, queue, faults>>

(* ConfirmEvent or RescheduleEvent returns a database error, whether or    *)
(* not it was applied: the pass is given up with the rest of its batch.    *)
(* A crash, or a cancelled context between two records, does the same.     *)
GiveUp(p) ==
  /\ pc[p] # "idle"
  /\ Fault
  /\ \/ UNCHANGED columns
     \/ /\ pc[p] = "confirm" /\ HoldsLease(current[p])
        /\ MarkPublished(current[p])
     \/ /\ pc[p] = "reschedule" /\ HoldsLease(current[p])
        /\ RetryLater(current[p], elapsed[p])
  /\ EndPass(p)
  /\ UNCHANGED <<commits, queue>>

(***************************************************************************)
(* Time                                                                    *)
(***************************************************************************)
Held == {r.event : r \in UNION Range(batch)}

(* One unit of time passes.  A lease that lapses in the hands of a         *)
(* publisher counts as a fault: its pass took longer than the lease.       *)
Tick ==
  /\ wait' = [e \in Events |->
                IF e \in Pending /\ wait[e] > -Horizon THEN wait[e] - 1 ELSE wait[e]]
  /\ lease' = [e \in Events |-> IF lease[e] > 0 THEN lease[e] - 1 ELSE lease[e]]
  /\ age' = [e \in Events |-> IF age[e] < DedupWindow THEN age[e] + 1 ELSE age[e]]
  /\ elapsed' = [p \in Publishers |->
                   IF pc[p] # "idle" /\ elapsed[p] < BackoffCap + Horizon
                   THEN elapsed[p] + 1 ELSE elapsed[p]]
  /\ IF \E e \in Held : lease[e] = 1 THEN Fault ELSE UNCHANGED faults
  /\ UNCHANGED <<commits, attempts, published, log, pc, batch, current>>

Next ==
  \/ CommitEvents
  \/ \E p \in Publishers : Claim(p) \/ Publish(p) \/ Confirm(p) \/ Reschedule(p) \/ GiveUp(p)
  \/ Tick

(* Every instance runs its publisher until it is stopped (Run), and time   *)
(* passes.                                                                 *)
Fairness ==
  /\ WF_vars(Tick)
  /\ \A p \in Publishers :
       /\ WF_vars(Claim(p))
       /\ WF_vars(Publish(p))
       /\ WF_vars(Confirm(p))
       /\ WF_vars(Reschedule(p))

Spec == Init /\ [][Next]_vars /\ Fairness

(***************************************************************************)
(* Properties                                                              *)
(***************************************************************************)
LongestDelay == IF BackoffBase > BackoffCap THEN BackoffBase ELSE BackoffCap

(* In particular no attempt is put off for longer than the longest delay.  *)
TypeOK ==
  /\ commits \in Seq(Events)
  /\ wait \in [Events -> -(BackoffCap + Horizon)..LongestDelay]
  /\ lease \in [Events -> {Unclaimed} \cup 0..Lease]
  /\ attempts \in [Events -> Nat]
  /\ published \in [Events -> BOOLEAN]
  /\ log \in Seq(Events)
  /\ age \in [Events -> 0..DedupWindow]
  /\ pc \in [Publishers -> {"idle", "sending", "confirm", "reschedule"}]
  /\ batch \in [Publishers -> SUBSET Records]
  /\ current \in [Publishers -> Records]
  /\ elapsed \in [Publishers -> 0..(BackoffCap + Horizon)]
  /\ faults \in 0..MaxFaults

(* The number of a claim stands for its owner: no two publishers hold the  *)
(* same claim of an event, and a row carries the number of its last claim  *)
(* (ClaimDueEvents, outbox_publisher.go:15-47).                            *)
OneHolder ==
  /\ \A p, q \in Publishers : p # q => batch[p] \cap batch[q] = {}
  /\ \A p \in Publishers : \A r \in batch[p] :
       /\ r.event \in Stored
       /\ r.attempts \in 1..attempts[r.event]

Columns(e) == <<wait[e], lease[e], attempts[e], published[e]>>

(* A publisher that lost its lease neither confirms nor reschedules a row  *)
(* that another one has claimed since (outbox_test.go:293).                *)
LeaseFence ==
  [][\A p \in Publishers : \A r \in batch[p] \ batch'[p] :
       r.attempts < attempts[r.event] => Columns(r.event)' = Columns(r.event)]_vars

(* An event is called published only after the queue took it, and neither  *)
(* is ever undone: nothing is discarded (publisher.go:1-2).                *)
StageOf(e) == IF e \notin Stored THEN "absent"
              ELSE IF published[e] THEN "published"
              ELSE IF e \in Range(log) THEN "accepted"
              ELSE "stored"

Stage == [e \in Events |-> StageOf(e)]

Delivery == INSTANCE EventDelivery WITH stage <- Stage
DeliverySpec == Delivery!Spec

Copies(e) == {n \in DOMAIN log : log[n] = e}

(* Consumers of the queue see each event once, and once more at most for   *)
(* each fault: SKIP LOCKED and the lease keep the publishers apart, unless *)
(* a call fails, an instance stops or a pass outlives its lease            *)
(* (outbox_publisher.go:13-14).                                            *)
DuplicatesCostFaults == \A e \in Events : Cardinality(Copies(e)) <= 1 + faults

(* Every committed event is published in the end, however often sending    *)
(* it failed and whichever instances stopped while they had it leased      *)
(* (plan.md AC 146 and 147).                                               *)
AllPublished == \A e \in Events : e \in Stored ~> published[e]

(* plan.md:631: the events of one wallet reach the queue in the order in   *)
(* which they were committed, those of one transaction included.           *)
OrderByWallet ==
  \A i, j \in DOMAIN commits :
    /\ i < j
    /\ AggregateOf[commits[i]] = AggregateOf[commits[j]]
    /\ commits[j] \in Range(log)
    => /\ commits[i] \in Range(log)
       /\ SelectInSeq(log, LAMBDA e : e = commits[i])
            < SelectInSeq(log, LAMBDA e : e = commits[j])
================================================================================
