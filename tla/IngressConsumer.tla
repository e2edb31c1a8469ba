----------------------------- MODULE IngressConsumer -----------------------------
(***************************************************************************)
(* The consumers of the FIFO queue wager-transactions.fifo                 *)
(* (internal/adapters/sqs/consumer/consumer.go), one per instance, with    *)
(* the queue, its redrive to the dead-letter queue, and the use case       *)
(* SubmitWagerFromInbox taken for what it promises (WagerService): it      *)
(* commits a delivery at most once and answers later ones as duplicates.   *)
(*                                                                         *)
(*   consumer: idle -> batch -> submit -> settle -> batch ... -> idle      *)
(*             batch -> settle (malformed message)                         *)
(*                                                                         *)
(* There is no clock.  A received message is in flight until its handle    *)
(* changes that or its visibility lapses; renewal (every 20 s against 60 s)*)
(* keeps the visibility of the message being processed from lapsing.       *)
(***************************************************************************)
EXTENDS Integers, FiniteSets, Functions, SequencesExt

CONSTANTS
  Messages,      \* a set of integers: the order in which they were sent
  WalletOf,      \* the MessageGroupId of each message
  Fate,          \* "valid", "malformed", or "refused" by the use case for good
  Consumers,     \* one per running instance
  ReceiveBatch,  \* the largest received batch
  MaxReceive,    \* maxReceiveCount of the redrive policy
  MaxFaults      \* bound: failed calls, crashes, stops and untimely lapses

ASSUME ConsumerAssumptions ==
  /\ Messages \subseteq Int
  /\ Fate \in [Messages -> {"valid", "malformed", "refused"}]
  /\ {ReceiveBatch, MaxReceive} \subseteq Nat \ {0}
  /\ MaxFaults \in Nat

VARIABLES
  place,      \* where the broker keeps each message
  inFlight,   \* the messages of the queue nobody else can receive
  receives,   \* ApproximateReceiveCount; it also names the receipt handle
  done,       \* the deliveries the database has committed
  orphans,    \* deliveries whose submission outlived its consumer's wait
  pc,         \* where each consumer is
  todo,       \* the received messages it has not finished, with their handles
  outcome,    \* the outcome of the message at the head of todo
  renewing,   \* whether the renewal of that message is alive
  stopping,   \* its context is cancelled
  faults      \* how many faults have happened

broker    == <<place, inFlight, receives>>
database  == <<done, orphans>>
consumers == <<pc, todo, outcome, renewing, stopping>>
vars      == <<broker, database, consumers, faults>>

Handles  == [msg : Messages, handle : Nat]
Outcomes == {"none", "durable", "transient", "permanent", "timedOut"}

Init ==
  /\ place = [m \in Messages |-> "queue"]
  /\ inFlight = {}
  /\ receives = [m \in Messages |-> 0]
  /\ done = {} /\ orphans = {}
  /\ pc = [c \in Consumers |-> "idle"]
  /\ todo = [c \in Consumers |-> <<>>]
  /\ outcome = [c \in Consumers |-> "none"]
  /\ renewing = [c \in Consumers |-> FALSE]
  /\ stopping = [c \in Consumers |-> FALSE]
  /\ faults = 0

Fault == faults < MaxFaults /\ faults' = faults + 1

(***************************************************************************)
(* The broker                                                              *)
(***************************************************************************)
Queued == {m \in Messages : place[m] = "queue"}

SameGroup(m, n) == WalletOf[m] = WalletOf[n]

(* No message of its group is in flight.                                   *)
Unblocked(m) == \A n \in inFlight : ~SameGroup(m, n)

Earlier(m) == {n \in Queued : n < m /\ SameGroup(m, n)}

(* A batch the queue may hand out: of each group a prefix of what it holds *)
Receivable(s) ==
  LET M == Range(s) IN
  /\ IsInjective(s)
  /\ M \subseteq Queued
  /\ \A m \in M : Unblocked(m) /\ receives[m] < MaxReceive /\ Earlier(m) \subseteq M
  /\ \A i, j \in DOMAIN s : i < j /\ SameGroup(s[i], s[j]) => s[i] < s[j]

Batches == UNION {[1..n -> Messages] : n \in 1..ReceiveBatch}

(* A handle acts on its message while it is the latest one and in flight.  *)
Valid(h) == h.msg \in inFlight /\ receives[h.msg] = h.handle

(* ChangeMessageVisibility to zero makes the message visible at once.      *)
MakeVisible(h) ==
  /\ inFlight' = IF Valid(h) THEN inFlight \ {h.msg} ELSE inFlight
  /\ UNCHANGED <<place, receives>>

DeleteMessage(h) ==
  /\ place' = IF Valid(h) THEN [place EXCEPT ![h.msg] = "deleted"] ELSE place
  /\ inFlight' = IF Valid(h) THEN inFlight \ {h.msg} ELSE inFlight
  /\ UNCHANGED receives

Current(c) == Head(todo[c])

Waiting(c) == todo[c] # <<>> /\ pc[c] # "batch"

(* A consumer is processing the message under its latest handle and        *)
(* renewing its visibility.                                                *)
Renewed(m) ==
  \E c \in Consumers : /\ Waiting(c) /\ renewing[c]
                       /\ Current(c) = [msg |-> m, handle |-> receives[m]]

InHand(m) ==
  \E c \in Consumers : [msg |-> m, handle |-> receives[m]] \in Range(todo[c])

(* The visibility of a message ends.  One still in the hands of a consumer *)
(* waits behind a slow one of its batch, or has lost its renewal.          *)
Lapse(m) ==
  /\ m \in inFlight
  /\ ~Renewed(m)
  /\ IF InHand(m) THEN Fault ELSE UNCHANGED faults
  /\ inFlight' = inFlight \ {m}
  /\ UNCHANGED <<place, receives, database, consumers>>

(* A message that was received MaxReceive times leaves for the dead-letter *)
(* queue when it would be received again.                                  *)
Redrive(m) ==
  /\ m \in Queued \ inFlight
  /\ Unblocked(m)
  /\ receives[m] = MaxReceive
  /\ Earlier(m) = {}
  /\ place' = [place EXCEPT ![m] = "deadLetter"]
  /\ UNCHANGED <<inFlight, receives, database, consumers, faults>>

(***************************************************************************)
(* A consumer                                                              *)
(***************************************************************************)
HandOut(s) ==
  /\ inFlight' = inFlight \cup Range(s)
  /\ receives' = [m \in Messages |-> IF m \in Range(s) THEN receives[m] + 1 ELSE receives[m]]
  /\ UNCHANGED place

(* PollOnce receives a batch; the answer of the queue may be lost.         *)
Receive(c) ==
  /\ pc[c] = "idle" /\ ~stopping[c]
  /\ \E s \in Batches :
       /\ Receivable(s)
       /\ HandOut(s)
       /\ \/ /\ todo' = [todo EXCEPT ![c] =
                           [i \in DOMAIN s |-> [msg |-> s[i], handle |-> receives'[s[i]]]]]
             /\ pc' = [pc EXCEPT ![c] = "batch"]
             /\ UNCHANGED faults
          \/ Fault /\ UNCHANGED <<pc, todo>>
  /\ UNCHANGED <<database, outcome, renewing, stopping>>

(* ParseEnvelope and Command refuse the message, or the sender may not use *)
(* its provider.                                                           *)
Malformed(m) == Fate[m] = "malformed"

(* process: renewal starts, the body is parsed and its sender checked.     *)
Start(c) ==
  /\ pc[c] = "batch" /\ todo[c] # <<>> /\ ~stopping[c]
  /\ renewing' = [renewing EXCEPT ![c] = TRUE]
  /\ IF Malformed(Current(c).msg)
     THEN /\ pc' = [pc EXCEPT ![c] = "settle"]
          /\ outcome' = [outcome EXCEPT ![c] = "permanent"]
     ELSE /\ pc' = [pc EXCEPT ![c] = "submit"]
          /\ UNCHANGED outcome
  /\ UNCHANGED <<broker, database, todo, stopping, faults>>

EndWholeBatch(c) ==
  /\ pc[c] = "batch" /\ todo[c] = <<>>
  /\ pc' = [pc EXCEPT ![c] = "idle"]
  /\ UNCHANGED <<broker, database, todo, outcome, renewing, stopping, faults>>

(* The batch is finished, or the context was cancelled before the next of  *)
(* its messages: PollOnce returns (consumer.go:149-152).                   *)
EndBatch(c) ==
  /\ pc[c] = "batch"
  /\ todo[c] = <<>> \/ stopping[c]
  /\ todo' = [todo EXCEPT ![c] = <<>>]
  /\ pc' = [pc EXCEPT ![c] = "idle"]
  /\ UNCHANGED <<broker, database, outcome, renewing, stopping, faults>>

(* The use case answers.  A cancelled context fails it, and so may any     *)
(* fault; in both cases the commit may have gone through all the same.     *)
Submit(c) ==
  LET m == Current(c).msg
      refused == Fate[m] = "refused"
  IN
  /\ pc[c] = "submit"
  /\ pc' = [pc EXCEPT ![c] = "settle"]
  /\ \/ /\ ~refused
        /\ done' = done \cup {m}
        /\ outcome' = [outcome EXCEPT ![c] = "durable"]
        /\ UNCHANGED <<orphans, faults>>
     \/ /\ refused
        /\ outcome' = [outcome EXCEPT ![c] = "permanent"]
        /\ UNCHANGED <<database, faults>>
     \/ /\ outcome' = [outcome EXCEPT ![c] = "transient"]
        /\ \/ UNCHANGED done
           \/ ~refused /\ done' = done \cup {m}
        /\ IF stopping[c] THEN UNCHANGED faults ELSE Fault
        /\ UNCHANGED orphans
     \/ /\ stopping[c]
        /\ outcome' = [outcome EXCEPT ![c] = "timedOut"]
        /\ orphans' = IF refused THEN orphans ELSE orphans \cup {m}
        /\ UNCHANGED <<done, faults>>
  /\ UNCHANGED <<broker, todo, renewing, stopping>>

(* A submission nobody waits for any more commits, or fails.               *)
OrphanEnds(m) ==
  /\ m \in orphans
  /\ orphans' = orphans \ {m}
  /\ \/ UNCHANGED done
     \/ done' = done \cup {m}
  /\ UNCHANGED <<broker, consumers, faults>>

KeepMessage(c) == pc[c] = "settle" /\ UNCHANGED <<broker, faults>>

(* What process does to the message once its outcome is known.  The delete *)
(* runs under the consumer's own context: once that is cancelled the call  *)
(* never leaves.  The visibility calls outlive the context.                *)
Acknowledge(c) ==
  IF stopping[c] THEN UNCHANGED <<broker, faults>>
  ELSE \/ DeleteMessage(Current(c)) /\ (UNCHANGED faults \/ Fault)
       \/ UNCHANGED broker /\ Fault

Release(c) ==
  \/ MakeVisible(Current(c)) /\ UNCHANGED faults
  \/ UNCHANGED broker /\ Fault

(* A backed-off message stays in flight until its delay, or its visibility *)
(* timeout at the last receive, lapses.                                    *)
Backoff == UNCHANGED <<broker, faults>>

SettleByDeleting(c) ==
  /\ pc[c] = "settle"
  /\ IF outcome[c] = "transient" THEN Backoff ELSE Acknowledge(c)
  /\ todo' = [todo EXCEPT ![c] = Tail(@)]
  /\ outcome' = [outcome EXCEPT ![c] = "none"]
  /\ renewing' = [renewing EXCEPT ![c] = FALSE]
  /\ pc' = [pc EXCEPT ![c] = "batch"]
  /\ UNCHANGED <<database, stopping>>

Settle(c) ==
  /\ pc[c] = "settle"
  /\ CASE outcome[c] = "durable" -> Acknowledge(c)
       [] outcome[c] = "transient" /\ ~stopping[c] -> Backoff
       [] OTHER -> Release(c)
  /\ todo' = [todo EXCEPT ![c] = Tail(@)]
  /\ outcome' = [outcome EXCEPT ![c] = "none"]
  /\ renewing' = [renewing EXCEPT ![c] = FALSE]
  /\ pc' = [pc EXCEPT ![c] = "batch"]
  /\ UNCHANGED <<database, stopping>>

(* A failed renewal is the last one (consumer.go:310).                     *)
RenewalFails(c) ==
  /\ renewing[c] /\ Fault
  /\ renewing' = [renewing EXCEPT ![c] = FALSE]
  /\ UNCHANGED <<broker, database, pc, todo, outcome, stopping>>

(* SIGTERM cancels the context of Run, and with it the renewal.            *)
Stop(c) ==
  /\ ~stopping[c] /\ Fault
  /\ stopping' = [stopping EXCEPT ![c] = TRUE]
  /\ renewing' = [renewing EXCEPT ![c] = FALSE]
  /\ UNCHANGED <<broker, database, pc, todo, outcome>>

Reset(c) ==
  /\ pc' = [pc EXCEPT ![c] = "idle"]
  /\ todo' = [todo EXCEPT ![c] = <<>>]
  /\ outcome' = [outcome EXCEPT ![c] = "none"]
  /\ renewing' = [renewing EXCEPT ![c] = FALSE]
  /\ stopping' = [stopping EXCEPT ![c] = FALSE]

(* A stopped instance is started again.                                    *)
Restart(c) ==
  /\ stopping[c] /\ pc[c] = "idle"
  /\ Reset(c)
  /\ UNCHANGED <<broker, database, faults>>

(* An instance dies and is started again.                                  *)
Crash(c) ==
  /\ pc[c] # "idle" /\ Fault
  /\ Reset(c)
  /\ \/ UNCHANGED done
     \/ /\ pc[c] = "submit" /\ Fate[Current(c).msg] = "valid"
        /\ done' = done \cup {Current(c).msg}
  /\ UNCHANGED <<broker, orphans>>

Next ==
  \/ \E m \in Messages : Lapse(m) \/ Redrive(m) \/ OrphanEnds(m)
  \/ \E c \in Consumers :
       \/ Receive(c) \/ Start(c) \/ Submit(c) \/ Settle(c) \/ EndBatch(c)
       \/ RenewalFails(c) \/ Stop(c) \/ Restart(c) \/ Crash(c)

(* Run polls and processes until it is stopped; a stopped instance comes   *)
(* back; visibility lapses and the redrive policy applies in time.         *)
Fairness ==
  /\ \A m \in Messages : WF_vars(Lapse(m)) /\ WF_vars(Redrive(m))
  /\ \A c \in Consumers :
       /\ WF_vars(Receive(c)) /\ WF_vars(Start(c)) /\ WF_vars(Submit(c))
       /\ WF_vars(Settle(c)) /\ WF_vars(EndBatch(c)) /\ WF_vars(Restart(c))

Spec == Init /\ [][Next]_vars /\ Fairness

(***************************************************************************)
(* Properties                                                              *)
(***************************************************************************)
TypeOK ==
  /\ place \in [Messages -> {"queue", "deleted", "deadLetter"}]
  /\ inFlight \subseteq Queued
  /\ receives \in [Messages -> 0..MaxReceive]
  /\ done \subseteq Messages /\ orphans \subseteq Messages
  /\ pc \in [Consumers -> {"idle", "batch", "submit", "settle"}]
  /\ todo \in [Consumers -> Seq(Handles)]
  /\ \A c \in Consumers : Len(todo[c]) <= ReceiveBatch
  /\ outcome \in [Consumers -> Outcomes]
  /\ renewing \in [Consumers -> BOOLEAN]
  /\ stopping \in [Consumers -> BOOLEAN]
  /\ faults \in 0..MaxFaults

(* A message is deleted only when its delivery is durably committed,       *)
(* whatever was redelivered, timed out or crashed before (AC 134 and 135). *)
DeletedIsDurable == \A m \in Messages : place[m] = "deleted" => m \in done

(* No message the use case can handle is received again, and so moves one  *)
(* step nearer to the dead-letter queue, except after a fault: a durable   *)
(* outcome, first or duplicate, deletes it (AC 132 and 137).               *)
ReceivesCostFaults ==
  \A m \in Messages : Fate[m] = "valid" => receives[m] <= faults + 1

(* With fewer faults than receives, such a message ends durably handled    *)
(* and deleted, across stops and crashes of its consumers (AC 136, 141).   *)
ValidHandled ==
  \A m \in Messages : Fate[m] = "valid" => <>(m \in done /\ place[m] = "deleted")

(* A message that can never be handled ends in the dead-letter queue, and  *)
(* so does not hold up its wallet for ever (AC 133 and 137).               *)
OthersDeadLettered ==
  \A m \in Messages : Fate[m] # "valid" => <>[](place[m] = "deadLetter")

(* plan.md AC 141: on SIGTERM the consumer finishes or releases every      *)
(* message it has in flight.                                               *)
ReleasedOnStop ==
  [][\A c \in Consumers : stopping[c] /\ stopping'[c] =>
       \A h \in Range(todo[c]) \ Range(todo'[c]) : ~Valid(h)']_vars
================================================================================
