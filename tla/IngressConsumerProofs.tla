-------------------------- MODULE IngressConsumerProofs --------------------------
(***************************************************************************)
(* What the consumers guarantee for every set of messages, wallets and     *)
(* instances, every batch size and redrive policy, and any number of       *)
(* faults: deletions rest on commits, and receives on faults.              *)
(***************************************************************************)
EXTENDS IngressConsumer, TLAPS

(* TypeOK without the bounds of numbers.                                   *)
Types ==
  /\ place \in [Messages -> {"queue", "deleted", "deadLetter"}]
  /\ inFlight \subseteq Queued
  /\ receives \in [Messages -> Nat]
  /\ done \subseteq Messages /\ orphans \subseteq Messages
  /\ pc \in [Consumers -> {"idle", "batch", "submit", "settle"}]
  /\ todo \in [Consumers -> Seq(Handles)]
  /\ outcome \in [Consumers -> Outcomes]
  /\ renewing \in [Consumers -> BOOLEAN]
  /\ stopping \in [Consumers -> BOOLEAN]
  /\ faults \in Nat

Bounds ==
  /\ \A m \in Messages : receives[m] <= MaxReceive
  /\ \A c \in Consumers : Len(todo[c]) <= ReceiveBatch
  /\ faults <= MaxFaults

(* A consumer that works on a message has it at the head of its batch, and *)
(* an outcome only once it is known.                                       *)
AtWork ==
  \A c \in Consumers :
    /\ pc[c] \in {"submit", "settle"} => todo[c] # <<>>
    /\ pc[c] # "settle" => outcome[c] = "none"

(* A durable outcome has been committed.                                   *)
Committed ==
  \A c \in Consumers : outcome[c] = "durable" => Current(c).msg \in done

IInv == Types /\ Bounds /\ AtWork /\ Committed /\ DeletedIsDurable

(***************************************************************************)
(* Sequences                                                               *)
(***************************************************************************)
(* The numbers of the instance.                                            *)
LEMMA Numbers == ReceiveBatch \in Nat \ {0} /\ MaxReceive \in Nat \ {0} /\ MaxFaults \in Nat
BY ConsumerAssumptions

(* What a sequence has is its first element and what its tail has.         *)
LEMMA HeadAndTail ==
  ASSUME NEW S, NEW s \in Seq(S), s # <<>>
  PROVE  /\ Head(s) \in S /\ Tail(s) \in Seq(S) /\ Len(Tail(s)) = Len(s) - 1
         /\ Len(s) \in Nat /\ Range(s) = {Head(s)} \cup Range(Tail(s))
<1>1. Len(s) \in Nat \ {0} /\ DOMAIN s = 1..Len(s) /\ Head(s) = s[1]
  OBVIOUS
<1>2. Tail(s) \in Seq(S) /\ Len(Tail(s)) = Len(s) - 1 /\ Head(s) \in S
  OBVIOUS
<1>3. \A i \in 1..(Len(s) - 1) : Tail(s)[i] = s[i + 1]
  OBVIOUS
<1>4. DOMAIN Tail(s) = 1..(Len(s) - 1)
  BY <1>1, <1>2
<1>5. ASSUME NEW x \in Range(s) PROVE x \in {Head(s)} \cup Range(Tail(s))
  <2>1. PICK i \in 1..Len(s) : x = s[i]
    BY <1>1, <1>5 DEF Range
  <2>2. CASE i = 1
    BY <1>1, <2>1, <2>2
  <2>3. CASE i # 1
    <3>1. i - 1 \in 1..(Len(s) - 1) /\ Tail(s)[i - 1] = s[(i - 1) + 1] /\ (i - 1) + 1 = i
      BY <1>1, <1>3, <2>1, <2>3
    <3> QED BY <1>4, <2>1, <3>1 DEF Range
  <2> QED BY <2>2, <2>3
<1>6. ASSUME NEW x \in Range(Tail(s)) PROVE x \in Range(s)
  <2>1. PICK i \in 1..(Len(s) - 1) : x = s[i + 1]
    BY <1>3, <1>4, <1>6 DEF Range
  <2>2. i + 1 \in DOMAIN s
    BY <1>1, <2>1
  <2> QED BY <2>1, <2>2 DEF Range
<1>7. Head(s) \in Range(s)
  BY <1>1 DEF Range
<1> QED BY <1>1, <1>2, <1>5, <1>6, <1>7

(* The handles of a received batch.                                        *)
LEMMA BatchHandles ==
  ASSUME NEW s \in Batches, NEW r \in [Messages -> Nat]
  PROVE  LET b == [i \in DOMAIN s |-> [msg |-> s[i], handle |-> r[s[i]]]]
         IN  /\ b \in Seq(Handles) /\ Len(b) \in 1..ReceiveBatch
             /\ Range(s) \subseteq Messages
             /\ Range(b) = {[msg |-> m, handle |-> r[m]] : m \in Range(s)}
<1> DEFINE b == [i \in DOMAIN s |-> [msg |-> s[i], handle |-> r[s[i]]]]
<1>1. PICK n \in 1..ReceiveBatch : s \in [1..n -> Messages]
  BY DEF Batches
<1>2. n \in Nat /\ DOMAIN s = 1..n
  BY <1>1, Numbers
<1>3. \A i \in 1..n : s[i] \in Messages /\ [msg |-> s[i], handle |-> r[s[i]]] \in Handles
  BY <1>1 DEF Handles
<1>4. b \in [1..n -> Handles]
  BY <1>2, <1>3
<1>5. b \in Seq(Handles) /\ Len(b) = n
  BY <1>2, <1>4
<1>6. Range(s) \subseteq Messages
  BY <1>2, <1>3 DEF Range
<1>7. Range(b) = {[msg |-> m, handle |-> r[m]] : m \in Range(s)}
  BY DEF Range
<1> QED BY <1>1, <1>5, <1>6, <1>7

(***************************************************************************)
(* Steps                                                                   *)
(***************************************************************************)
LEMMA InitHolds == Init => IInv
<1> SUFFICES ASSUME Init PROVE IInv
  OBVIOUS
<1>1. Types
  BY DEF Init, Types, Queued, Outcomes
<1>2. Bounds
  <2>1. Len(<<>>) = 0
    OBVIOUS
  <2> QED BY <2>1, Numbers DEF Init, Bounds
<1>3. AtWork /\ Committed /\ DeletedIsDurable
  BY DEF Init, AtWork, Committed, DeletedIsDurable
<1> QED BY <1>1, <1>2, <1>3 DEF IInv

(* A fault or none.                                                        *)
LEMMA FaultCounts ==
  ASSUME Types, Bounds, Fault \/ UNCHANGED faults
  PROVE  faults' \in Nat /\ faults' <= MaxFaults /\ faults' \in {faults, faults + 1}
BY Numbers DEF Types, Bounds, Fault

(* What a consumer works on is a message.                                  *)
LEMMA HeadType ==
  ASSUME Types, NEW c \in Consumers, todo[c] # <<>>
  PROVE  Current(c) \in Handles /\ Current(c).msg \in Messages
<1>1. todo[c] \in Seq(Handles)
  BY DEF Types
<1>2. Current(c) \in Handles
  BY <1>1, HeadAndTail DEF Current
<1> QED BY <1>2 DEF Handles

(* What the broker does by itself.                                         *)
LEMMA BrokerMoves ==
  ASSUME IInv, NEW m \in Messages, Lapse(m) \/ Redrive(m) \/ OrphanEnds(m)
  PROVE  IInv'
<1>1. CASE Lapse(m)
  <2>1. /\ UNCHANGED <<place, receives, done, orphans, pc, todo, outcome, renewing, stopping>>
        /\ inFlight' \subseteq inFlight
        /\ Fault \/ UNCHANGED faults
    BY <1>1 DEF Lapse, database, consumers
  <2>2. faults' \in Nat /\ faults' <= MaxFaults
    BY <2>1, FaultCounts DEF IInv
  <2> QED BY <2>1, <2>2 DEF IInv, Types, Bounds, AtWork, Committed, DeletedIsDurable,
          Queued, Current
<1>2. CASE Redrive(m)
  <2>1. /\ UNCHANGED <<inFlight, receives, done, orphans, pc, todo, outcome, renewing,
                       stopping, faults>>
        /\ place' = [place EXCEPT ![m] = "deadLetter"] /\ m \notin inFlight
    BY <1>2 DEF Redrive, database, consumers
  <2>2. Types'
    BY <2>1 DEF IInv, Types, Queued
  <2> QED BY <2>1, <2>2 DEF IInv, Types, Bounds, AtWork, Committed, DeletedIsDurable, Current
<1>3. CASE OrphanEnds(m)
  <2>1. /\ UNCHANGED <<place, inFlight, receives, pc, todo, outcome, renewing, stopping, faults>>
        /\ orphans' \subseteq orphans /\ done \subseteq done' /\ done' \subseteq Messages
    BY <1>3 DEF OrphanEnds, broker, consumers, IInv, Types
  <2> QED BY <2>1 DEF IInv, Types, Bounds, AtWork, Committed, DeletedIsDurable, Queued, Current
<1> QED BY <1>1, <1>2, <1>3

LEMMA ReceiveMoves ==
  ASSUME IInv, NEW c \in Consumers, Receive(c)
  PROVE  IInv'
<1>1. PICK s \in Batches :
        /\ Receivable(s) /\ HandOut(s)
        /\ \/ /\ todo' = [todo EXCEPT ![c] =
                            [i \in DOMAIN s |-> [msg |-> s[i], handle |-> receives'[s[i]]]]]
              /\ pc' = [pc EXCEPT ![c] = "batch"] /\ UNCHANGED faults
           \/ Fault /\ UNCHANGED <<pc, todo>>
  BY DEF Receive
<1>2. UNCHANGED <<place, done, orphans, outcome, renewing, stopping>> /\ pc[c] = "idle"
  BY <1>1 DEF Receive, database, HandOut
<1>3. /\ receives' \in [Messages -> Nat]
      /\ \A m \in Messages : receives'[m] <= MaxReceive
      /\ inFlight' \subseteq Queued'
  BY <1>1, <1>2, Numbers DEF HandOut, Receivable, IInv, Types, Bounds, Queued
<1> DEFINE b == [i \in DOMAIN s |-> [msg |-> s[i], handle |-> receives'[s[i]]]]
<1>4. b \in Seq(Handles) /\ Len(b) \in 1..ReceiveBatch
  BY <1>1, <1>3, BatchHandles
<1> HIDE DEF b
<1>5. CASE todo' = [todo EXCEPT ![c] = b] /\ pc' = [pc EXCEPT ![c] = "batch"] /\ UNCHANGED faults
  <2>1. Types'
    BY <1>2, <1>3, <1>4, <1>5 DEF IInv, Types
  <2>2. Bounds'
    BY <1>2, <1>3, <1>4, <1>5, Numbers DEF IInv, Types, Bounds
  <2>3. AtWork'
    BY <1>2, <1>5 DEF IInv, Types, AtWork
  <2>4. Committed'
    BY <1>2, <1>5 DEF IInv, Types, AtWork, Committed, Current
  <2> QED BY <1>2, <2>1, <2>2, <2>3, <2>4 DEF IInv, DeletedIsDurable
<1>6. CASE Fault /\ UNCHANGED <<pc, todo>>
  <2>1. faults' \in Nat /\ faults' <= MaxFaults
    BY <1>6, FaultCounts DEF IInv
  <2> QED BY <1>2, <1>3, <1>6, <2>1 DEF IInv, Types, Bounds, AtWork, Committed,
          DeletedIsDurable, Current
<1> QED BY <1>1, <1>5, <1>6 DEF b

LEMMA StartMoves ==
  ASSUME IInv, NEW c \in Consumers, Start(c)
  PROVE  IInv'
<1>1. /\ UNCHANGED <<place, inFlight, receives, done, orphans, todo, stopping, faults>>
      /\ renewing' = [renewing EXCEPT ![c] = TRUE] /\ todo[c] # <<>> /\ pc[c] = "batch"
      /\ \/ pc' = [pc EXCEPT ![c] = "settle"] /\ outcome' = [outcome EXCEPT ![c] = "permanent"]
         \/ pc' = [pc EXCEPT ![c] = "submit"] /\ UNCHANGED outcome
  BY DEF Start, broker, database
<1>2. Types'
  BY <1>1 DEF IInv, Types, Queued, Outcomes
<1>3. AtWork' /\ Committed'
  BY <1>1 DEF IInv, Types, AtWork, Committed, Current
<1> QED BY <1>1, <1>2, <1>3 DEF IInv, Bounds, DeletedIsDurable

(* Whatever the use case answers, only what it has committed is durable.   *)
LEMMA SubmitMoves ==
  ASSUME IInv, NEW c \in Consumers, Submit(c)
  PROVE  IInv'
<1> DEFINE m == Current(c).msg
<1>1. /\ UNCHANGED <<place, inFlight, receives, todo, renewing, stopping>>
      /\ pc[c] = "submit" /\ pc' = [pc EXCEPT ![c] = "settle"]
      /\ (Fault \/ UNCHANGED faults)
  BY DEF Submit, broker, database
<1>2. PICK o \in Outcomes :
        /\ outcome' = [outcome EXCEPT ![c] = o]
        /\ o = "durable" => m \in done'
        /\ done' \in {done, done \cup {m}} /\ orphans' \in {orphans, orphans \cup {m}}
  BY DEF Submit, database, Outcomes
<1>3. todo[c] # <<>> /\ m \in Messages
  BY <1>1, HeadType DEF IInv, AtWork
<1>4. faults' \in Nat /\ faults' <= MaxFaults
  BY <1>1, FaultCounts DEF IInv
<1>5. done \subseteq done' /\ done' \subseteq Messages /\ orphans' \subseteq Messages
  BY <1>2, <1>3 DEF IInv, Types
<1>6. Types'
  BY <1>1, <1>2, <1>4, <1>5 DEF IInv, Types, Queued
<1>7. AtWork'
  BY <1>1, <1>2, <1>3 DEF IInv, Types, AtWork
<1>8. Committed'
  BY <1>1, <1>2, <1>5 DEF IInv, Types, Committed, Current
<1> QED BY <1>1, <1>4, <1>5, <1>6, <1>7, <1>8 DEF IInv, Bounds, DeletedIsDurable

(* How a consumer leaves the message at its head.                          *)
LEMMA HeadLeft ==
  ASSUME IInv, NEW c \in Consumers, Settle(c)
  PROVE  /\ pc[c] = "settle" /\ todo[c] # <<>> /\ Current(c) \in Handles
         /\ UNCHANGED <<receives, done, orphans, stopping>>
         /\ todo' = [todo EXCEPT ![c] = Tail(todo[c])]
         /\ outcome' = [outcome EXCEPT ![c] = "none"]
         /\ renewing' = [renewing EXCEPT ![c] = FALSE]
         /\ pc' = [pc EXCEPT ![c] = "batch"]
         /\ Fault \/ UNCHANGED faults
         /\ \/ UNCHANGED <<place, inFlight>>
            \/ MakeVisible(Current(c))
            \/ outcome[c] = "durable" /\ DeleteMessage(Current(c))
<1>1. pc[c] = "settle" /\ todo[c] # <<>> /\ Current(c) \in Handles
  BY HeadType DEF Settle, IInv, AtWork
<1>2. \/ outcome[c] = "durable" /\ Acknowledge(c)
      \/ Backoff \/ Release(c)
  BY DEF Settle
<1>3. /\ UNCHANGED receives /\ (Fault \/ UNCHANGED faults)
      /\ \/ UNCHANGED <<place, inFlight>>
         \/ MakeVisible(Current(c))
         \/ outcome[c] = "durable" /\ DeleteMessage(Current(c))
  BY <1>2 DEF Acknowledge, Backoff, Release, broker, MakeVisible, DeleteMessage
<1> QED BY <1>1, <1>3 DEF Settle, database

LEMMA SettleMoves ==
  ASSUME IInv, NEW c \in Consumers, Settle(c)
  PROVE  IInv'
<1> DEFINE m == Current(c).msg
<1>1. m \in Messages
  BY HeadLeft DEF Handles
<1>2. /\ place' \in [Messages -> {"queue", "deleted", "deadLetter"}]
      /\ inFlight' \subseteq Queued'
      /\ \A n \in Messages : place'[n] = "deleted" => n \in done
  <2>1. CASE UNCHANGED <<place, inFlight>> \/ MakeVisible(Current(c))
    BY <2>1 DEF MakeVisible, IInv, Types, Queued, DeletedIsDurable
  <2>2. CASE outcome[c] = "durable" /\ DeleteMessage(Current(c))
    <3>1. m \in done
      BY <2>2 DEF IInv, Committed
    <3>2. CASE Valid(Current(c))
      BY <1>1, <2>2, <3>1, <3>2 DEF DeleteMessage, IInv, Types, Queued, DeletedIsDurable
    <3>3. CASE ~Valid(Current(c))
      BY <2>2, <3>3 DEF DeleteMessage, IInv, Types, Queued, DeletedIsDurable
    <3> QED BY <3>2, <3>3
  <2> QED BY <2>1, <2>2, HeadLeft
<1>3. faults' \in Nat /\ faults' <= MaxFaults
  BY HeadLeft, FaultCounts DEF IInv
<1>4. Tail(todo[c]) \in Seq(Handles) /\ Len(Tail(todo[c])) <= ReceiveBatch
  <2>1. todo[c] \in Seq(Handles) /\ Len(todo[c]) <= ReceiveBatch
    BY DEF IInv, Types, Bounds
  <2> QED BY <2>1, HeadLeft, HeadAndTail, Numbers
<1>5. Types'
  <2>1. /\ UNCHANGED <<receives, done, orphans, stopping>>
        /\ todo' = [todo EXCEPT ![c] = Tail(todo[c])]
        /\ outcome' = [outcome EXCEPT ![c] = "none"]
        /\ renewing' = [renewing EXCEPT ![c] = FALSE]
        /\ pc' = [pc EXCEPT ![c] = "batch"]
    BY HeadLeft
  <2> QED BY <1>2, <1>3, <1>4, <2>1 DEF IInv, Types, Outcomes
<1>6. Bounds'
  BY <1>3, <1>4, HeadLeft DEF IInv, Types, Bounds
<1>7. AtWork'
  BY HeadLeft DEF IInv, Types, AtWork
<1>8. Committed'
  <2>1. outcome \in [Consumers -> Outcomes] /\ todo \in [Consumers -> Seq(Handles)]
    BY DEF IInv, Types
  <2>2. ASSUME NEW d \in Consumers, outcome'[d] = "durable"
        PROVE  d # c /\ outcome[d] = "durable" /\ todo'[d] = todo[d] /\ done' = done
    BY <2>1, <2>2, HeadLeft
  <2> QED BY <2>2 DEF IInv, Committed, Current
<1> QED BY <1>2, <1>5, <1>6, <1>7, <1>8, HeadLeft DEF IInv, DeletedIsDurable

(* The batch ends, renewal fails, the instance is told to stop.            *)
LEMMA LoopMoves ==
  ASSUME IInv, NEW c \in Consumers, EndBatch(c) \/ RenewalFails(c) \/ Stop(c)
  PROVE  IInv'
<1>1. UNCHANGED <<place, inFlight, receives, done, orphans, outcome>>
  BY DEF EndBatch, RenewalFails, Stop, broker, database
<1>2. faults' \in Nat /\ faults' <= MaxFaults
  <2>1. Fault \/ UNCHANGED faults
    BY DEF EndBatch, RenewalFails, Stop
  <2> QED BY <2>1, FaultCounts DEF IInv
<1>3. renewing' \in [Consumers -> BOOLEAN] /\ stopping' \in [Consumers -> BOOLEAN]
  BY DEF EndBatch, RenewalFails, Stop, IInv, Types
<1>4. \/ UNCHANGED <<pc, todo>>
      \/ /\ pc[c] = "batch" /\ todo' = [todo EXCEPT ![c] = <<>>]
         /\ pc' = [pc EXCEPT ![c] = "idle"]
  BY DEF EndBatch, RenewalFails, Stop
<1>5. <<>> \in Seq(Handles) /\ Len(<<>>) = 0
  OBVIOUS
<1>6. Types'
  <2>1. /\ todo \in [Consumers -> Seq(Handles)] /\ inFlight \subseteq Queued
        /\ pc \in [Consumers -> {"idle", "batch", "submit", "settle"}]
    BY DEF IInv, Types
  <2>2. todo' \in [Consumers -> Seq(Handles)]
    BY <1>4, <1>5, <2>1
  <2>3. pc' \in [Consumers -> {"idle", "batch", "submit", "settle"}]
    BY <1>4, <2>1
  <2>4. inFlight' \subseteq Queued'
    BY <1>1, <2>1 DEF Queued
  <2> QED BY <1>1, <1>2, <1>3, <2>2, <2>3, <2>4 DEF IInv, Types
<1>7. Bounds'
  <2>1. \A d \in Consumers : todo'[d] = todo[d] \/ todo'[d] = <<>>
    BY <1>4 DEF IInv, Types
  <2> QED BY <1>1, <1>2, <1>5, <2>1, Numbers DEF IInv, Bounds
<1>8. AtWork' /\ Committed'
  BY <1>1, <1>4 DEF IInv, Types, AtWork, Committed, Current
<1> QED BY <1>1, <1>6, <1>7, <1>8 DEF IInv, DeletedIsDurable

(* An instance begins anew, after a stop or a crash; a crash may come after *)
(* the commit of what it was submitting.                                   *)
LEMMA ResetMoves ==
  ASSUME IInv, NEW c \in Consumers, Restart(c) \/ Crash(c)
  PROVE  IInv'
<1>1. Reset(c) /\ UNCHANGED <<place, inFlight, receives, orphans>>
  BY DEF Restart, Crash, broker, database
<1>2. faults' \in Nat /\ faults' <= MaxFaults
  <2>1. Fault \/ UNCHANGED faults
    BY DEF Restart, Crash
  <2> QED BY <2>1, FaultCounts DEF IInv
<1>3. done \subseteq done' /\ done' \subseteq Messages
  <2>1. CASE UNCHANGED done
    BY <2>1 DEF IInv, Types
  <2>2. CASE pc[c] = "submit" /\ done' = done \cup {Current(c).msg}
    BY <2>2, HeadType DEF IInv, AtWork, Types
  <2> QED BY <2>1, <2>2 DEF Restart, Crash, database
<1>4. <<>> \in Seq(Handles) /\ Len(<<>>) = 0
  OBVIOUS
<1>5. Types'
  BY <1>1, <1>2, <1>3, <1>4 DEF Reset, IInv, Types, Queued, Outcomes
<1>6. Bounds'
  BY <1>1, <1>2, <1>4, Numbers DEF Reset, IInv, Types, Bounds
<1>7. AtWork' /\ Committed'
  BY <1>1, <1>3 DEF Reset, IInv, Types, AtWork, Committed, Current
<1> QED BY <1>1, <1>3, <1>5, <1>6, <1>7 DEF IInv, DeletedIsDurable

LEMMA StepHolds == IInv /\ [Next]_vars => IInv'
<1> SUFFICES ASSUME IInv, [Next]_vars PROVE IInv'
  OBVIOUS
<1>1. CASE UNCHANGED vars
  BY <1>1 DEF vars, broker, database, consumers, IInv, Types, Bounds, AtWork, Committed,
     DeletedIsDurable, Queued, Current
<1> QED
  BY <1>1, BrokerMoves, ReceiveMoves, StartMoves, SubmitMoves, SettleMoves, LoopMoves,
     ResetMoves DEF Next

(* A message is deleted only when its delivery is durably committed, for   *)
(* every number of messages, instances and faults (consumer.go:202-231).   *)
THEOREM DeletedIsDurableHolds == Spec => []DeletedIsDurable
<1>1. IInv => DeletedIsDurable
  BY DEF IInv
<1> QED BY <1>1, InitHolds, StepHolds, PTL DEF Spec

(* Every reachable state is well typed: no message is received more often  *)
(* than the redrive policy allows, only queued ones are in flight, and no  *)
(* batch is larger than asked for.                                         *)
THEOREM TypesHold == Spec => []TypeOK
<1>1. IInv => TypeOK
  BY Numbers DEF IInv, Types, Bounds, TypeOK
<1> QED BY <1>1, InitHolds, StepHolds, PTL DEF Spec

(***************************************************************************)
(* What a receive costs                                                    *)
(***************************************************************************)
Healthy == {m \in Messages : Fate[m] = "valid"}

(* Somebody works on the latest receive of the message.                    *)
Held(m) == m \in inFlight /\ InHand(m)

(* Every receive but the one that somebody works on has had its fault.     *)
Paid ==
  \A m \in Healthy :
    /\ receives[m] <= faults + 1
    /\ place[m] = "queue" /\ ~Held(m) => receives[m] <= faults

(* A batch has no receives to come, and a stop has been a fault after those *)
(* of the batch.                                                           *)
Owed ==
  \A c \in Consumers : \A h \in Range(todo[c]) :
    /\ h.handle <= receives[h.msg]
    /\ stopping[c] /\ h.msg \in Healthy => h.handle <= faults

(* Why an outcome is not durable.                                          *)
Reasons ==
  \A c \in Consumers :
    /\ pc[c] = "idle" => todo[c] = <<>>
    /\ pc[c] = "settle" => outcome[c] # "none"
    /\ outcome[c] = "timedOut" => stopping[c]
    /\ outcome[c] = "permanent" => Current(c).msg \notin Healthy
    /\ outcome[c] = "transient" /\ Current(c).msg \in Healthy =>
         Current(c).handle <= faults

JInv == IInv /\ Paid /\ Owed /\ Reasons

LEMMA CountsAreNumbers ==
  ASSUME IInv
  PROVE  /\ faults \in Nat
         /\ \A m \in Messages : receives[m] \in Nat
         /\ \A c \in Consumers : \A h \in Range(todo[c]) :
              h \in Handles /\ h.msg \in Messages /\ h.handle \in Nat
<1>1. ASSUME NEW c \in Consumers, NEW h \in Range(todo[c]) PROVE h \in Handles
  <2>1. todo[c] \in Seq(Handles)
    BY DEF IInv, Types
  <2> QED BY <2>1 DEF Range
<1> QED BY <1>1 DEF IInv, Types, Handles

(* A fault pays for everything received so far.                            *)
LEMMA FaultPays ==
  ASSUME JInv, faults' = faults + 1, receives' = receives
  PROVE  Paid'
BY CountsAreNumbers DEF JInv, Paid, Healthy

LEMMA StartsPaid == Init => Paid /\ Owed /\ Reasons
<1>1. Range(<<>>) = {}
  BY DEF Range
<1> QED BY <1>1 DEF Init, Paid, Owed, Reasons, Healthy

LEMMA BrokerPays ==
  ASSUME JInv, NEW m \in Messages, Lapse(m) \/ Redrive(m) \/ OrphanEnds(m)
  PROVE  Paid' /\ Owed' /\ Reasons'
<1>1. /\ UNCHANGED <<receives, pc, todo, outcome, stopping>>
      /\ Fault \/ UNCHANGED faults
  BY DEF Lapse, Redrive, OrphanEnds, broker, database, consumers
<1>2. faults' \in {faults, faults + 1}
  BY <1>1 DEF Fault
<1>3. Owed' /\ Reasons'
  <2>1. \A c \in Consumers : Current(c)' = Current(c)
    BY <1>1 DEF Current
  <2>2. \A c \in Consumers : outcome[c] = "transient" => Current(c).handle \in Nat
    BY HeadType DEF JInv, IInv, AtWork, Types, Handles, Outcomes
  <2> QED BY <1>1, <1>2, <2>1, <2>2, CountsAreNumbers DEF JInv, Owed, Reasons
<1>4. Paid'
  <2>1. CASE faults' = faults + 1
    BY <1>1, <2>1, FaultPays
  <2>2. CASE faults' = faults
    <3>1. \A n \in Messages : InHand(n)' = InHand(n)
      BY <1>1 DEF InHand
    <3>2. CASE UNCHANGED inFlight /\ \A n \in Messages : place'[n] = "queue" => place[n] = "queue"
      BY <1>1, <2>2, <3>1, <3>2 DEF JInv, Paid, Healthy, Held
    <3>3. CASE Lapse(m)
      <4>1. inFlight' = inFlight \ {m} /\ place' = place /\ ~InHand(m)
        BY <2>2, <3>3, CountsAreNumbers DEF Lapse, Fault, JInv
      <4> QED BY <1>1, <2>2, <3>1, <4>1 DEF JInv, Paid, Healthy, Held
    <3> QED BY <3>2, <3>3 DEF Redrive, OrphanEnds, broker, JInv, IInv, Types
  <2> QED BY <1>2, <2>1, <2>2
<1> QED BY <1>3, <1>4

LEMMA ReceivePays ==
  ASSUME JInv, NEW c \in Consumers, Receive(c)
  PROVE  Paid' /\ Owed' /\ Reasons'
<1>1. PICK s \in Batches :
        /\ Receivable(s) /\ HandOut(s)
        /\ \/ /\ todo' = [todo EXCEPT ![c] =
                            [i \in DOMAIN s |-> [msg |-> s[i], handle |-> receives'[s[i]]]]]
              /\ pc' = [pc EXCEPT ![c] = "batch"] /\ UNCHANGED faults
           \/ Fault /\ UNCHANGED <<pc, todo>>
  BY DEF Receive
<1>2. UNCHANGED <<place, outcome, stopping>> /\ pc[c] = "idle" /\ ~stopping[c]
  BY <1>1 DEF Receive, database, HandOut
<1>3. /\ \A m \in Messages : receives'[m] = IF m \in Range(s) THEN receives[m] + 1 ELSE receives[m]
      /\ inFlight' = inFlight \cup Range(s) /\ receives' \in [Messages -> Nat]
  BY <1>1, CountsAreNumbers DEF HandOut, JInv
<1>4. \A m \in Range(s) : m \in Messages /\ place[m] = "queue" /\ m \notin inFlight
  BY <1>1 DEF Receivable, Queued, Unblocked, SameGroup
<1>5. \A m \in Healthy : receives'[m] <= faults + 1
  BY <1>3, <1>4, CountsAreNumbers DEF JInv, Paid, Healthy, Held
<1> DEFINE b == [i \in DOMAIN s |-> [msg |-> s[i], handle |-> receives'[s[i]]]]
<1>6. /\ Range(b) = {[msg |-> m, handle |-> receives'[m]] : m \in Range(s)}
  BY <1>1, <1>3, BatchHandles
<1> HIDE DEF b
<1>7. todo[c] = <<>> /\ Range(<<>>) = {} /\ outcome[c] = "none"
  BY <1>2 DEF JInv, IInv, AtWork, Reasons, Range
<1>8. CASE todo' = [todo EXCEPT ![c] = b] /\ pc' = [pc EXCEPT ![c] = "batch"] /\ UNCHANGED faults
  <2>1. todo'[c] = b /\ pc'[c] = "batch"
        /\ \A d \in Consumers \ {c} : todo'[d] = todo[d] /\ pc'[d] = pc[d]
    BY <1>8 DEF JInv, IInv, Types
  <2>2. Owed'
    <3>1. ASSUME NEW d \in Consumers, NEW h \in Range(todo'[d])
          PROVE  /\ h.handle <= receives'[h.msg]
                 /\ stopping'[d] /\ h.msg \in Healthy => h.handle <= faults'
      <4>1. CASE d = c
        BY <1>2, <1>3, <1>4, <1>6, <2>1, <3>1, <4>1
      <4>2. CASE d # c
        BY <1>2, <1>3, <1>8, <2>1, <3>1, <4>2, CountsAreNumbers DEF JInv, Owed
      <4> QED BY <4>1, <4>2
    <3> QED BY <3>1 DEF Owed, Healthy
  <2>3. Reasons'
    BY <1>2, <1>7, <1>8, <2>1 DEF JInv, Reasons, Current, Healthy
  <2>4. Paid'
    <3>1. ASSUME NEW m \in Healthy, place[m] = "queue", ~Held(m)'
          PROVE  receives'[m] <= faults
      <4>1. CASE m \in Range(s)
        BY <1>3, <1>6, <2>1, <3>1, <4>1 DEF Held, InHand
      <4>2. CASE m \notin Range(s)
        <5>1. \A d \in Consumers : Range(todo[d]) \subseteq Range(todo'[d])
          BY <1>7, <2>1
        <5>2. m \in Messages /\ receives'[m] = receives[m] /\ (m \in inFlight' <=> m \in inFlight)
          BY <1>3, <4>2 DEF Healthy
        <5>3. InHand(m) => InHand(m)'
          BY <5>1, <5>2 DEF InHand
        <5> QED BY <3>1, <5>2, <5>3 DEF Held, JInv, Paid
      <4> QED BY <4>1, <4>2
    <3> QED BY <1>2, <1>5, <1>8, <3>1 DEF Paid, Healthy
  <2> QED BY <2>2, <2>3, <2>4
<1>9. CASE Fault /\ UNCHANGED <<pc, todo>>
  <2>1. faults' = faults + 1 /\ faults \in Nat
    BY <1>9, CountsAreNumbers DEF Fault, JInv
  <2>2. Paid'
    BY <1>3, <1>5, <2>1 DEF Paid, Healthy
  <2>3. Owed'
    BY <1>2, <1>3, <1>9, <2>1, CountsAreNumbers DEF JInv, Owed, Healthy
  <2>4. Reasons'
    <3>1. \A d \in Consumers : outcome[d] = "transient" => Current(d).handle \in Nat
      BY HeadType DEF JInv, IInv, AtWork, Types, Handles, Outcomes
    <3> QED BY <1>2, <1>9, <2>1, <3>1 DEF JInv, Reasons, Current, Healthy
  <2> QED BY <2>2, <2>3, <2>4
<1> QED BY <1>1, <1>8, <1>9 DEF b

LEMMA StartPays ==
  ASSUME JInv, NEW c \in Consumers, Start(c)
  PROVE  Paid' /\ Owed' /\ Reasons'
<1>1. /\ UNCHANGED <<place, inFlight, receives, todo, stopping, faults>>
      /\ pc[c] = "batch" /\ todo[c] # <<>>
      /\ \/ /\ pc' = [pc EXCEPT ![c] = "settle"]
            /\ outcome' = [outcome EXCEPT ![c] = "permanent"]
            /\ Fate[Current(c).msg] = "malformed"
         \/ pc' = [pc EXCEPT ![c] = "submit"] /\ UNCHANGED outcome
  BY DEF Start, broker, database, Malformed
<1>2. Paid' /\ Owed'
  BY <1>1 DEF JInv, Paid, Owed, Healthy, Held, InHand
<1>3. Reasons'
  BY <1>1 DEF JInv, IInv, Types, Reasons, Current, Healthy
<1> QED BY <1>2, <1>3

(* A submission that fails has had a fault, or its consumer has been told  *)
(* to stop.                                                                *)
LEMMA SubmitPays ==
  ASSUME JInv, NEW c \in Consumers, Submit(c)
  PROVE  Paid' /\ Owed' /\ Reasons'
<1> DEFINE h == Current(c)
<1>1. /\ UNCHANGED <<place, inFlight, receives, todo, stopping>>
      /\ pc[c] = "submit" /\ pc' = [pc EXCEPT ![c] = "settle"]
      /\ (Fault \/ UNCHANGED faults)
  BY DEF Submit, broker, database
<1>2. /\ todo[c] # <<>> /\ h \in Range(todo[c]) /\ h.msg \in Messages /\ h.handle \in Nat
      /\ receives[h.msg] \in Nat
  <2>1. todo[c] # <<>> /\ todo[c] \in Seq(Handles)
    BY <1>1 DEF JInv, IInv, AtWork, Types
  <2>2. h \in Range(todo[c])
    BY <2>1, HeadAndTail DEF Current
  <2> QED BY <2>1, <2>2, CountsAreNumbers DEF JInv
<1>3. faults' \in {faults, faults + 1} /\ faults \in Nat
  BY <1>1, CountsAreNumbers DEF Fault, JInv
<1>4. Owed'
  BY <1>1, <1>3, CountsAreNumbers DEF JInv, Owed, Healthy
<1>5. Paid'
  <2>1. CASE faults' = faults
    BY <1>1, <2>1 DEF JInv, Paid, Healthy, Held, InHand
  <2> QED BY <1>1, <1>3, <2>1, FaultPays
<1>6. PICK o \in Outcomes \ {"none"} :
        /\ outcome' = [outcome EXCEPT ![c] = o]
        /\ o = "timedOut" => stopping[c]
        /\ o = "permanent" => Fate[h.msg] = "refused"
        /\ o = "transient" => stopping[c] \/ Fault
  BY DEF Submit, Outcomes
<1>7. o = "transient" /\ h.msg \in Healthy => h.handle <= faults'
  <2>1. CASE stopping[c]
    BY <1>2, <1>3, <2>1 DEF JInv, Owed
  <2>2. ASSUME Fault, h.msg \in Healthy PROVE h.handle <= faults'
    <3>1. h.handle <= receives[h.msg] /\ receives[h.msg] <= faults + 1 /\ faults' = faults + 1
      BY <1>2, <2>2 DEF JInv, Owed, Paid, Fault
    <3> QED BY <1>2, <1>3, <3>1
  <2> QED BY <1>6, <2>1, <2>2
<1>8. Reasons'
  <2>1. ASSUME NEW d \in Consumers, d # c
        PROVE  /\ pc'[d] = pc[d] /\ outcome'[d] = outcome[d]
               /\ outcome[d] = "transient" => Current(d).handle \in Nat
    BY <1>1, <1>6, <2>1, HeadType DEF JInv, IInv, AtWork, Types, Handles, Outcomes
  <2>2. pc'[c] = "settle" /\ outcome'[c] = o
    BY <1>1, <1>6 DEF JInv, IInv, Types
  <2> HIDE DEF h
  <2>3. \A d \in Consumers : Current(d)' = Current(d)
    BY <1>1 DEF Current
  <2>4. Current(c) = h
    BY DEF h
  <2> QED BY <1>1, <1>3, <1>6, <1>7, <2>1, <2>2, <2>3, <2>4 DEF JInv, Reasons, Healthy
<1> QED BY <1>4, <1>5, <1>8

(* A healthy message that is let go is deleted, or its receive is paid.    *)
LEMMA LetGo ==
  ASSUME JInv, NEW c \in Consumers, Settle(c), faults' = faults,
         Current(c).msg \in Healthy, Valid(Current(c))
  PROVE  place'[Current(c).msg] = "deleted" \/ Current(c).handle <= faults
<1>1. /\ pc[c] = "settle" /\ todo[c] # <<>> /\ Current(c) \in Range(todo[c])
      /\ Current(c).msg \in Messages
  <2>1. pc[c] = "settle" /\ todo[c] # <<>> /\ todo[c] \in Seq(Handles)
    BY DEF Settle, JInv, IInv, AtWork, Types
  <2> QED BY <2>1, HeadAndTail, HeadType DEF Current, JInv, IInv
<1>2. stopping[c] => Current(c).handle <= faults
  BY <1>1 DEF JInv, Owed
<1>3. CASE outcome[c] = "durable"
  <2>1. Acknowledge(c)
    BY <1>3 DEF Settle
  <2>2. CASE ~stopping[c]
    <3>1. ~Fault
      BY CountsAreNumbers DEF Fault, JInv
    <3>2. DeleteMessage(Current(c))
      BY <2>1, <2>2, <3>1 DEF Acknowledge
    <3> QED BY <1>1, <3>2 DEF DeleteMessage, JInv, IInv, Types
  <2> QED BY <1>2, <2>2
<1>4. CASE outcome[c] # "durable"
  <2>1. outcome[c] \in {"transient", "permanent", "timedOut"}
    BY <1>1, <1>4 DEF JInv, IInv, Types, Reasons, Outcomes
  <2> QED BY <1>2, <2>1 DEF JInv, Reasons
<1> QED BY <1>3, <1>4

LEMMA SettlePays ==
  ASSUME JInv, NEW c \in Consumers, Settle(c)
  PROVE  Paid' /\ Owed' /\ Reasons'
<1> DEFINE h == Current(c)
<1>1. /\ UNCHANGED <<receives, stopping>>
      /\ todo' = [todo EXCEPT ![c] = Tail(todo[c])]
      /\ outcome' = [outcome EXCEPT ![c] = "none"]
      /\ pc' = [pc EXCEPT ![c] = "batch"]
      /\ (Fault \/ UNCHANGED faults)
      /\ \/ UNCHANGED <<place, inFlight>>
         \/ MakeVisible(h)
         \/ DeleteMessage(h)
  BY HeadLeft DEF JInv
<1>2. /\ Range(todo[c]) = {h} \cup Range(todo'[c])
      /\ \A d \in Consumers \ {c} : todo'[d] = todo[d]
  <2>1. todo[c] # <<>> /\ todo[c] \in Seq(Handles)
    BY HeadLeft DEF JInv, IInv, Types
  <2>2. Range(todo[c]) = {Head(todo[c])} \cup Range(Tail(todo[c]))
    BY <2>1, HeadAndTail
  <2> QED BY <1>1, <2>2 DEF Current, JInv, IInv, Types
<1>3. faults' \in {faults, faults + 1} /\ faults \in Nat
  BY <1>1, CountsAreNumbers DEF Fault, JInv
<1>4. \A d \in Consumers : Range(todo'[d]) \subseteq Range(todo[d])
  BY <1>2
<1>5. Owed'
  BY <1>1, <1>3, <1>4, CountsAreNumbers DEF JInv, Owed, Healthy
<1>6. Reasons'
  <2>1. ASSUME NEW d \in Consumers, d # c
        PROVE  /\ pc'[d] = pc[d] /\ outcome'[d] = outcome[d] /\ Current(d)' = Current(d)
               /\ outcome[d] = "transient" => Current(d).handle \in Nat
    BY <1>1, <1>2, <2>1, HeadType
       DEF JInv, IInv, AtWork, Types, Handles, Outcomes, Current
  <2>2. pc'[c] = "batch" /\ outcome'[c] = "none"
    BY <1>1 DEF JInv, IInv, Types
  <2> QED BY <1>1, <1>2, <1>3, <2>1, <2>2 DEF JInv, Reasons, Healthy
<1>7. Paid'
  <2>1. CASE faults' = faults + 1
    BY <1>1, <2>1, FaultPays
  <2>2. CASE faults' = faults
    <3>1. ASSUME NEW m \in Healthy, place'[m] = "queue", ~Held(m)'
          PROVE  receives[m] <= faults
      <4>1. CASE m = h.msg /\ Valid(h)
        BY <2>2, <3>1, <4>1, LetGo DEF Valid
      <4>2. CASE ~(m = h.msg /\ Valid(h))
        <5>1. place[m] = "queue" /\ (m \in inFlight' <=> m \in inFlight)
          BY <1>1, <3>1, <4>2 DEF MakeVisible, DeleteMessage, Valid, JInv, IInv, Types, Healthy
        <5>2. Held(m) => Held(m)'
          <6> SUFFICES ASSUME Held(m) PROVE Held(m)'
            OBVIOUS
          <6>1. PICK d \in Consumers : [msg |-> m, handle |-> receives[m]] \in Range(todo[d])
            BY DEF Held, InHand
          <6>2. [msg |-> m, handle |-> receives[m]] # h
            BY <4>2 DEF Held, Valid
          <6>3. [msg |-> m, handle |-> receives[m]] \in Range(todo'[d])
            BY <1>2, <6>1, <6>2
          <6> QED BY <1>1, <5>1, <6>3 DEF Held, InHand
        <5> QED BY <3>1, <5>1, <5>2 DEF JInv, Paid
      <4> QED BY <4>1, <4>2
    <3>2. \A m \in Healthy : receives[m] <= faults + 1
      BY DEF JInv, Paid
    <3> QED BY <1>1, <2>2, <3>1, <3>2 DEF Paid, Healthy
  <2> QED BY <1>3, <2>1, <2>2
<1> QED BY <1>5, <1>6, <1>7

LEMMA LoopPays ==
  ASSUME JInv, NEW c \in Consumers, EndBatch(c) \/ RenewalFails(c) \/ Stop(c)
  PROVE  Paid' /\ Owed' /\ Reasons'
<1>1. CASE RenewalFails(c) \/ Stop(c)
  <2>1. /\ UNCHANGED <<receives, pc, todo, outcome>>
        /\ faults' = faults + 1 /\ faults \in Nat
        /\ \A d \in Consumers : stopping[d] => stopping'[d]
    BY <1>1, CountsAreNumbers
       DEF RenewalFails, Stop, Fault, broker, JInv, IInv, Types
  <2>2. Paid'
    BY <2>1, FaultPays
  <2>3. Owed'
    BY <2>1, CountsAreNumbers DEF JInv, Owed, Paid, Healthy
  <2>4. Reasons'
    <3>1. \A d \in Consumers : outcome[d] = "transient" => Current(d).handle \in Nat
      BY HeadType DEF JInv, IInv, AtWork, Types, Handles, Outcomes
    <3> QED BY <2>1, <3>1 DEF JInv, Reasons, Current, Healthy
  <2> QED BY <2>2, <2>3, <2>4
<1>2. CASE EndBatch(c)
  <2>1. /\ UNCHANGED <<place, inFlight, receives, outcome, stopping, faults>>
        /\ pc[c] = "batch" /\ (todo[c] = <<>> \/ stopping[c])
        /\ todo' = [todo EXCEPT ![c] = <<>>] /\ pc' = [pc EXCEPT ![c] = "idle"]
    BY <1>2 DEF EndBatch, broker, database
  <2>2. /\ todo'[c] = <<>> /\ pc'[c] = "idle" /\ outcome[c] = "none" /\ Range(<<>>) = {}
        /\ \A d \in Consumers \ {c} : todo'[d] = todo[d] /\ pc'[d] = pc[d]
    BY <2>1 DEF JInv, IInv, Types, AtWork, Range
  <2>3. Owed'
    BY <2>1, <2>2 DEF JInv, Owed, Healthy
  <2>4. Reasons'
    BY <2>1, <2>2 DEF JInv, Reasons, Current, Healthy
  <2>5. Paid'
    <3>1. ASSUME NEW m \in Healthy, place[m] = "queue", ~Held(m)'
          PROVE  receives[m] <= faults
      <4>1. CASE ~Held(m)
        BY <3>1, <4>1 DEF JInv, Paid
      <4>2. CASE Held(m)
        <5>1. PICK d \in Consumers : [msg |-> m, handle |-> receives[m]] \in Range(todo[d])
          BY <4>2 DEF Held, InHand
        <5>2. d = c
          BY <2>1, <2>2, <3>1, <4>2, <5>1 DEF Held, InHand
        <5>3. stopping[c]
          BY <2>1, <2>2, <5>1, <5>2
        <5> QED BY <5>1, <5>2, <5>3 DEF JInv, Owed
      <4> QED BY <4>1, <4>2
    <3> QED BY <2>1, <3>1 DEF JInv, Paid, Healthy
  <2> QED BY <2>3, <2>4, <2>5
<1> QED BY <1>1, <1>2

LEMMA ResetPays ==
  ASSUME JInv, NEW c \in Consumers, Restart(c) \/ Crash(c)
  PROVE  Paid' /\ Owed' /\ Reasons'
<1>1. /\ Reset(c) /\ UNCHANGED <<place, inFlight, receives>>
      /\ (pc[c] = "idle" /\ UNCHANGED faults) \/ Fault
  BY DEF Restart, Crash, broker, database
<1>2. faults' \in {faults, faults + 1} /\ faults \in Nat
  BY <1>1, CountsAreNumbers DEF Fault, JInv
<1>3. /\ todo'[c] = <<>> /\ pc'[c] = "idle" /\ outcome'[c] = "none" /\ Range(<<>>) = {}
      /\ ~stopping'[c]
      /\ \A d \in Consumers \ {c} :
           todo'[d] = todo[d] /\ pc'[d] = pc[d] /\ outcome'[d] = outcome[d]
             /\ stopping'[d] = stopping[d]
  BY <1>1 DEF Reset, JInv, IInv, Types, Range
<1>4. Owed'
  BY <1>1, <1>2, <1>3, CountsAreNumbers DEF JInv, Owed, Healthy
<1>5. Reasons'
  <2>1. \A d \in Consumers : outcome[d] = "transient" => Current(d).handle \in Nat
    BY HeadType DEF JInv, IInv, AtWork, Types, Handles, Outcomes
  <2> QED BY <1>1, <1>2, <1>3, <2>1 DEF JInv, Reasons, Current, Healthy
<1>6. Paid'
  <2>1. CASE Fault
    BY <1>1, <2>1, FaultPays DEF Fault
  <2>2. CASE pc[c] = "idle" /\ UNCHANGED faults
    <3>1. \A d \in Consumers : todo'[d] = todo[d]
      BY <1>3, <2>2 DEF JInv, Reasons
    <3>2. \A m \in Messages : InHand(m)' = InHand(m)
      BY <1>1, <3>1 DEF InHand
    <3> QED BY <1>1, <2>2, <3>2 DEF JInv, Paid, Healthy, Held
  <2> QED BY <1>1, <2>1, <2>2
<1> QED BY <1>4, <1>5, <1>6

LEMMA StepPays == JInv /\ [Next]_vars => JInv'
<1> SUFFICES ASSUME JInv, [Next]_vars PROVE JInv'
  OBVIOUS
<1>1. IInv'
  BY StepHolds DEF JInv
<1>2. CASE UNCHANGED vars
  <2>1. UNCHANGED <<place, inFlight, receives, pc, todo, outcome, stopping, faults>>
    BY <1>2 DEF vars, broker, consumers
  <2>2. Paid' /\ Owed' /\ Reasons'
    BY <2>1 DEF JInv, Paid, Owed, Reasons, Healthy, Held, InHand, Current
  <2> QED BY <1>1, <2>2 DEF JInv
<1>3. CASE Next
  <2>1. Paid' /\ Owed' /\ Reasons'
    BY <1>3, BrokerPays, ReceivePays, StartPays, SubmitPays, SettlePays, LoopPays, ResetPays
       DEF Next
  <2> QED BY <1>1, <2>1 DEF JInv
<1> QED BY <1>2, <1>3

(* No healthy message comes nearer to the dead-letter queue without a      *)
(* fault: for any number of instances and messages, however lapses, stops  *)
(* and crashes are interleaved, its receives are at most the faults and    *)
(* one (consumer.go:202-231).                                              *)
THEOREM ReceivesCostFaultsHolds == Spec => []ReceivesCostFaults
<1>1. Init => JInv
  BY InitHolds, StartsPaid DEF JInv
<1>2. JInv => ReceivesCostFaults
  BY DEF JInv, Paid, Healthy, ReceivesCostFaults
<1> QED BY <1>1, <1>2, StepPays, PTL DEF Spec
==================================================================================
