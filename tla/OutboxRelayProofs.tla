--------------------------- MODULE OutboxRelayProofs ---------------------------
(***************************************************************************)
(* What OutboxRelay guarantees for every number of publishers and events,  *)
(* every batch and lease, and any number of faults.                        *)
(***************************************************************************)
EXTENDS OutboxRelay, Recursion, FiniteSetTheorems

(* The part of the state the fence and the delivery promise depend on.     *)
RelayTypes ==
  /\ commits \in Seq(Events)
  /\ log \in Seq(Events)
  /\ published \in [Events -> BOOLEAN]
  /\ attempts \in [Events -> Nat]
  /\ batch \in [Publishers -> SUBSET Records]
  /\ current \in [Publishers -> Records]
  /\ pc \in [Publishers -> {"idle", "sending", "confirm", "reschedule"}]
  /\ age \in [Events -> Int]
  /\ lease \in [Events -> Int]
  /\ wait = [e \in Events |-> wait[e]]

(* A batch has one record of an event at most and is empty between passes. *)
(* What a publisher sends is in its batch; it confirms what the queue took *)
InHand ==
  \A p \in Publishers :
    /\ \A r, s \in batch[p] : r.event = s.event => r = s
    /\ pc[p] = "idle" => batch[p] = {}
    /\ pc[p] \in {"confirm", "reschedule"} => current[p] \in batch[p]
    /\ pc[p] = "confirm" => current[p].event \in Range(log)

(* The queue took only stored events, those it remembers among them, and   *)
(* all the published ones.                                                 *)
Backed ==
  /\ Range(log) \subseteq Stored
  /\ \A e \in Events : age[e] < DedupWindow => e \in Range(log)
  /\ \A e \in Events : published[e] => e \in Range(log)

IInv == RelayTypes /\ OneHolder /\ InHand /\ Backed

(* Appending adds exactly the appended element to a sequence's range.      *)
LEMMA RangeAppend ==
  ASSUME NEW S, NEW s \in Seq(S), NEW e \in S
  PROVE  Range(Append(s, e)) = Range(s) \cup {e} /\ Append(s, e) \in Seq(S)
<1>1. \A i \in 1..Len(s) : Append(s, e)[i] = s[i]
  OBVIOUS
<1>2. Append(s, e)[Len(s) + 1] = e /\ Len(Append(s, e)) = Len(s) + 1
  OBVIOUS
<1>3. DOMAIN s = 1..Len(s) /\ DOMAIN Append(s, e) = 1..(Len(s) + 1) /\ Len(s) \in Nat
  OBVIOUS
<1> QED
  BY <1>1, <1>2, <1>3 DEF Range

(* Concatenation unites the ranges.                                        *)
LEMMA RangeConcat ==
  ASSUME NEW S, NEW s \in Seq(S), NEW t \in Seq(S)
  PROVE  Range(s \o t) = Range(s) \cup Range(t) /\ s \o t \in Seq(S)
<1>1. DOMAIN s = 1..Len(s) /\ DOMAIN t = 1..Len(t) /\ Len(s) \in Nat /\ Len(t) \in Nat
  OBVIOUS
<1>2. DOMAIN (s \o t) = 1..(Len(s) + Len(t))
  OBVIOUS
<1>3. \A i \in 1..Len(s) : (s \o t)[i] = s[i]
  OBVIOUS
<1>4. \A i \in 1..Len(t) : (s \o t)[Len(s) + i] = t[i]
  OBVIOUS
<1>5. \A i \in 1..(Len(s) + Len(t)) :
        i \in 1..Len(s) \/ (i - Len(s) \in 1..Len(t) /\ i = Len(s) + (i - Len(s)))
  BY <1>1
<1>6. \A i \in 1..Len(s) : i \in 1..(Len(s) + Len(t))
  BY <1>1
<1>7. \A i \in 1..Len(t) : Len(s) + i \in 1..(Len(s) + Len(t))
  BY <1>1
<1>8. Range(s) \cup Range(t) \subseteq Range(s \o t)
  BY <1>1, <1>2, <1>3, <1>4, <1>6, <1>7 DEF Range
<1>9. Range(s \o t) \subseteq Range(s) \cup Range(t)
  BY <1>1, <1>2, <1>3, <1>4, <1>5 DEF Range
<1> QED
  BY <1>8, <1>9

LEMMA InitInv == Init => IInv
<1> SUFFICES ASSUME Init PROVE IInv
  OBVIOUS
<1> USE DEF Init
<1>1. NoRecord \in Records
  BY RelayAssumptions DEF NoRecord, Records
<1>2. Range(<<>>) = {} /\ <<>> \in Seq(Events)
  BY DEF Range
<1>3. DedupWindow \in Int /\ Unclaimed \in Int
  BY RelayAssumptions DEF Unclaimed
<1>4. RelayTypes
  BY <1>1, <1>2, <1>3 DEF RelayTypes
<1>5. OneHolder
  BY DEF OneHolder
<1>6. InHand
  BY DEF InHand
<1>7. Backed
  BY <1>2, <1>3 DEF Backed, Stored
<1> QED
  BY <1>4, <1>5, <1>6, <1>7 DEF IInv

(* New events change nothing that is already there.                        *)
LEMMA CommitInv ==
  ASSUME IInv, CommitEvents
  PROVE  IInv'
<1> USE DEF IInv
<1>1. PICK s \in Emissions, lag \in 0..Horizon :
        /\ commits' = commits \o s
        /\ wait' = [e \in Events |-> IF e \in Range(s) THEN -lag ELSE wait[e]]
  BY DEF CommitEvents
<1>2. s \in Seq(Events)
  BY RelayAssumptions
<1>3. commits' \in Seq(Events) /\ Range(commits') = Range(commits) \cup Range(s)
  BY <1>1, <1>2, RangeConcat DEF RelayTypes
<1>4. Stored \subseteq Stored'
  BY <1>3 DEF Stored
<1>5. UNCHANGED <<lease, attempts, published, log, age, pc, batch, current>>
  BY DEF CommitEvents, queue, procs
<1>6. RelayTypes'
  BY <1>1, <1>3, <1>5 DEF RelayTypes
<1>7. OneHolder'
  BY <1>4, <1>5 DEF OneHolder
<1>8. InHand'
  BY <1>5 DEF InHand
<1>9. Backed'
  BY <1>4, <1>5 DEF Backed
<1> QED
  BY <1>6, <1>7, <1>8, <1>9

(* A claim numbers its records above every number handed out before.       *)
LEMMA ClaimInv ==
  ASSUME IInv, NEW p \in Publishers, Claim(p)
  PROVE  IInv'
<1> USE DEF IInv
<1>1. PICK E \in SUBSET Events :
        /\ FirstDue(E)
        /\ LeaseRows(E)
        /\ \/ /\ batch' = [batch EXCEPT ![p] =
                             {[event |-> e, attempts |-> attempts'[e]] : e \in E}]
              /\ pc' = [pc EXCEPT ![p] = "sending"]
              /\ UNCHANGED <<current, elapsed, faults>>
           \/ Fault /\ UNCHANGED procs
  BY DEF Claim
<1>2. UNCHANGED <<commits, log, age, wait, published>> /\ current' = current
  BY <1>1 DEF Claim, queue, LeaseRows, procs
<1>3. E \subseteq Stored
  BY <1>1 DEF FirstDue, Due, Pending
<1>4. /\ attempts' \in [Events -> Nat]
      /\ \A e \in Events : attempts'[e] >= attempts[e]
      /\ \A e \in E : attempts'[e] = attempts[e] + 1
  BY <1>1 DEF LeaseRows, RelayTypes
<1>5. lease' \in [Events -> Int]
  BY <1>1, RelayAssumptions DEF LeaseRows, RelayTypes
<1>6. Stored' = Stored
  BY <1>2 DEF Stored
<1>7. Backed'
  BY <1>2, <1>6 DEF Backed
<1>8. ASSUME UNCHANGED procs
      PROVE  IInv'
  <2>1. UNCHANGED <<pc, batch, current>>
    BY <1>8 DEF procs
  <2>2. RelayTypes'
    BY <1>2, <1>4, <1>5, <2>1 DEF RelayTypes
  <2>3. OneHolder'
    <3>1. ASSUME NEW q \in Publishers, NEW r \in batch[q]
          PROVE  r.event \in Stored /\ r.attempts \in 1..attempts'[r.event]
      <4>1. r.event \in Events /\ r.attempts \in Nat
        BY DEF RelayTypes, Records
      <4>2. r.event \in Stored /\ r.attempts \in 1..attempts[r.event]
        BY DEF OneHolder
      <4>3. attempts'[r.event] >= attempts[r.event]
        BY <1>4, <4>1
      <4>4. attempts[r.event] \in Nat /\ attempts'[r.event] \in Nat
        BY <1>4, <4>1 DEF RelayTypes
      <4> HIDE DEF IInv
      <4> QED
        BY <4>1, <4>2, <4>3, <4>4
    <3> QED
      BY <1>6, <2>1, <3>1 DEF OneHolder
  <2>4. InHand'
    BY <1>2, <2>1 DEF InHand
  <2> QED
    BY <1>7, <2>2, <2>3, <2>4
<1>9. ASSUME batch' = [batch EXCEPT ![p] =
                        {[event |-> e, attempts |-> attempts'[e]] : e \in E}],
             pc' = [pc EXCEPT ![p] = "sending"]
      PROVE  IInv'
  <2> DEFINE fresh == {[event |-> e, attempts |-> attempts'[e]] : e \in E}
  <2>1. /\ batch'[p] = fresh
        /\ \A q \in Publishers : q # p => batch'[q] = batch[q] /\ pc'[q] = pc[q]
        /\ pc'[p] = "sending"
    BY <1>9 DEF RelayTypes
  <2>2. fresh \in SUBSET Records
    BY <1>4 DEF Records
  <2>3. \A r \in fresh : /\ r.event \in E
                         /\ r.attempts = attempts'[r.event]
                         /\ r = [event |-> r.event, attempts |-> attempts'[r.event]]
    OBVIOUS
  <2> HIDE DEF fresh
  <2>4. RelayTypes'
    BY <1>2, <1>4, <1>5, <1>9, <2>2 DEF RelayTypes, fresh
  <2>5. \A r \in fresh : /\ r.event \in Stored
                         /\ r.attempts \in 1..attempts'[r.event]
                         /\ r.attempts > attempts[r.event]
    BY <1>3, <1>4, <2>3 DEF RelayTypes
  <2>6. \A q \in Publishers : q # p =>
          \A r \in batch[q] : /\ r.event \in Stored
                              /\ r.attempts \in 1..attempts'[r.event]
                              /\ r.attempts <= attempts[r.event]
    <3> SUFFICES ASSUME NEW q \in Publishers, NEW r \in batch[q]
                 PROVE  /\ r.event \in Stored
                        /\ r.attempts \in 1..attempts'[r.event]
                        /\ r.attempts <= attempts[r.event]
      OBVIOUS
    <3>1. r.event \in Events /\ r.attempts \in Nat
      BY DEF RelayTypes, Records
    <3>2. r.event \in Stored /\ r.attempts \in 1..attempts[r.event]
      BY DEF OneHolder
    <3>3. /\ attempts'[r.event] >= attempts[r.event]
          /\ attempts[r.event] \in Nat /\ attempts'[r.event] \in Nat
      BY <1>4, <3>1 DEF RelayTypes
    <3> HIDE DEF IInv
    <3> QED
      BY <3>1, <3>2, <3>3
  <2>7. \A q \in Publishers : q # p => batch[q] \cap fresh = {}
    <3> SUFFICES ASSUME NEW q \in Publishers, q # p, NEW r \in batch[q], r \in fresh
                 PROVE  FALSE
      OBVIOUS
    <3>1. r.attempts \in Nat /\ attempts[r.event] \in Nat
      BY DEF RelayTypes, Records
    <3> QED
      BY <2>5, <2>6, <3>1
  <2>8. OneHolder'
    <3>1. \A a, b \in Publishers : a # b => batch'[a] \cap batch'[b] = {}
      BY <2>1, <2>7 DEF OneHolder
    <3>2. \A a \in Publishers : \A r \in batch'[a] :
            r.event \in Stored /\ r.attempts \in 1..attempts'[r.event]
      BY <2>1, <2>5, <2>6
    <3> QED
      BY <1>6, <3>1, <3>2 DEF OneHolder
  <2>9. InHand'
    BY <1>2, <2>1, <2>3 DEF InHand
  <2> QED
    BY <1>7, <2>4, <2>8, <2>9
<1> QED
  BY <1>1, <1>8, <1>9

(* The queue keeps what it has and takes at most the event it is sent.     *)
LEMMA TakeGrows ==
  ASSUME IInv, NEW e \in Events, Take(e)
  PROVE  /\ log' \in Seq(Events)
         /\ Range(log') = Range(log) \cup {e}
         /\ age' \in [Events -> Int]
         /\ \A f \in Events : age'[f] < DedupWindow => f \in Range(log')
<1> USE DEF IInv
<1>1. CASE age[e] < DedupWindow
  <2>1. UNCHANGED <<log, age>>
    BY <1>1 DEF Take, queue
  <2>2. e \in Range(log)
    BY <1>1 DEF Backed
  <2> QED
    BY <2>1, <2>2 DEF RelayTypes, Backed
<1>2. CASE ~(age[e] < DedupWindow)
  <2>1. log' = Append(log, e) /\ age' = [age EXCEPT ![e] = 0]
    BY <1>2 DEF Take
  <2>2. log' \in Seq(Events) /\ Range(log') = Range(log) \cup {e}
    BY <2>1, RangeAppend DEF RelayTypes
  <2> QED
    BY <2>1, <2>2 DEF RelayTypes, Backed
<1> QED
  BY <1>1, <1>2

LEMMA PublishInv ==
  ASSUME IInv, NEW p \in Publishers, Publish(p)
  PROVE  IInv'
<1> USE DEF IInv
<1>1. PICK r \in batch[p] :
        /\ current' = [current EXCEPT ![p] = r]
        /\ \/ Take(r.event) /\ pc' = [pc EXCEPT ![p] = "confirm"]
           \/ /\ Take(r.event) \/ UNCHANGED queue
              /\ pc' = [pc EXCEPT ![p] = "reschedule"]
  BY DEF Publish
<1>2. UNCHANGED <<commits, wait, lease, attempts, published, batch>>
  BY DEF Publish, columns
<1>3. r \in Records /\ r.event \in Events /\ r.event \in Stored
  BY DEF RelayTypes, OneHolder, Records
<1>4. \/ Take(r.event)
      \/ pc' = [pc EXCEPT ![p] = "reschedule"] /\ UNCHANGED <<log, age>>
  BY <1>1 DEF queue
<1>5. /\ log' \in Seq(Events) /\ age' \in [Events -> Int]
      /\ Range(log) \subseteq Range(log')
      /\ Range(log') \subseteq Range(log) \cup {r.event}
      /\ \A f \in Events : age'[f] < DedupWindow => f \in Range(log')
  <2>1. CASE Take(r.event)
    BY <1>3, <2>1, TakeGrows
  <2>2. CASE UNCHANGED <<log, age>>
    BY <2>2 DEF RelayTypes, Backed
  <2> QED
    BY <1>4, <2>1, <2>2
<1>6. pc'[p] = "confirm" => r.event \in Range(log')
  BY <1>1, <1>3, <1>4, TakeGrows DEF RelayTypes
<1>7. RelayTypes'
  BY <1>1, <1>2, <1>3, <1>5 DEF RelayTypes
<1>8. OneHolder'
  BY <1>2 DEF OneHolder, Stored
<1>9. InHand'
  <2> SUFFICES ASSUME NEW q \in Publishers
               PROVE  /\ \A a, b \in batch[q] : a.event = b.event => a = b
                      /\ pc'[q] = "idle" => batch[q] = {}
                      /\ pc'[q] \in {"confirm", "reschedule"} => current'[q] \in batch[q]
                      /\ pc'[q] = "confirm" => current'[q].event \in Range(log')
    BY <1>2 DEF InHand
  <2>1. CASE q = p
    <3>1. current'[p] = r /\ pc'[p] \in {"confirm", "reschedule"}
      BY <1>1 DEF RelayTypes
    <3> QED
      BY <1>1, <1>6, <2>1, <3>1 DEF InHand
  <2>2. CASE q # p
    <3>1. current'[q] = current[q] /\ pc'[q] = pc[q]
      BY <1>1, <2>2 DEF RelayTypes
    <3> QED
      BY <1>5, <3>1 DEF InHand
  <2> QED
    BY <2>1, <2>2
<1>10. Backed'
  BY <1>2, <1>3, <1>5 DEF Backed, Stored
<1> QED
  BY <1>7, <1>8, <1>9, <1>10

(* What finishing a record, or the pass, does to a batch.                  *)
Finish(p) == NextRecord(p) \/ EndPass(p)

LEMMA FinishFrame ==
  ASSUME IInv, NEW p \in Publishers, Finish(p)
  PROVE  /\ batch'[p] \subseteq batch[p]
         /\ pc'[p] \in {"idle", "sending"}
         /\ pc'[p] = "idle" => batch'[p] = {}
         /\ \A q \in Publishers \ {p} :
              batch'[q] = batch[q] /\ pc'[q] = pc[q] /\ current'[q] = current[q]
         /\ batch' \in [Publishers -> SUBSET Records]
         /\ current' \in [Publishers -> Records]
         /\ pc' \in [Publishers -> {"idle", "sending", "confirm", "reschedule"}]
<1>1. NoRecord \in Records
  BY RelayAssumptions DEF NoRecord, Records
<1>2. /\ batch \in [Publishers -> SUBSET Records]
      /\ current \in [Publishers -> Records]
      /\ pc \in [Publishers -> {"idle", "sending", "confirm", "reschedule"}]
  BY DEF IInv, RelayTypes
<1>3. PICK rest \in SUBSET batch[p], after \in {"idle", "sending"} :
        /\ after = "idle" => rest = {}
        /\ batch' = [batch EXCEPT ![p] = rest]
        /\ pc' = [pc EXCEPT ![p] = after]
        /\ current' = [current EXCEPT ![p] = NoRecord]
  <2>1. CASE EndPass(p)
    BY <2>1 DEF EndPass
  <2>2. CASE NextRecord(p) /\ ~EndPass(p)
    BY <2>2 DEF NextRecord
  <2> QED
    BY <2>1, <2>2 DEF Finish
<1>4. rest \in SUBSET Records
  BY <1>2
<1>5. /\ batch'[p] = rest
      /\ batch' \in [Publishers -> SUBSET Records]
      /\ \A q \in Publishers \ {p} : batch'[q] = batch[q]
  BY <1>2, <1>3, <1>4
<1>6. /\ pc'[p] = after
      /\ pc' \in [Publishers -> {"idle", "sending", "confirm", "reschedule"}]
      /\ \A q \in Publishers \ {p} : pc'[q] = pc[q]
  BY <1>2, <1>3
<1>7. /\ current' \in [Publishers -> Records]
      /\ \A q \in Publishers \ {p} : current'[q] = current[q]
  BY <1>1, <1>2, <1>3
<1> QED
  BY <1>3, <1>5, <1>6, <1>7

LEMMA FinishInv ==
  ASSUME IInv, NEW p \in Publishers, Finish(p),
         UNCHANGED <<commits, queue, attempts>>,
         lease' \in [Events -> Int],
         wait' = [e \in Events |-> wait'[e]],
         published' \in [Events -> BOOLEAN],
         \A e \in Events : published'[e] => e \in Range(log)
  PROVE  IInv'
<1> USE DEF IInv
<1>1. UNCHANGED <<commits, log, age, attempts>>
  BY DEF queue
<1>2. RelayTypes'
  BY <1>1, FinishFrame DEF RelayTypes
<1>3. OneHolder'
  <2>1. \A q \in Publishers : batch'[q] \subseteq batch[q]
    BY FinishFrame
  <2> QED
    BY <1>1, <2>1 DEF OneHolder, Stored
<1>4. InHand'
  <2> SUFFICES ASSUME NEW q \in Publishers
               PROVE  /\ \A a, b \in batch'[q] : a.event = b.event => a = b
                      /\ pc'[q] = "idle" => batch'[q] = {}
                      /\ pc'[q] \in {"confirm", "reschedule"} => current'[q] \in batch'[q]
                      /\ pc'[q] = "confirm" => current'[q].event \in Range(log)
    BY <1>1 DEF InHand
  <2>1. CASE q = p
    BY <2>1, FinishFrame DEF InHand
  <2>2. CASE q # p
    BY <2>2, FinishFrame DEF InHand
  <2> QED
    BY <2>1, <2>2
<1>5. Backed'
  BY <1>1 DEF Backed, Stored
<1> QED
  BY <1>2, <1>3, <1>4, <1>5

(* Marking, rescheduling, or leaving the columns alone keeps their types.  *)
LEMMA ColumnTypes ==
  ASSUME IInv, NEW p \in Publishers,
         \/ MarkPublished(current[p])
         \/ RetryLater(current[p], elapsed[p])
         \/ UNCHANGED columns
  PROVE  /\ lease' \in [Events -> Int]
         /\ wait' = [e \in Events |-> wait'[e]]
         /\ published' \in [Events -> BOOLEAN]
         /\ attempts' = attempts
         /\ \A e \in Events : published'[e] =>
              published[e] \/ (MarkPublished(current[p]) /\ e = current[p].event)
<1>1. current[p].event \in Events /\ Unclaimed \in Int
  BY DEF IInv, RelayTypes, Records, Unclaimed
<1>2. CASE MarkPublished(current[p])
  BY <1>1, <1>2 DEF IInv, RelayTypes, MarkPublished
<1>3. CASE RetryLater(current[p], elapsed[p])
  BY <1>1, <1>3 DEF IInv, RelayTypes, RetryLater
<1>4. CASE UNCHANGED columns
  BY <1>4 DEF IInv, RelayTypes, columns
<1> QED
  BY <1>2, <1>3, <1>4

(* Confirm, Reschedule and GiveUp mark an event only in a pass whose send  *)
(* of it the queue has taken.                                              *)
Close(p) == Confirm(p) \/ Reschedule(p) \/ GiveUp(p)

LEMMA CloseShape ==
  ASSUME IInv, NEW p \in Publishers, Close(p)
  PROVE  /\ Finish(p)
         /\ UNCHANGED <<commits, queue>>
         /\ \/ pc[p] = "confirm" /\ HoldsLease(current[p]) /\ MarkPublished(current[p])
            \/ /\ pc[p] = "reschedule" /\ HoldsLease(current[p])
               /\ RetryLater(current[p], elapsed[p])
            \/ UNCHANGED columns
<1>1. CASE Confirm(p)
  BY <1>1 DEF Confirm, Finish
<1>2. CASE Reschedule(p)
  BY <1>2 DEF Reschedule, Finish
<1>3. CASE GiveUp(p)
  BY <1>3 DEF GiveUp, Finish
<1> QED
  BY <1>1, <1>2, <1>3 DEF Close

LEMMA CloseInv ==
  ASSUME IInv, NEW p \in Publishers, Close(p)
  PROVE  IInv'
<1>1. Finish(p) /\ UNCHANGED <<commits, queue>>
  BY CloseShape
<1>2. /\ lease' \in [Events -> Int]
      /\ wait' = [e \in Events |-> wait'[e]]
      /\ published' \in [Events -> BOOLEAN]
      /\ attempts' = attempts
  BY CloseShape, ColumnTypes
<1>3. ASSUME NEW e \in Events, published'[e]
      PROVE  e \in Range(log)
  <2>1. CASE published[e]
    BY <2>1 DEF IInv, Backed
  <2>2. CASE ~published[e]
    <3>1. ~UNCHANGED columns
      BY <1>3, <2>2 DEF columns
    <3>2. ~RetryLater(current[p], elapsed[p])
      BY <1>3, <2>2 DEF RetryLater
    <3>3. pc[p] = "confirm" /\ e = current[p].event
      BY <1>3, <2>2, <3>1, <3>2, CloseShape, ColumnTypes
    <3> QED
      BY <3>3 DEF IInv, InHand
  <2> QED
    BY <2>1, <2>2
<1> QED
  BY <1>1, <1>2, <1>3, FinishInv

(* Time moves no number and no send.                                       *)
LEMMA TickInv ==
  ASSUME IInv, Tick
  PROVE  IInv'
<1> USE DEF IInv
<1>1. UNCHANGED <<commits, attempts, published, log, pc, batch, current>>
  BY DEF Tick
<1>2. lease' \in [Events -> Int] /\ wait' = [e \in Events |-> wait'[e]]
  BY DEF Tick, RelayTypes
<1>3. /\ age' \in [Events -> Int]
      /\ \A e \in Events : age'[e] < DedupWindow => age[e] < DedupWindow
  BY RelayAssumptions DEF Tick, RelayTypes
<1>4. RelayTypes'
  BY <1>1, <1>2, <1>3 DEF RelayTypes
<1>5. OneHolder' /\ InHand'
  BY <1>1 DEF OneHolder, InHand, Stored
<1>6. Backed'
  BY <1>1, <1>3 DEF Backed, Stored
<1> QED
  BY <1>4, <1>5, <1>6

LEMMA StepInv == IInv /\ [Next]_vars => IInv'
<1> SUFFICES ASSUME IInv, [Next]_vars PROVE IInv'
  OBVIOUS
<1>1. CASE CommitEvents
  BY <1>1, CommitInv
<1>2. ASSUME NEW p \in Publishers,
             Claim(p) \/ Publish(p) \/ Confirm(p) \/ Reschedule(p) \/ GiveUp(p)
      PROVE  IInv'
  BY <1>2, ClaimInv, PublishInv, CloseInv DEF Close
<1>3. CASE Tick
  BY <1>3, TickInv
<1>4. CASE UNCHANGED vars
  <2>1. UNCHANGED <<commits, wait, lease, attempts, published, log, age, pc, batch, current>>
    BY <1>4 DEF vars, columns, queue, procs
  <2> QED
    BY <2>1 DEF IInv, RelayTypes, OneHolder, InHand, Backed, Stored
<1> QED
  BY <1>1, <1>2, <1>3, <1>4 DEF Next

(* Each claim of an event is in the hands of one publisher at most.        *)
THEOREM OneHolderHolds == Spec => []OneHolder
<1>1. IInv => OneHolder
  BY DEF IInv
<1> QED
  BY <1>1, InitInv, StepInv, PTL DEF Spec

(* Finishing a record of an older claim leaves the row as it is.           *)
LEMMA FenceStep ==
  ASSUME IInv, [Next]_vars, NEW p \in Publishers, NEW r \in batch[p],
         r \notin batch'[p], r.attempts < attempts[r.event]
  PROVE  Columns(r.event)' = Columns(r.event)
<1>1. ASSUME NEW q \in Publishers, Close(q)
      PROVE  Columns(r.event)' = Columns(r.event)
  <2>1. q = p
    BY <1>1, CloseShape, FinishFrame
  <2>2. CASE UNCHANGED columns
    BY <2>2 DEF columns, Columns
  <2>3. ASSUME pc[p] \in {"confirm", "reschedule"}, HoldsLease(current[p]),
               MarkPublished(current[p]) \/ RetryLater(current[p], elapsed[p])
        PROVE  Columns(r.event)' = Columns(r.event)
    <3>1. current[p] \in batch[p] /\ current[p].attempts = attempts[current[p].event]
      BY <2>3 DEF IInv, InHand, HoldsLease
    <3>2. r.event # current[p].event
      BY <3>1 DEF IInv, InHand, RelayTypes, Records
    <3>3. r.event \in Events /\ current[p].event \in Events
      BY DEF IInv, RelayTypes, Records
    <3> QED
      BY <2>3, <3>2, <3>3 DEF MarkPublished, RetryLater, Columns, IInv, RelayTypes
  <2> QED
    BY <1>1, <2>1, <2>2, <2>3, CloseShape
<1>2. ASSUME NEW q \in Publishers, Claim(q)
      PROVE  r \in batch'[p]
  <2>1. q # p
    BY <1>2 DEF Claim, IInv, InHand
  <2> QED
    BY <1>2, <2>1 DEF Claim, IInv, RelayTypes, procs
<1>3. ASSUME UNCHANGED batch
      PROVE  r \in batch'[p]
  BY <1>3
<1>4. CommitEvents \/ Tick \/ UNCHANGED vars => UNCHANGED batch
  BY DEF CommitEvents, Tick, vars, procs
<1>5. \A q \in Publishers : Publish(q) => UNCHANGED batch
  BY DEF Publish
<1> QED
  BY <1>1, <1>2, <1>3, <1>4, <1>5 DEF Next, Close

(* A publisher whose claim is not the last one of a row cannot change it.  *)
THEOREM LeaseFenceHolds == Spec => LeaseFence
<1> DEFINE Fence ==
      \A p \in Publishers : \A r \in batch[p] \ batch'[p] :
        r.attempts < attempts[r.event] => Columns(r.event)' = Columns(r.event)
<1>1. IInv /\ [Next]_vars => [Fence]_vars
  BY FenceStep
<1> HIDE DEF Fence
<1>2. Spec => [][Fence]_vars
  BY <1>1, InitInv, StepInv, PTL DEF Spec
<1> QED
  BY <1>2 DEF LeaseFence, Fence

LEMMA StageUnchanged ==
  ASSUME IInv, UNCHANGED <<commits, published, log>>
  PROVE  Stage' = Stage
BY DEF Stage, StageOf, Stored

LEMMA StageAt ==
  ASSUME NEW e \in Events
  PROVE  Stage[e] = StageOf(e) /\ Stage'[e] = StageOf(e)'
BY DEF Stage

(* If only event e may have moved, and by one stage, the step is that of e *)
LEMMA OneAdvance ==
  ASSUME IInv, NEW e \in Events,
         \A f \in Events \ {e} : StageOf(f)' = StageOf(f),
         \/ StageOf(e)' = StageOf(e)
         \/ StageOf(e) = "stored" /\ StageOf(e)' = "accepted"
         \/ StageOf(e) = "accepted" /\ StageOf(e)' = "published"
  PROVE  [Delivery!Next]_Stage
<1>1. Stage' = [Stage EXCEPT ![e] = StageOf(e)']
  BY DEF Stage
<1>2. CASE StageOf(e)' = StageOf(e)
  BY <1>1, <1>2 DEF Stage
<1>3. CASE StageOf(e) = "stored" /\ StageOf(e)' = "accepted"
  <2>1. Delivery!Accept(e)
    BY <1>1, <1>3 DEF Delivery!Accept, Delivery!Advance, Stage
  <2> QED
    BY <2>1 DEF Delivery!Next
<1>4. CASE StageOf(e) = "accepted" /\ StageOf(e)' = "published"
  <2>1. Delivery!Confirm(e)
    BY <1>1, <1>4 DEF Delivery!Confirm, Delivery!Advance, Stage
  <2> QED
    BY <2>1 DEF Delivery!Next
<1> QED
  BY <1>2, <1>3, <1>4

LEMMA CommitDelivers ==
  ASSUME IInv, CommitEvents
  PROVE  [Delivery!Next]_Stage
<1>1. PICK s \in Emissions : Range(s) \cap Stored = {} /\ commits' = commits \o s
  BY DEF CommitEvents
<1>2. s \in Seq(Events) /\ s # <<>>
  BY RelayAssumptions
<1>3. Stored' = Stored \cup Range(s)
  BY <1>1, <1>2, RangeConcat DEF Stored, IInv, RelayTypes
<1>4. Range(s) \in SUBSET Events /\ Range(s) # {}
  <2>1. 1 \in DOMAIN s
    BY <1>2
  <2>2. \A i \in DOMAIN s : s[i] \in Events
    BY <1>2
  <2> QED
    BY <2>1, <2>2 DEF Range
<1>5. UNCHANGED <<published, log>>
  BY DEF CommitEvents, queue
<1>6. \A e \in Events : /\ published[e] => e \in Stored
                        /\ e \in Range(log) => e \in Stored
  BY DEF IInv, Backed
<1>7. \A e \in Range(s) : StageOf(e) = "absent" /\ StageOf(e)' = "stored"
  <2> SUFFICES ASSUME NEW e \in Range(s)
               PROVE  StageOf(e) = "absent" /\ StageOf(e)' = "stored"
    OBVIOUS
  <2>1. e \notin Stored /\ e \in Stored'
    BY <1>1, <1>3
  <2>2. ~published[e] /\ e \notin Range(log)
    BY <1>4, <1>6, <2>1
  <2>3. StageOf(e) = "absent"
    BY <2>1 DEF StageOf
  <2>4. StageOf(e)' = "stored"
    BY <1>5, <2>1, <2>2 DEF StageOf
  <2> QED
    BY <2>3, <2>4
<1>8. \A e \in Events \ Range(s) : StageOf(e)' = StageOf(e)
  BY <1>3, <1>5 DEF StageOf
<1>9. Delivery!Commit(Range(s))
  BY <1>4, <1>7, <1>8 DEF Delivery!Commit, Stage
<1> QED
  BY <1>4, <1>9 DEF Delivery!Next

LEMMA PublishDelivers ==
  ASSUME IInv, NEW p \in Publishers, Publish(p)
  PROVE  [Delivery!Next]_Stage
<1>1. PICK r \in batch[p] : Take(r.event) \/ UNCHANGED queue
  BY DEF Publish
<1>2. r.event \in Events /\ r.event \in Stored
  BY DEF IInv, RelayTypes, Records, OneHolder
<1>3. UNCHANGED <<commits, published>>
  BY DEF Publish, columns
<1>4. CASE UNCHANGED queue
  BY <1>3, <1>4, StageUnchanged DEF queue
<1>5. CASE Take(r.event)
  <2>1. Range(log') = Range(log) \cup {r.event}
    BY <1>2, <1>5, TakeGrows
  <2>2. \A f \in Events \ {r.event} : StageOf(f)' = StageOf(f)
    BY <1>3, <2>1 DEF StageOf, Stored
  <2>3. \/ StageOf(r.event)' = StageOf(r.event)
        \/ StageOf(r.event) = "stored" /\ StageOf(r.event)' = "accepted"
    BY <1>2, <1>3, <2>1 DEF StageOf, Stored
  <2> QED
    BY <1>2, <2>2, <2>3, OneAdvance
<1> QED
  BY <1>1, <1>4, <1>5

LEMMA CloseDelivers ==
  ASSUME IInv, NEW p \in Publishers, Close(p)
  PROVE  [Delivery!Next]_Stage
<1>1. UNCHANGED <<commits, log>>
  BY CloseShape DEF queue
<1>2. CASE UNCHANGED published
  BY <1>1, <1>2, StageUnchanged
<1>3. ASSUME pc[p] = "confirm", HoldsLease(current[p]), MarkPublished(current[p])
      PROVE  [Delivery!Next]_Stage
  <2>1. PICK e \in Events : e = current[p].event
    BY DEF IInv, RelayTypes, Records
  <2>2. e \in Range(log) /\ e \in Stored
    BY <1>3, <2>1 DEF IInv, InHand, Backed
  <2>3. /\ \A f \in Events \ {e} : published'[f] = published[f]
        /\ published'[e] = TRUE
        /\ ~published[e]
    BY <1>3, <2>1 DEF MarkPublished, HoldsLease, IInv, RelayTypes
  <2>4. \A f \in Events \ {e} : StageOf(f)' = StageOf(f)
    BY <1>1, <2>3 DEF StageOf, Stored
  <2>5. StageOf(e) = "accepted" /\ StageOf(e)' = "published"
    BY <1>1, <2>2, <2>3 DEF StageOf, Stored
  <2> QED
    BY <2>1, <2>4, <2>5, OneAdvance
<1> QED
  BY <1>2, <1>3, CloseShape DEF RetryLater, columns

LEMMA DeliveryStep ==
  ASSUME IInv, [Next]_vars
  PROVE  [Delivery!Next]_Stage
<1>1. CASE CommitEvents
  BY <1>1, CommitDelivers
<1>2. ASSUME NEW p \in Publishers, Publish(p)
      PROVE  [Delivery!Next]_Stage
  BY <1>2, PublishDelivers
<1>3. ASSUME NEW p \in Publishers, Close(p)
      PROVE  [Delivery!Next]_Stage
  BY <1>3, CloseDelivers
<1>4. ASSUME NEW p \in Publishers, Claim(p)
      PROVE  [Delivery!Next]_Stage
  <2>1. UNCHANGED <<commits, published, log>>
    BY <1>4 DEF Claim, LeaseRows, queue
  <2> QED
    BY <2>1, StageUnchanged
<1>5. CASE Tick \/ UNCHANGED vars
  <2>1. UNCHANGED <<commits, published, log>>
    BY <1>5 DEF Tick, vars, columns, queue
  <2> QED
    BY <2>1, StageUnchanged
<1> QED
  BY <1>1, <1>2, <1>3, <1>4, <1>5 DEF Next, Close

LEMMA DeliveryInit == Init => Delivery!Init
<1> SUFFICES ASSUME Init PROVE Delivery!Init
  OBVIOUS
<1>1. Stored = {}
  BY DEF Init, Stored, Range
<1> QED
  BY <1>1 DEF Delivery!Init, Stage, StageOf

(* The relay implements EventDelivery: an event is published only after    *)
(* the queue took it, and nothing committed is ever lost from sight.       *)
THEOREM DeliveryHolds == Spec => DeliverySpec
<1>1. IInv /\ [Next]_vars => [Delivery!Next]_Stage
  BY DeliveryStep
<1> QED
  BY <1>1, DeliveryInit, InitInv, StepInv, PTL DEF Spec, DeliverySpec, Delivery!Spec

(***************************************************************************)
(* Duplicates cost faults                                                  *)
(***************************************************************************)

(* What publisher p has claimed and not sent yet.                          *)
Unsent(p) ==
  batch[p] \ (IF pc[p] \in {"confirm", "reschedule"} THEN {current[p]} ELSE {})

RecordOf(e, n) == [event |-> e, attempts |-> n]

(* The claims of e that nobody is going to send any more.                  *)
Spent(e) ==
  {n \in 1..attempts[e] : \A p \in Publishers : RecordOf(e, n) \notin Unsent(p)}

(* Each copy was sent under a claim of its own.                            *)
Claimed ==
  \A e \in Events :
    IsFiniteSet(Copies(e)) /\ Cardinality(Copies(e)) <= Cardinality(Spent(e))

(* The last claim of e has come to its end without a fault, or still may.  *)
GoesWell(e) ==
  \/ published[e]
  \/ /\ lease[e] > 0
     /\ \E p \in Publishers :
          /\ RecordOf(e, attempts[e]) \in batch[p]
          /\ ~(pc[p] = "reschedule" /\ current[p] = RecordOf(e, attempts[e]))

(* Each claim of e that did not go well goes back to a fault.              *)
Paid == \A e \in Events : attempts[e] <= faults + (IF GoesWell(e) THEN 1 ELSE 0)

CopiesInv == IInv /\ faults \in Nat /\ Claimed /\ Paid

(* Claims are numbered from 1, so that no more are spent than there were.  *)
LEMMA NumbersFinite ==
  ASSUME NEW n \in Nat, NEW S \in SUBSET (1..n)
  PROVE  IsFiniteSet(S) /\ Cardinality(S) \in Nat /\ Cardinality(S) <= n
<1>1. IsFiniteSet(1..n) /\ Cardinality(1..n) = n
  BY FS_Interval
<1> QED
  BY <1>1, FS_Subset, FS_CardinalityType

LEMMA SpentFinite ==
  ASSUME IInv, NEW e \in Events
  PROVE  /\ IsFiniteSet(Spent(e))
         /\ Cardinality(Spent(e)) \in Nat /\ Cardinality(Spent(e)) <= attempts[e]
  BY NumbersFinite DEF IInv, RelayTypes, Spent

LEMMA SpentStaysFinite ==
  ASSUME IInv', NEW e \in Events
  PROVE  IsFiniteSet(Spent(e)') /\ Cardinality(Spent(e)') \in Nat
<1>1. attempts'[e] \in Nat
  BY DEF IInv, RelayTypes
<1>2. Spent(e)' \subseteq 1..attempts'[e]
  BY DEF Spent
<1> QED
  BY <1>1, <1>2, NumbersFinite

(* Where nothing is sent and no spent claim is lost, each copy keeps its.  *)
LEMMA ClaimedKept ==
  ASSUME IInv', NEW e \in Events, IsFiniteSet(Copies(e)), IsFiniteSet(Spent(e)),
         Cardinality(Copies(e)) <= Cardinality(Spent(e)),
         Copies(e)' = Copies(e), Spent(e) \subseteq Spent(e)'
  PROVE  IsFiniteSet(Copies(e)') /\ Cardinality(Copies(e)') <= Cardinality(Spent(e)')
<1>1. IsFiniteSet(Spent(e)')
  BY SpentStaysFinite
<1>2. Cardinality(Spent(e)) <= Cardinality(Spent(e)')
  BY <1>1, FS_Subset
<1>3. /\ Cardinality(Copies(e)) \in Nat /\ Cardinality(Spent(e)) \in Nat
      /\ Cardinality(Spent(e)') \in Nat
  BY <1>1, FS_CardinalityType
<1>4. ASSUME NEW a \in Nat, NEW b \in Nat, NEW c \in Nat, a <= b, b <= c PROVE a <= c
  BY <1>4
<1> QED
  BY <1>2, <1>3, <1>4

(* A step that sends nothing and claims at most a new number.              *)
LEMMA NothingSent ==
  ASSUME IInv, IInv', Claimed, log' = log,
         \A e \in Events : attempts'[e] >= attempts[e],
         \A p \in Publishers : \A r \in Unsent(p)' :
           r \in Unsent(p) \/ r.attempts > attempts[r.event]
  PROVE  Claimed'
<1> SUFFICES ASSUME NEW e \in Events
             PROVE  IsFiniteSet(Copies(e)') /\ Cardinality(Copies(e)') <= Cardinality(Spent(e)')
  BY DEF Claimed
<1>1. Copies(e)' = Copies(e)
  BY DEF Copies
<1>2. attempts[e] \in Nat /\ attempts'[e] \in Nat /\ attempts'[e] >= attempts[e]
  BY DEF IInv, RelayTypes
<1>3. ASSUME NEW n \in Spent(e) PROVE n \in Spent(e)'
  <2>1. n \in 1..attempts[e] /\ \A p \in Publishers : RecordOf(e, n) \notin Unsent(p)
    BY DEF Spent
  <2>2. n \in 1..attempts'[e] /\ ~(n > attempts[e])
    BY <1>2, <2>1
  <2>3. ASSUME NEW p \in Publishers PROVE RecordOf(e, n) \notin Unsent(p)'
    <3>1. RecordOf(e, n).event = e /\ RecordOf(e, n).attempts = n
      BY DEF RecordOf
    <3> QED
      BY <2>1, <2>2, <3>1
  <2>4. RecordOf(e, n)' = RecordOf(e, n)
    BY DEF RecordOf
  <2> QED
    BY <2>2, <2>3, <2>4 DEF Spent
<1> QED
  BY <1>1, <1>3, ClaimedKept, SpentFinite DEF Claimed

(* What is sent has a claim that nobody else can send again.               *)
LEMMA PublishClaimed ==
  ASSUME IInv, IInv', Claimed, NEW p \in Publishers, Publish(p)
  PROVE  Claimed'
<1>1. PICK r \in batch[p] :
        /\ current' = [current EXCEPT ![p] = r]
        /\ \/ pc' = [pc EXCEPT ![p] = "confirm"]
           \/ pc' = [pc EXCEPT ![p] = "reschedule"]
        /\ Take(r.event) \/ UNCHANGED queue
  BY DEF Publish
<1>2. UNCHANGED <<batch, attempts>> /\ pc[p] = "sending"
  BY DEF Publish, columns
<1>3. /\ r.event \in Stored /\ r.attempts \in 1..attempts[r.event]
      /\ r.event \in Events /\ r = RecordOf(r.event, r.attempts)
  BY DEF IInv, OneHolder, RelayTypes, Records, RecordOf
<1>4. Unsent(p) = batch[p] /\ Unsent(p)' = batch[p] \ {r}
  BY <1>1, <1>2 DEF Unsent, IInv, RelayTypes
<1>5. \A q \in Publishers \ {p} : Unsent(q)' = Unsent(q) /\ r \notin Unsent(q)
  BY <1>1, <1>2 DEF Unsent, IInv, RelayTypes, OneHolder
<1>6. \A e \in Events : Spent(e) \subseteq Spent(e)'
  BY <1>2, <1>4, <1>5 DEF Spent, RecordOf
<1>7. r.attempts \notin Spent(r.event) /\ r.attempts \in Spent(r.event)'
  BY <1>2, <1>3, <1>4, <1>5 DEF Spent, RecordOf
<1>8. ASSUME NEW e \in Events
      PROVE  IsFiniteSet(Copies(e)') /\ Cardinality(Copies(e)') <= Cardinality(Spent(e)')
  <2>1. IsFiniteSet(Copies(e)) /\ Cardinality(Copies(e)) <= Cardinality(Spent(e))
    BY DEF Claimed
  <2>2. IsFiniteSet(Spent(e)) /\ IsFiniteSet(Spent(e)')
    BY SpentFinite, SpentStaysFinite
  <2>3. \/ log' = log
        \/ log' = Append(log, r.event)
    BY <1>1 DEF Take, queue
  <2>4. CASE Copies(e)' = Copies(e)
    BY <1>6, <2>1, <2>2, <2>4, ClaimedKept
  <2>5. CASE log' = Append(log, r.event) /\ e = r.event
    <3>1. Copies(e)' = Copies(e) \cup {Len(log) + 1} /\ Len(log) + 1 \notin Copies(e)
      <4>1. log \in Seq(Events) /\ Len(log) \in Nat /\ DOMAIN log = 1..Len(log)
        BY DEF IInv, RelayTypes
      <4>2. /\ DOMAIN log' = 1..(Len(log) + 1) /\ log'[Len(log) + 1] = e
            /\ \A n \in 1..Len(log) : log'[n] = log[n]
        BY <2>5, <4>1
      <4> QED
        BY <4>1, <4>2 DEF Copies
    <3>2. /\ IsFiniteSet(Copies(e)')
          /\ Cardinality(Copies(e)') = Cardinality(Copies(e)) + 1
      BY <2>1, <3>1, FS_AddElement
    <3>3. /\ IsFiniteSet(Spent(e) \cup {r.attempts})
          /\ Cardinality(Spent(e) \cup {r.attempts}) = Cardinality(Spent(e)) + 1
      BY <1>7, <2>2, <2>5, FS_AddElement
    <3>4. Cardinality(Spent(e) \cup {r.attempts}) <= Cardinality(Spent(e)')
      BY <1>6, <1>7, <2>2, <2>5, FS_Subset
    <3>5. /\ Cardinality(Copies(e)) \in Nat /\ Cardinality(Spent(e)) \in Nat
          /\ Cardinality(Spent(e)') \in Nat
      BY <2>1, <2>2, FS_CardinalityType
    <3> QED
      BY <2>1, <3>2, <3>3, <3>4, <3>5
  <2>6. log' = Append(log, r.event) /\ e # r.event => Copies(e)' = Copies(e)
    <3>1. log \in Seq(Events) /\ Len(log) \in Nat /\ DOMAIN log = 1..Len(log)
      BY DEF IInv, RelayTypes
    <3>2. ASSUME log' = Append(log, r.event), e # r.event
          PROVE  Copies(e)' = Copies(e)
      <4>1. /\ DOMAIN log' = 1..(Len(log) + 1) /\ log'[Len(log) + 1] = r.event
            /\ \A n \in 1..Len(log) : log'[n] = log[n]
        BY <3>1, <3>2
      <4> QED
        BY <3>1, <3>2, <4>1 DEF Copies
    <3> QED
      BY <3>2
  <2>7. log' = log => Copies(e)' = Copies(e)
    BY DEF Copies
  <2> QED
    BY <2>3, <2>4, <2>5, <2>6, <2>7
<1> QED
  BY <1>8 DEF Claimed

(* A step after which each claim goes as well as before, or there is one   *)
(* more fault.                                                             *)
LEMMA PaidKept ==
  ASSUME IInv, Paid, faults \in Nat, attempts' = attempts,
         faults' \in Nat, faults' >= faults,
         \A e \in Events : GoesWell(e) => GoesWell(e)' \/ faults' = faults + 1
  PROVE  Paid'
<1> SUFFICES ASSUME NEW e \in Events
             PROVE  attempts[e] <= faults' + (IF GoesWell(e)' THEN 1 ELSE 0)
  BY DEF Paid
<1>1. attempts[e] \in Nat /\ attempts[e] <= faults + (IF GoesWell(e) THEN 1 ELSE 0)
  BY DEF IInv, RelayTypes, Paid
<1>2. GoesWell(e) => GoesWell(e)' \/ faults' = faults + 1
  OBVIOUS
<1> HIDE DEF GoesWell
<1> QED
  BY <1>1, <1>2

LEMMA ClaimCopies ==
  ASSUME CopiesInv, IInv', faults' \in Nat, NEW p \in Publishers, Claim(p)
  PROVE  CopiesInv'
<1> USE DEF CopiesInv
<1>1. PICK E \in SUBSET Events :
        /\ FirstDue(E)
        /\ LeaseRows(E)
        /\ \/ /\ batch' = [batch EXCEPT ![p] =
                             {[event |-> e, attempts |-> attempts'[e]] : e \in E}]
              /\ pc' = [pc EXCEPT ![p] = "sending"]
              /\ UNCHANGED <<current, faults>>
           \/ Fault /\ UNCHANGED <<pc, batch, current>>
  BY DEF Claim, procs
<1>2. /\ \A e \in Events : attempts[e] \in Nat
      /\ \A e \in E : attempts'[e] = attempts[e] + 1 /\ lease'[e] = Lease
      /\ \A e \in Events \ E : attempts'[e] = attempts[e] /\ lease'[e] = lease[e]
      /\ published' = published
  BY <1>1 DEF LeaseRows, IInv, RelayTypes
<1>3. log' = log /\ pc[p] = "idle" /\ batch[p] = {}
  BY DEF Claim, queue, IInv, InHand
<1>4. \A e \in E : ~GoesWell(e) /\ e \in Events
  <2>1. ASSUME NEW e \in E PROVE e \in Events /\ ~published[e] /\ lease[e] <= 0
    BY <1>1 DEF FirstDue, Due, Pending
  <2>2. \A e \in E : lease[e] \in Int
    BY DEF IInv, RelayTypes
  <2> QED
    BY <2>1, <2>2 DEF GoesWell
<1>5. Claimed'
  <2>1. \A e \in Events : attempts'[e] >= attempts[e]
    BY <1>2
  <2>2. ASSUME NEW q \in Publishers, NEW r \in Unsent(q)'
        PROVE  r \in Unsent(q) \/ r.attempts > attempts[r.event]
    <3>1. CASE UNCHANGED <<pc, batch, current>>
      BY <2>2, <3>1 DEF Unsent
    <3>2. CASE /\ batch' = [batch EXCEPT ![p] =
                              {[event |-> e, attempts |-> attempts'[e]] : e \in E}]
               /\ pc' = [pc EXCEPT ![p] = "sending"] /\ current' = current
      <4>1. CASE q = p
        <5>1. r \in {[event |-> e, attempts |-> attempts'[e]] : e \in E}
          BY <3>2, <4>1 DEF Unsent, IInv, RelayTypes
        <5>2. PICK e \in E : r = [event |-> e, attempts |-> attempts'[e]]
          BY <5>1
        <5> QED
          BY <1>2, <1>4, <5>2
      <4>2. CASE q # p
        BY <3>2, <4>2 DEF Unsent, IInv, RelayTypes
      <4> QED
        BY <4>1, <4>2
    <3> QED
      BY <1>1, <3>1, <3>2
  <2> QED
    BY <1>3, <2>1, <2>2, NothingSent
<1>6. ASSUME NEW e \in Events
      PROVE  attempts'[e] <= faults' + (IF GoesWell(e)' THEN 1 ELSE 0)
  <2>1. attempts[e] <= faults + (IF GoesWell(e) THEN 1 ELSE 0)
    BY DEF Paid
  <2>2. CASE Fault /\ UNCHANGED <<pc, batch, current>>
    <3>1. faults' = faults + 1
      BY <2>2 DEF Fault
    <3>2. CASE e \in E
      BY <1>2, <1>4, <2>1, <3>1, <3>2
    <3>3. CASE e \notin E
      <4>1. attempts'[e] = attempts[e]
        BY <1>2, <3>3
      <4> QED
        BY <1>2, <2>1, <3>1, <4>1
    <3> QED
      BY <3>2, <3>3
  <2>3. CASE /\ batch' = [batch EXCEPT ![p] =
                            {[event |-> f, attempts |-> attempts'[f]] : f \in E}]
             /\ pc' = [pc EXCEPT ![p] = "sending"]
             /\ UNCHANGED <<current, faults>>
    <3>1. CASE e \in E
      <4>1. RecordOf(e, attempts[e])' \in batch'[p] /\ pc'[p] = "sending"
        BY <2>3, <3>1 DEF RecordOf, IInv, RelayTypes
      <4>2. lease'[e] > 0
        BY <1>2, <3>1, RelayAssumptions
      <4>3. GoesWell(e)'
        BY <4>1, <4>2 DEF GoesWell
      <4> QED
        BY <1>2, <1>4, <2>1, <2>3, <3>1, <4>3
    <3>2. CASE e \notin E
      <4>1. attempts'[e] = attempts[e] /\ lease'[e] = lease[e] /\ published'[e] = published[e]
        BY <1>2, <3>2
      <4>2. \A q \in Publishers : batch[q] # {} =>
              batch'[q] = batch[q] /\ pc'[q] = pc[q] /\ current'[q] = current[q]
        BY <1>3, <2>3 DEF IInv, RelayTypes
      <4>3. GoesWell(e) => GoesWell(e)'
        BY <4>1, <4>2 DEF GoesWell, RecordOf
      <4> HIDE DEF GoesWell
      <4> QED
        BY <1>2, <2>1, <2>3, <4>1, <4>3
    <3> QED
      BY <3>1, <3>2
  <2> QED
    BY <1>1, <2>2, <2>3
<1> QED
  BY <1>5, <1>6 DEF Paid

LEMMA PublishCopies ==
  ASSUME CopiesInv, IInv', faults' \in Nat, NEW p \in Publishers, Publish(p)
  PROVE  CopiesInv'
<1> USE DEF CopiesInv
<1>1. UNCHANGED <<lease, attempts, published, batch>> /\ pc[p] = "sending"
  BY DEF Publish, columns
<1>2. Claimed'
  BY PublishClaimed
<1>3. CASE faults' = faults + 1
  BY <1>1, <1>2, <1>3, PaidKept
<1>4. CASE UNCHANGED faults /\ pc' = [pc EXCEPT ![p] = "confirm"]
  <2>1. PICK r \in batch[p] : current' = [current EXCEPT ![p] = r]
    BY DEF Publish
  <2>2. \A q \in Publishers : pc'[q] = "reschedule" => pc[q] = "reschedule" /\ current'[q] = current[q]
    BY <1>1, <1>4, <2>1 DEF IInv, RelayTypes
  <2>3. \A e \in Events : GoesWell(e) => GoesWell(e)'
    BY <1>1, <2>2 DEF GoesWell, RecordOf
  <2> QED
    BY <1>1, <1>2, <1>4, <2>3, PaidKept
<1> QED
  BY <1>3, <1>4 DEF Publish, Fault

(* Finishing a record drops the one that was sent.                         *)
LEMMA CloseCopies ==
  ASSUME CopiesInv, IInv', faults' \in Nat, NEW p \in Publishers, Close(p)
  PROVE  CopiesInv'
<1> USE DEF CopiesInv
<1> DEFINE c == current[p]
<1>1. /\ attempts' = attempts /\ log' = log
      /\ \A q \in Publishers \ {p} :
           batch'[q] = batch[q] /\ pc'[q] = pc[q] /\ current'[q] = current[q]
      /\ pc'[p] \in {"idle", "sending"} /\ batch'[p] \subseteq batch[p]
  BY CloseShape, ColumnTypes, FinishFrame DEF queue
<1>2. \/ EndPass(p) /\ batch'[p] = {}
      \/ NextRecord(p) /\ pc[p] \in {"confirm", "reschedule"} /\ batch'[p] = batch[p] \ {c}
  BY DEF Close, Confirm, Reschedule, GiveUp, NextRecord, EndPass, IInv, RelayTypes
<1>3. Unsent(p)' \subseteq Unsent(p) /\ \A q \in Publishers \ {p} : Unsent(q)' = Unsent(q)
  BY <1>1, <1>2 DEF Unsent
<1>4. \A e \in Events : attempts'[e] >= attempts[e]
  BY <1>1 DEF IInv, RelayTypes
<1>5. Claimed'
  BY <1>1, <1>3, <1>4, NothingSent
<1>6. CASE GiveUp(p)
  BY <1>1, <1>5, <1>6, PaidKept DEF GiveUp, Fault
<1>7. CASE Confirm(p) \/ Reschedule(p)
  <2>1. /\ pc[p] \in {"confirm", "reschedule"} /\ faults' = faults
        /\ batch'[p] = batch[p] \ {c} /\ c \in batch[p]
    BY <1>7 DEF Confirm, Reschedule, NextRecord, EndPass, IInv, InHand, RelayTypes
  <2>2. c.event \in Events /\ c.attempts \in Nat /\ c = RecordOf(c.event, c.attempts)
    BY DEF IInv, RelayTypes, Records, RecordOf
  <2>3. ASSUME NEW e \in Events, GoesWell(e) PROVE GoesWell(e)'
    <3>1. \A f \in Events : published[f] => published'[f]
      BY <1>7, <2>2 DEF Confirm, Reschedule, MarkPublished, RetryLater, columns, IInv, RelayTypes
    <3>2. CASE published[e]
      BY <3>1, <3>2 DEF GoesWell
    <3>3. CASE ~published[e]
      <4> DEFINE last == RecordOf(e, attempts[e])
      <4>1. PICK q \in Publishers : /\ last \in batch[q] /\ lease[e] > 0
                                    /\ ~(pc[q] = "reschedule" /\ current[q] = last)
        BY <2>3, <3>3 DEF GoesWell
      <4>2. last.event = e /\ last.attempts = attempts[e]
        BY DEF RecordOf
      <4>3. CASE last = c
        <5>1. q = p /\ pc[p] = "confirm"
          BY <2>1, <4>1, <4>3 DEF IInv, OneHolder
        <5>2. c.event = e /\ c.attempts = attempts[e]
          BY <4>2, <4>3
        <5>3. HoldsLease(c)
          BY <3>3, <4>1, <5>2 DEF HoldsLease, Unclaimed
        <5>4. MarkPublished(c)
          BY <1>7, <5>1, <5>3 DEF Confirm, Reschedule
        <5>5. published'[e]
          BY <5>2, <5>4 DEF MarkPublished, IInv, RelayTypes
        <5> QED
          BY <5>5 DEF GoesWell
      <4>4. CASE last # c
        <5>1. HoldsLease(c) => c.event # e
          BY <2>2, <4>4 DEF HoldsLease
        <5>2. lease'[e] = lease[e]
          BY <1>7, <2>2, <5>1 DEF Confirm, Reschedule, MarkPublished, RetryLater, columns,
                                  IInv, RelayTypes
        <5>3. last \in batch'[q]
          BY <1>1, <2>1, <4>1, <4>4
        <5>4. ~(pc'[q] = "reschedule" /\ current'[q] = last)
          BY <1>1, <4>1
        <5>5. RecordOf(e, attempts[e])' = last
          BY <1>1 DEF RecordOf
        <5> HIDE DEF last
        <5> QED
          BY <4>1, <5>2, <5>3, <5>4, <5>5 DEF GoesWell
      <4> QED
        BY <4>3, <4>4
    <3> QED
      BY <3>2, <3>3
  <2> QED
    BY <1>1, <1>5, <2>1, <2>3, PaidKept
<1> QED
  BY <1>6, <1>7 DEF Close

(* A lease that ends in the hands of its holder is a fault.                *)
LEMMA TickCopies ==
  ASSUME CopiesInv, IInv', faults' \in Nat, Tick
  PROVE  CopiesInv'
<1> USE DEF CopiesInv
<1>1. UNCHANGED <<log, pc, batch, current, published, attempts>>
  BY DEF Tick
<1>2. faults' = faults \/ faults' = faults + 1
  BY DEF Tick, Fault
<1>3. Claimed'
  <2>1. \A p \in Publishers : Unsent(p)' = Unsent(p)
    BY <1>1 DEF Unsent
  <2>2. \A e \in Events : attempts'[e] >= attempts[e]
    BY <1>1 DEF IInv, RelayTypes
  <2> QED
    BY <1>1, <2>1, <2>2, NothingSent
<1>4. ASSUME NEW e \in Events, GoesWell(e) PROVE GoesWell(e)' \/ faults' = faults + 1
  <2>1. CASE published[e]
    BY <1>1, <2>1 DEF GoesWell
  <2>2. CASE ~published[e]
    <3>1. PICK p \in Publishers :
            /\ RecordOf(e, attempts[e]) \in batch[p] /\ lease[e] > 0
            /\ ~(pc[p] = "reschedule" /\ current[p] = RecordOf(e, attempts[e]))
      BY <1>4, <2>2 DEF GoesWell
    <3>2. e \in Held
      <4>1. batch[p] \in Range(batch)
        BY DEF IInv, RelayTypes, Range
      <4> QED
        BY <3>1, <4>1 DEF Held, RecordOf
    <3>3. CASE lease[e] = 1
      BY <3>2, <3>3 DEF Tick, Fault
    <3>4. CASE lease[e] # 1
      <4>1. lease'[e] > 0
        BY <3>1, <3>4 DEF Tick, IInv, RelayTypes
      <4> QED
        BY <1>1, <3>1, <4>1 DEF GoesWell, RecordOf
    <3> QED
      BY <3>3, <3>4
  <2> QED
    BY <2>1, <2>2
<1> QED
  BY <1>1, <1>2, <1>3, <1>4, PaidKept

LEMMA CopiesStep == CopiesInv /\ [Next]_vars => CopiesInv'
<1> SUFFICES ASSUME CopiesInv, [Next]_vars PROVE CopiesInv'
  OBVIOUS
<1>1. IInv /\ IInv' /\ faults \in Nat
  BY StepInv DEF CopiesInv
<1>2. faults' \in Nat
  BY <1>1 DEF Next, CommitEvents, Claim, Publish, Confirm, Reschedule, GiveUp, Tick,
              Fault, vars
<1>3. CASE CommitEvents \/ UNCHANGED vars
  <2>1. UNCHANGED <<log, pc, batch, current, published, attempts, lease, faults>>
    BY <1>3 DEF CommitEvents, vars, columns, queue, procs
  <2>2. Claimed'
    BY <2>1 DEF CopiesInv, Claimed, Copies, Spent, Unsent, RecordOf
  <2>3. \A e \in Events : GoesWell(e)' = GoesWell(e)
    BY <2>1 DEF GoesWell, RecordOf
  <2>4. Paid'
    BY <2>1, <2>3 DEF CopiesInv, Paid
  <2> QED
    BY <1>1, <1>2, <2>2, <2>4 DEF CopiesInv
<1> QED
  BY <1>1, <1>2, <1>3, ClaimCopies, PublishCopies, CloseCopies, TickCopies
     DEF Next, Close

(* The queue takes each event once and once more for each fault at most,   *)
(* however short its own memory is: whoever sends an event has a claim of  *)
(* its own, and but for the last claims only end unpublished by a fault.   *)
THEOREM SentOncePerFault == Spec => []DuplicatesCostFaults
<1>1. Init => CopiesInv
  <2> SUFFICES ASSUME Init PROVE CopiesInv
    OBVIOUS
  <2>1. IInv /\ faults = 0
    BY InitInv DEF Init
  <2>2. \A e \in Events : Copies(e) = {}
    BY DEF Init, Copies
  <2>3. Claimed
    <3>1. ASSUME NEW e \in Events
          PROVE  IsFiniteSet(Copies(e)) /\ Cardinality(Copies(e)) <= Cardinality(Spent(e))
      <4>1. IsFiniteSet(Copies(e)) /\ Cardinality(Copies(e)) = 0
        BY <2>2, FS_EmptySet
      <4>2. Cardinality(Spent(e)) \in Nat
        BY <2>1, SpentFinite
      <4> QED
        BY <4>1, <4>2
    <3> QED
      BY <3>1 DEF Claimed
  <2>4. Paid
    BY DEF Init, Paid
  <2> QED
    BY <2>1, <2>3, <2>4 DEF CopiesInv
<1>2. CopiesInv => DuplicatesCostFaults
  <2> SUFFICES ASSUME CopiesInv, NEW e \in Events
               PROVE  Cardinality(Copies(e)) <= 1 + faults
    BY DEF DuplicatesCostFaults
  <2>1. /\ IsFiniteSet(Copies(e)) /\ Cardinality(Copies(e)) <= Cardinality(Spent(e))
        /\ attempts[e] <= faults + (IF GoesWell(e) THEN 1 ELSE 0)
        /\ faults \in Nat /\ attempts[e] \in Nat
    BY DEF CopiesInv, Claimed, Paid, IInv, RelayTypes
  <2>2. Cardinality(Copies(e)) \in Nat
    BY <2>1, FS_CardinalityType
  <2>3. Cardinality(Spent(e)) \in Nat /\ Cardinality(Spent(e)) <= attempts[e]
    BY SpentFinite DEF CopiesInv
  <2>4. attempts[e] <= 1 + faults
    BY <2>1
  <2> QED
    BY <2>1, <2>2, <2>3, <2>4
<1> QED
  BY <1>1, <1>2, CopiesStep, PTL DEF Spec

(***************************************************************************)
(* Delays and types                                                        *)
(***************************************************************************)

(* The delay of the first two claims is the base; it doubles from then on, *)
(* up to the cap.                                                          *)
LEMMA BackoffEquations ==
  /\ Backoff(0) = BackoffBase /\ Backoff(1) = BackoffBase
  /\ \A n \in Nat \ {0} : Backoff(n + 1) = IF 2 * Backoff(n) >= BackoffCap THEN BackoffCap
                                           ELSE 2 * Backoff(n)
<1> USE RelayAssumptions
<1> DEFINE Def(f) == [n \in Nat |-> IF n <= 1 THEN BackoffBase
                                    ELSE IF 2 * f[n - 1] >= BackoffCap THEN BackoffCap
                                    ELSE 2 * f[n - 1]]
<1> DEFINE step == [n \in Nat |-> [d \in Nat |-> IF n = 0 THEN BackoffBase
                                                 ELSE IF 2 * d >= BackoffCap THEN BackoffCap
                                                 ELSE 2 * d]]
<1>1. PICK f \in [Nat -> Nat] :
        f[0] = BackoffBase /\ \A n \in Nat : f[n + 1] = step[n][f[n]]
  <2>1. step \in [Nat -> [Nat -> Nat]] /\ BackoffBase \in Nat
    OBVIOUS
  <2> HIDE DEF step
  <2>2. Recurses(Nat, BackoffBase, step)
    BY <2>1, RecursionExists
  <2> QED
    BY <2>2 DEF Recurses
<1>2. f = Def(f)
  <2>1. ASSUME NEW n \in Nat PROVE f[n] = Def(f)[n]
    <3>1. CASE n = 0
      BY <1>1, <3>1
    <3>2. CASE n # 0
      <4>1. PICK k \in Nat : n = k + 1
        <5>1. n - 1 \in Nat /\ n = (n - 1) + 1
          BY <3>2
        <5> QED
          BY <5>1
      <4>2. n - 1 = k /\ (k = 0 => n <= 1) /\ (k # 0 => ~(n <= 1))
        <5> HIDE DEF step
        <5> QED
          BY <4>1
      <4>3. f[n] = step[k][f[k]]
        BY <1>1, <4>1
      <4> QED
        BY <4>2, <4>3
    <3> QED
      BY <3>1, <3>2
  <2> QED
    BY <2>1
<1> DEFINE delay == CHOOSE g : g = Def(g)
<1>3. delay = Def(delay)
  BY <1>2
<1>4. \A n \in Nat : Backoff(n) = delay[n]
  BY DEF Backoff
<1> HIDE DEF delay
<1>5. delay[0] = BackoffBase /\ delay[1] = BackoffBase
  BY <1>3
<1>6. ASSUME NEW n \in Nat \ {0}
      PROVE  Backoff(n + 1) = IF 2 * Backoff(n) >= BackoffCap THEN BackoffCap
                              ELSE 2 * Backoff(n)
  <2>1. n \in Nat /\ n + 1 \in Nat /\ ~(n + 1 <= 1) /\ (n + 1) - 1 = n
    OBVIOUS
  <2>2. delay[n + 1] = Def(delay)[n + 1]
    BY <1>3
  <2>3. Backoff(n + 1) = delay[n + 1] /\ Backoff(n) = delay[n]
    BY <1>4, <2>1
  <2> HIDE <1>3
  <2> QED
    BY <2>1, <2>2, <2>3
<1>7. Backoff(0) = BackoffBase /\ Backoff(1) = BackoffBase
  BY <1>4, <1>5
<1> QED
  BY <1>6, <1>7

(* Whatever the number of claims, the next attempt is at least the base or *)
(* the cap away, and at most the longer of the two (Backoff).              *)
THEOREM BackoffBounded ==
  \A n \in Nat : /\ Backoff(n) \in Nat \ {0}
                 /\ Backoff(n) >= BackoffBase \/ Backoff(n) = BackoffCap
                 /\ Backoff(n) <= BackoffBase \/ Backoff(n) <= BackoffCap
<1> USE RelayAssumptions
<1> DEFINE Bounded(d) == /\ d \in Nat \ {0}
                         /\ d >= BackoffBase \/ d = BackoffCap
                         /\ d <= BackoffBase \/ d <= BackoffCap
<1> DEFINE T == {n \in Nat : Bounded(Backoff(n))}
<1>1. 0 \in T
  BY BackoffEquations
<1>2. ASSUME NEW n \in T PROVE n + 1 \in T
  <2>1. CASE n = 0
    BY <2>1, BackoffEquations
  <2>2. CASE n # 0
    <3>1. Backoff(n + 1) = IF 2 * Backoff(n) >= BackoffCap THEN BackoffCap ELSE 2 * Backoff(n)
      BY <2>2, BackoffEquations
    <3>2. Bounded(Backoff(n))
      OBVIOUS
    <3>3. Bounded(Backoff(n + 1))
      BY <3>1, <3>2
    <3> HIDE DEF Bounded
    <3> QED
      BY <3>3
  <2> QED
    BY <2>1, <2>2
<1> HIDE DEF Bounded
<1>3. T = Nat
  <2>1. T \subseteq Nat
    OBVIOUS
  <2> HIDE DEF T
  <2> QED
    BY <1>1, <1>2, <2>1, Induction
<1>4. \A n \in Nat : Bounded(Backoff(n))
  BY <1>3
<1> QED
  BY <1>4 DEF Bounded

(* The parts of TypeOK that the invariants above leave out.                *)
MoreTypes ==
  /\ wait \in [Events -> -(BackoffCap + Horizon)..LongestDelay]
  /\ lease \in [Events -> {Unclaimed} \cup 0..Lease]
  /\ age \in [Events -> 0..DedupWindow]
  /\ elapsed \in [Publishers -> 0..(BackoffCap + Horizon)]
  /\ faults \in 0..MaxFaults

(* A step counts at most one fault, and only below the bound.              *)
LEMMA FaultsBounded ==
  ASSUME MoreTypes, [Next]_vars
  PROVE  faults' \in 0..MaxFaults
<1>1. faults' = faults \/ Fault
  <2>1. CASE CommitEvents
    BY <2>1 DEF CommitEvents
  <2>2. ASSUME NEW p \in Publishers, Claim(p) PROVE faults' = faults \/ Fault
    BY <2>2 DEF Claim
  <2>3. ASSUME NEW p \in Publishers, Publish(p) PROVE faults' = faults \/ Fault
    BY <2>3 DEF Publish
  <2>4. ASSUME NEW p \in Publishers, Confirm(p) \/ Reschedule(p) \/ GiveUp(p)
        PROVE  faults' = faults \/ Fault
    BY <2>4 DEF Confirm, Reschedule, GiveUp
  <2>5. CASE Tick
    BY <2>5 DEF Tick
  <2> QED
    BY <2>1, <2>2, <2>3, <2>4, <2>5 DEF Next, vars
<1> QED
  BY <1>1, RelayAssumptions DEF MoreTypes, Fault

(* The columns of a row that is finished keep their types.                 *)
LEMMA CloseTypes ==
  ASSUME IInv, MoreTypes, NEW p \in Publishers, Close(p)
  PROVE  /\ wait' \in [Events -> -(BackoffCap + Horizon)..LongestDelay]
         /\ lease' \in [Events -> {Unclaimed} \cup 0..Lease]
<1>1. current[p].event \in Events /\ current[p].attempts \in Nat
  BY DEF IInv, RelayTypes, Records
<1>2. CASE MarkPublished(current[p])
  BY <1>1, <1>2 DEF MarkPublished, MoreTypes
<1>3. CASE RetryLater(current[p], elapsed[p])
  <2>1. PICK d \in -(BackoffCap + Horizon)..LongestDelay :
          d = Backoff(current[p].attempts) - elapsed[p]
    <3>1. elapsed[p] \in 0..(BackoffCap + Horizon)
      BY DEF MoreTypes
    <3>2. Backoff(current[p].attempts) \in Nat /\ Backoff(current[p].attempts) <= LongestDelay
      <4>1. PICK n \in Nat : n = current[p].attempts
        BY <1>1
      <4>2. /\ Backoff(n) \in Nat /\ BackoffBase \in Nat /\ BackoffCap \in Nat
            /\ Backoff(n) <= BackoffBase \/ Backoff(n) <= BackoffCap
        BY BackoffBounded, RelayAssumptions
      <4> QED
        BY <4>1, <4>2 DEF LongestDelay
    <3>3. LongestDelay \in Nat /\ BackoffCap + Horizon \in Nat
      BY RelayAssumptions DEF LongestDelay
    <3> QED
      BY <3>1, <3>2, <3>3
  <2> QED
    BY <1>1, <1>3, <2>1 DEF RetryLater, MoreTypes
<1>4. CASE UNCHANGED columns
  BY <1>4 DEF columns, MoreTypes
<1> QED
  BY <1>2, <1>3, <1>4, CloseShape

LEMMA MoreTypesStep ==
  ASSUME IInv, MoreTypes, [Next]_vars
  PROVE  MoreTypes'
<1> USE RelayAssumptions
<1>0. /\ faults' \in 0..MaxFaults /\ LongestDelay \in Nat
      /\ Horizon \in Nat /\ BackoffCap \in Nat
  BY FaultsBounded, RelayAssumptions DEF LongestDelay
<1>1. CASE CommitEvents
  <2>1. PICK s \in Emissions, lag \in 0..Horizon :
          wait' = [e \in Events |-> IF e \in Range(s) THEN -lag ELSE wait[e]]
    BY <1>1 DEF CommitEvents
  <2>2. -lag \in -(BackoffCap + Horizon)..LongestDelay
    BY <1>0
  <2>3. wait' \in [Events -> -(BackoffCap + Horizon)..LongestDelay]
    BY <2>1, <2>2 DEF MoreTypes
  <2> QED
    BY <1>0, <1>1, <2>3 DEF CommitEvents, queue, procs, MoreTypes
<1>2. ASSUME NEW p \in Publishers, Claim(p)
      PROVE  MoreTypes'
  <2>1. PICK E \in SUBSET Events : LeaseRows(E)
    BY <1>2 DEF Claim
  <2>2. wait' = wait /\ lease' \in [Events -> {Unclaimed} \cup 0..Lease]
    BY <2>1 DEF LeaseRows, MoreTypes
  <2>3. UNCHANGED <<age, elapsed>>
    BY <1>2 DEF Claim, queue, procs
  <2> QED
    BY <1>0, <2>2, <2>3 DEF MoreTypes
<1>3. ASSUME NEW p \in Publishers, Publish(p)
      PROVE  MoreTypes'
  <2>1. UNCHANGED <<wait, lease, elapsed>>
    BY <1>3 DEF Publish, columns
  <2>2. age' = age \/ \E e \in Events : age' = [age EXCEPT ![e] = 0]
    <3>1. PICK r \in batch[p] : Take(r.event) \/ UNCHANGED queue
      BY <1>3 DEF Publish
    <3>2. r \in Records
      BY DEF IInv, RelayTypes
    <3>3. r.event \in Events
      BY <3>2 DEF Records
    <3>4. Take(r.event) => age' = age \/ age' = [age EXCEPT ![r.event] = 0]
      BY DEF Take, queue
    <3> HIDE DEF IInv
    <3> QED
      BY <3>1, <3>3, <3>4 DEF queue
  <2>3. age' \in [Events -> 0..DedupWindow]
    <3>1. 0 \in 0..DedupWindow
      OBVIOUS
    <3> QED
      BY <2>2, <3>1 DEF MoreTypes
  <2> QED
    BY <1>0, <2>1, <2>3 DEF MoreTypes
<1>4. ASSUME NEW p \in Publishers, Close(p)
      PROVE  MoreTypes'
  <2>1. elapsed' = elapsed \/ elapsed' = [elapsed EXCEPT ![p] = 0]
    <3>1. Finish(p)
      BY <1>4, CloseShape
    <3>2. CASE EndPass(p)
      BY <3>2 DEF EndPass
    <3>3. CASE NextRecord(p) /\ ~EndPass(p)
      BY <3>3 DEF NextRecord
    <3> QED
      BY <3>1, <3>2, <3>3 DEF Finish
  <2>2. elapsed' \in [Publishers -> 0..(BackoffCap + Horizon)]
    <3>1. 0 \in 0..(BackoffCap + Horizon)
      BY <1>0
    <3> QED
      BY <2>1, <3>1 DEF MoreTypes
  <2>3. age' = age
    BY <1>4, CloseShape DEF queue
  <2> QED
    BY <1>0, <1>4, <2>2, <2>3, CloseTypes DEF MoreTypes
<1>5. CASE Tick
  <2>1. wait' \in [Events -> -(BackoffCap + Horizon)..LongestDelay]
    <3>1. wait' = [e \in Events |->
                     IF e \in Pending /\ wait[e] > -Horizon THEN wait[e] - 1 ELSE wait[e]]
      BY <1>5 DEF Tick
    <3>2. ASSUME NEW e \in Events
          PROVE  wait'[e] \in -(BackoffCap + Horizon)..LongestDelay
      <4>1. wait[e] \in -(BackoffCap + Horizon)..LongestDelay
        BY DEF MoreTypes
      <4>2. wait'[e] = wait[e] \/ (wait[e] > -Horizon /\ wait'[e] = wait[e] - 1)
        BY <3>1
      <4> QED
        BY <1>0, <4>1, <4>2
    <3> QED
      BY <3>1, <3>2
  <2>2. lease' \in [Events -> {Unclaimed} \cup 0..Lease]
    <3>1. lease' = [e \in Events |-> IF lease[e] > 0 THEN lease[e] - 1 ELSE lease[e]]
      BY <1>5 DEF Tick
    <3>2. ASSUME NEW e \in Events PROVE lease'[e] \in {Unclaimed} \cup 0..Lease
      <4>1. lease'[e] = IF lease[e] > 0 THEN lease[e] - 1 ELSE lease[e]
        BY <3>1, Zenon
      <4>2. lease[e] \in {Unclaimed} \cup 0..Lease
        BY DEF MoreTypes
      <4> QED
        BY <4>1, <4>2, RelayAssumptions DEF Unclaimed
    <3> QED
      BY <3>1, <3>2
  <2>3. age' \in [Events -> 0..DedupWindow]
    BY <1>5 DEF Tick, MoreTypes
  <2>4. elapsed' \in [Publishers -> 0..(BackoffCap + Horizon)]
    BY <1>0, <1>5 DEF Tick, MoreTypes
  <2> QED
    BY <1>0, <2>1, <2>2, <2>3, <2>4 DEF MoreTypes
<1>6. CASE UNCHANGED vars
  BY <1>0, <1>6 DEF vars, columns, queue, procs, MoreTypes
<1> QED
  BY <1>1, <1>2, <1>3, <1>4, <1>5, <1>6 DEF Next, Close

(* Every reachable state is well typed; in particular no attempt of an     *)
(* event is ever put off for longer than the base or the cap               *)
(* (RescheduleEvent, Backoff).                                             *)
THEOREM TypesHold == Spec => []TypeOK
<1>1. Init => IInv /\ MoreTypes
  <2> SUFFICES ASSUME Init PROVE MoreTypes
    BY InitInv
  <2>1. /\ 0 \in -(BackoffCap + Horizon)..LongestDelay /\ 0 \in 0..(BackoffCap + Horizon)
        /\ 0 \in 0..MaxFaults /\ DedupWindow \in 0..DedupWindow
    BY RelayAssumptions DEF LongestDelay
  <2> QED
    BY <2>1 DEF Init, MoreTypes
<1>2. IInv /\ MoreTypes /\ [Next]_vars => (IInv /\ MoreTypes)'
  BY StepInv, MoreTypesStep
<1>3. IInv /\ MoreTypes => TypeOK
  BY DEF IInv, RelayTypes, MoreTypes, TypeOK
<1> QED
  BY <1>1, <1>2, <1>3, PTL DEF Spec
================================================================================
