-------------------------- MODULE ReferenceScheduleProofs --------------------------
(***************************************************************************)
(* Proofs about ReferenceSchedule, for every number of transactions,       *)
(* workers and faults, batch size, lease and backoff: leases keep workers  *)
(* apart but for as many as there were faults, and the attempts are spread *)
(* as the backoff has it but for as many.                                  *)
(***************************************************************************)
EXTENDS ReferenceSchedule, Recursion, FiniteSetTheorems

\* What the proof needs of the types; wait and attempts do not matter to it.
LeaseTypes ==
  /\ lease \in [Txns -> {Unclaimed} \cup 0..Lease]
  /\ pc \in [Workers -> {"idle", "batch", "locked"}]
  /\ batch \in [Workers -> SUBSET Txns]
  /\ current \in [Workers -> Txns \cup {NoTxn}]
  /\ faults \in Nat

\* A worker has locked a row only in the middle of its pass, and one that is no
\* longer in its batch.
OneAtATime ==
  \A w \in Workers :
    /\ pc[w] # "locked" => current[w] = NoTxn
    /\ current[w] # NoTxn => current[w] \notin batch[w]

\* How many workers have t although the lease on it is not theirs.
Stale(t) ==
  Cardinality(Owners(t)) - (IF lease[t] > 0 /\ Owners(t) # {} THEN 1 ELSE 0)

\* Each of them goes back to a fault.
Paid == \A t \in Txns : IsFiniteSet(Owners(t)) /\ Stale(t) <= faults

IInv == LeaseTypes /\ OneAtATime /\ Paid

\* A step adds no more stale owners than faults.
StalePaid(t) == IsFiniteSet(Owners(t)') /\ Stale(t)' - Stale(t) <= faults' - faults

-------------------------------------------------------------------------------
\* A fault is counted.
LEMMA FaultCounts ==
  ASSUME faults \in Nat, Fault
  PROVE  faults' \in Nat /\ faults' = faults + 1
  BY ScheduleAssumptions DEF Fault

\* No worker starts with a batch.
LEMMA InitHolds == Init => IInv
<1> SUFFICES ASSUME Init PROVE IInv
  OBVIOUS
<1> USE ScheduleAssumptions
<1>1. LeaseTypes
  BY DEF Init, LeaseTypes
<1>2. OneAtATime
  BY DEF Init, OneAtATime
<1>3. \A t \in Txns : Owners(t) = {}
  BY DEF Init, Owners
<1>4. IsFiniteSet({}) /\ Cardinality({}) = 0
  BY FS_EmptySet
<1>5. \A t \in Txns : IsFiniteSet(Owners(t)) /\ Stale(t) = 0
  <2> SUFFICES ASSUME NEW t \in Txns PROVE IsFiniteSet(Owners(t)) /\ Stale(t) = 0
    OBVIOUS
  <2>1. IsFiniteSet(Owners(t)) /\ Cardinality(Owners(t)) = 0 /\ Owners(t) = {}
    BY <1>3, <1>4
  <2> QED
    BY <2>1 DEF Stale
<1>6. Paid
  BY <1>5 DEF Init, Paid
<1> QED
  BY <1>1, <1>2, <1>6 DEF IInv

\* There is no negative number of stale owners.
LEMMA StaleType ==
  ASSUME NEW O, IsFiniteSet(O), NEW leased \in BOOLEAN
  PROVE  Cardinality(O) - (IF leased /\ O # {} THEN 1 ELSE 0) \in Nat
<1>1. Cardinality(O) \in Nat /\ (O # {} => Cardinality(O) # 0)
  BY FS_CardinalityType, FS_EmptySet
<1> QED
  BY <1>1

\* Where nobody takes t and its lease does not end, no owner becomes stale.
LEMMA NoneStaler ==
  ASSUME NEW t, IsFiniteSet(Owners(t)), Owners(t)' \subseteq Owners(t),
         lease[t] > 0 => lease'[t] > 0
  PROVE  IsFiniteSet(Owners(t)') /\ Stale(t)' <= Stale(t)
<1> DEFINE O == Owners(t)
           P == Owners(t)'
<1>1. IsFiniteSet(P) /\ Cardinality(P) <= Cardinality(O)
  BY FS_Subset
<1>2. Cardinality(O) \in Nat /\ Cardinality(P) \in Nat
  BY <1>1, FS_CardinalityType
<1>3. Stale(t) \in Nat
  BY StaleType DEF Stale
<1>4. CASE P = {}
  <2>1. Cardinality(P) = 0
    BY <1>4, FS_EmptySet
  <2>2. Stale(t)' = 0
    BY <1>4, <2>1 DEF Stale
  <2> QED
    BY <1>1, <1>3, <2>2
<1>5. CASE P # {}
  <2>1. O # {}
    BY <1>5
  <2>2. Stale(t) = Cardinality(O) - (IF lease[t] > 0 THEN 1 ELSE 0)
    BY <2>1 DEF Stale
  <2>3. Stale(t)' = Cardinality(P) - (IF lease'[t] > 0 THEN 1 ELSE 0)
    BY <1>5 DEF Stale
  <2>4. ASSUME NEW m \in Nat, NEW n \in Nat, n <= m
        PROVE  n - (IF lease'[t] > 0 THEN 1 ELSE 0) <= m - (IF lease[t] > 0 THEN 1 ELSE 0)
    BY <2>4
  <2> QED
    BY <1>1, <1>2, <2>2, <2>3, <2>4
<1> QED
  BY <1>4, <1>5

\* The accounting of one step.
LEMMA PaidStep ==
  ASSUME IInv, LeaseTypes', OneAtATime', \A t \in Txns : StalePaid(t)
  PROVE  IInv'
<1>1. ASSUME NEW t \in Txns
      PROVE  IsFiniteSet(Owners(t)') /\ Stale(t)' <= faults'
  <2>1. IsFiniteSet(Owners(t)) /\ Stale(t) <= faults
    BY DEF IInv, Paid
  <2>2. IsFiniteSet(Owners(t)') /\ Stale(t)' - Stale(t) <= faults' - faults
    BY DEF StalePaid
  <2>3. Stale(t) \in Nat /\ Stale(t)' \in Nat
    BY <2>1, <2>2, StaleType DEF Stale
  <2> QED
    BY <2>1, <2>2, <2>3 DEF IInv, LeaseTypes
<1> QED
  BY <1>1 DEF IInv, Paid

\* A step that takes no row into a hand, ends no lease and counts its faults keeps
\* the invariant and pays for its stale owners.
LEMMA NothingTaken ==
  ASSUME IInv, LeaseTypes', OneAtATime', faults' >= faults,
         \A t \in Txns : Owners(t)' \subseteq Owners(t),
         \A t \in Txns : lease[t] > 0 => lease'[t] > 0
  PROVE  IInv' /\ \A t \in Txns : StalePaid(t)
<1>1. ASSUME NEW t \in Txns PROVE StalePaid(t)
  <2>1. IsFiniteSet(Owners(t))
    BY DEF IInv, Paid
  <2>2. IsFiniteSet(Owners(t)') /\ Stale(t)' <= Stale(t)
    BY <2>1, NoneStaler
  <2>3. Stale(t) \in Nat /\ Stale(t)' \in Nat
    BY <2>1, <2>2, StaleType DEF Stale
  <2> QED
    BY <2>2, <2>3 DEF StalePaid, IInv, LeaseTypes
<1> QED
  BY <1>1, PaidStep

\* A claim takes rows whose lease is over: all their owners are stale already, and
\* the new one has the lease.
LEMMA ClaimKeeps ==
  ASSUME IInv, NEW w \in Workers, Claim(w)
  PROVE  IInv' /\ \A t \in Txns : StalePaid(t)
<1> USE ScheduleAssumptions
<1>1. PICK T \in SUBSET Txns :
        /\ T # {} /\ FirstDue(T)
        /\ lease' = [t \in Txns |-> IF t \in T THEN Lease ELSE lease[t]]
        /\ \/ /\ T \cap corrupt = {}
              /\ batch' = [batch EXCEPT ![w] = T]
              /\ pc' = [pc EXCEPT ![w] = "batch"]
              /\ UNCHANGED <<current, faults>>
           \/ T \cap corrupt # {} /\ UNCHANGED <<procs, faults>>
           \/ Fault /\ UNCHANGED procs
  BY DEF Claim
<1>2. \A t \in T : t \in Txns /\ lease[t] <= 0
  BY <1>1 DEF FirstDue, Due
<1>3. lease' \in [Txns -> {Unclaimed} \cup 0..Lease] /\ Lease > 0
  BY <1>1 DEF IInv, LeaseTypes
<1>4. \A t \in Txns : lease[t] > 0 => lease'[t] > 0
  BY <1>1
<1>5. CASE UNCHANGED procs
  <2>1. LeaseTypes' /\ faults' >= faults
    BY <1>1, <1>3, <1>5, FaultCounts DEF IInv, LeaseTypes, procs
  <2>2. OneAtATime'
    BY <1>5 DEF IInv, OneAtATime, procs
  <2>3. \A t \in Txns : Owners(t)' = Owners(t)
    BY <1>5 DEF Owners, procs
  <2> QED
    BY <2>1, <2>2, <2>3, <1>4, NothingTaken
<1>6. CASE /\ batch' = [batch EXCEPT ![w] = T]
           /\ pc' = [pc EXCEPT ![w] = "batch"]
           /\ UNCHANGED <<current, faults>>
  <2>1. LeaseTypes'
    BY <1>3, <1>6 DEF IInv, LeaseTypes
  <2>2. OneAtATime'
    BY <1>6 DEF Claim, IInv, LeaseTypes, OneAtATime
  <2>3. current[w] = NoTxn
    BY DEF Claim, IInv, OneAtATime
  <2>4. ASSUME NEW t \in Txns PROVE StalePaid(t)
    <3>1. IsFiniteSet(Owners(t))
      BY DEF IInv, Paid
    <3>2. CASE t \notin T
      <4>1. Owners(t)' \subseteq Owners(t)
        BY <1>6, <2>3, <3>2 DEF Owners, IInv, LeaseTypes
      <4>2. IsFiniteSet(Owners(t)') /\ Stale(t)' <= Stale(t)
        BY <1>4, <3>1, <4>1, NoneStaler
      <4>3. Stale(t) \in Nat /\ Stale(t)' \in Nat
        BY <3>1, <4>2, StaleType DEF Stale
      <4> QED
        BY <1>6, <4>2, <4>3 DEF StalePaid, IInv, LeaseTypes
    <3>3. CASE t \in T
      <4>1. Owners(t)' = Owners(t) \cup {w}
        BY <1>6, <3>3 DEF Owners, IInv, LeaseTypes
      <4>2. /\ IsFiniteSet(Owners(t) \cup {w})
            /\ Cardinality(Owners(t) \cup {w}) <= Cardinality(Owners(t)) + 1
            /\ Cardinality(Owners(t) \cup {w}) \in Nat /\ Cardinality(Owners(t)) \in Nat
        <5>1. /\ IsFiniteSet(Owners(t) \cup {w})
              /\ Cardinality(Owners(t) \cup {w})
                   = IF w \in Owners(t) THEN Cardinality(Owners(t))
                     ELSE Cardinality(Owners(t)) + 1
          BY <3>1, FS_AddElement
        <5>2. Cardinality(Owners(t)) \in Nat
          BY <3>1, FS_CardinalityType
        <5> QED
          BY <5>1, <5>2
      <4>3. lease[t] <= 0 /\ lease'[t] > 0 /\ lease[t] \in Int
        BY <1>1, <1>2, <1>3, <3>3 DEF IInv, LeaseTypes, Unclaimed
      <4>4. Stale(t) = Cardinality(Owners(t))
        BY <4>2, <4>3 DEF Stale
      <4>5. Stale(t)' = Cardinality(Owners(t) \cup {w}) - 1
        BY <4>1, <4>3 DEF Stale
      <4> QED
        BY <1>6, <4>1, <4>2, <4>4, <4>5 DEF StalePaid, IInv, LeaseTypes
    <3> QED
      BY <3>2, <3>3
  <2> QED
    BY <2>1, <2>2, <2>4, PaidStep
<1> QED
  BY <1>1, <1>5, <1>6

\* A row goes from the batch to the hand.
LEMMA LockKeeps ==
  ASSUME IInv, NEW w \in Workers, Lock(w)
  PROVE  IInv' /\ \A t \in Txns : StalePaid(t)
<1>1. PICK t \in batch[w] \ Locked :
        /\ current' = [current EXCEPT ![w] = t]
        /\ batch' = [batch EXCEPT ![w] = @ \ {t}]
  BY DEF Lock
<1>2. pc' = [pc EXCEPT ![w] = "locked"] /\ UNCHANGED <<lease, faults>>
  BY DEF Lock, columns
<1>3. LeaseTypes' /\ faults' >= faults
  BY <1>1, <1>2 DEF IInv, LeaseTypes
<1>4. OneAtATime'
  BY <1>1, <1>2 DEF IInv, LeaseTypes, OneAtATime
<1>5. \A u \in Txns : Owners(u)' \subseteq Owners(u)
  BY <1>1 DEF Owners, IInv, LeaseTypes
<1> QED
  BY <1>2, <1>3, <1>4, <1>5, NothingTaken

\* The one that resolves a row gives it up; if it clears the lease, the other owners
\* are stale, but there is one owner less.  Where the lease was over already, there
\* is one stale owner less.
LEMMA OwnerLeaves ==
  ASSUME IInv, NEW w \in Workers, NEW t \in Txns,
         t = current[w], Owners(t)' = Owners(t) \ {w},
         lease'[t] = Unclaimed, faults' = faults
  PROVE  /\ StalePaid(t)
         /\ lease[t] <= 0 => Stale(t)' = Stale(t) - 1
<1>1. IsFiniteSet(Owners(t)) /\ w \in Owners(t)
  BY DEF IInv, Paid, Owners
<1>2. /\ IsFiniteSet(Owners(t) \ {w})
      /\ Cardinality(Owners(t) \ {w}) = Cardinality(Owners(t)) - 1
      /\ Cardinality(Owners(t)) \in Nat
  BY <1>1, FS_RemoveElement, FS_CardinalityType
<1>3. Stale(t)' = Cardinality(Owners(t)) - 1
  BY <1>2 DEF Stale, Unclaimed
<1>4. Stale(t) = Cardinality(Owners(t)) - (IF lease[t] > 0 THEN 1 ELSE 0)
  BY <1>1 DEF Stale
<1>5. lease[t] \in Int
  BY DEF IInv, LeaseTypes, Unclaimed
<1> QED
  BY <1>2, <1>3, <1>4, <1>5 DEF StalePaid, IInv, LeaseTypes

LEMMA ResolveKeeps ==
  ASSUME IInv, NEW w \in Workers, Resolve(w)
  PROVE  /\ IInv' /\ \A t \in Txns : StalePaid(t)
         /\ \A t \in Txns : Owners(t)' = Owners(t) \ (IF t = current[w] THEN {w} ELSE {})
<1> DEFINE t == current[w]
<1>1. /\ current' = [current EXCEPT ![w] = NoTxn]
      /\ pc' = [pc EXCEPT ![w] = IF batch[w] = {} THEN "idle" ELSE "batch"]
      /\ batch' = batch
  BY DEF Resolve, Unlock
<1>2. \/ lease' = lease /\ Fault
      \/ lease' = lease /\ faults' = faults
      \/ lease' = [lease EXCEPT ![t] = Unclaimed] /\ faults' = faults
  BY DEF Resolve, RolledBack, End, Retry, columns
<1>3. lease' \in [Txns -> {Unclaimed} \cup 0..Lease]
  BY <1>2 DEF IInv, LeaseTypes
<1>4. LeaseTypes' /\ faults' >= faults
  BY <1>1, <1>2, <1>3, FaultCounts DEF IInv, LeaseTypes
<1>5. OneAtATime'
  BY <1>1 DEF IInv, LeaseTypes, OneAtATime
<1>6. \A u \in Txns : Owners(u)' = Owners(u) \ (IF u = t THEN {w} ELSE {})
  BY <1>1, ScheduleAssumptions DEF Owners, IInv, LeaseTypes, OneAtATime
<1>7. CASE lease' = lease
  BY <1>4, <1>5, <1>6, <1>7, NothingTaken
<1>8. CASE lease' = [lease EXCEPT ![t] = Unclaimed] /\ faults' = faults
  <2>1. ASSUME NEW u \in Txns PROVE StalePaid(u)
    <3>1. CASE u = t
      <4>1. Owners(u)' = Owners(u) \ {w} /\ lease'[u] = Unclaimed
        BY <1>6, <1>8, <3>1 DEF IInv, LeaseTypes
      <4> QED
        BY <1>8, <3>1, <4>1, OwnerLeaves
    <3>2. CASE u # t
      <4>1. Owners(u)' = Owners(u) /\ lease'[u] = lease[u]
        BY <1>6, <1>8, <3>2 DEF IInv, LeaseTypes
      <4>2. IsFiniteSet(Owners(u)) /\ Stale(u)' = Stale(u)
        BY <4>1 DEF IInv, Paid, Stale
      <4>3. Stale(u) \in Nat
        BY <4>2, StaleType DEF Stale
      <4> QED
        BY <1>8, <4>1, <4>2, <4>3 DEF StalePaid, IInv, LeaseTypes
    <3> QED
      BY <3>1, <3>2
  <2> QED
    BY <1>4, <1>5, <1>6, <2>1, PaidStep
<1> QED
  BY <1>2, <1>6, <1>7, <1>8

\* A stopped worker drops what it had; the lease stays.
LEMMA CrashKeeps ==
  ASSUME IInv, NEW w \in Workers, Crash(w)
  PROVE  IInv' /\ \A t \in Txns : StalePaid(t)
<1>1. LeaseTypes' /\ faults' >= faults
  BY FaultCounts DEF Crash, IInv, LeaseTypes, columns
<1>2. OneAtATime'
  BY DEF Crash, IInv, LeaseTypes, OneAtATime
<1>3. \A t \in Txns : Owners(t)' \subseteq Owners(t) /\ lease'[t] = lease[t]
  <2>1. /\ batch' = [batch EXCEPT ![w] = {}]
        /\ current' = [current EXCEPT ![w] = NoTxn] /\ lease' = lease
    BY DEF Crash, columns
  <2>2. \A v \in Workers : batch'[v] \subseteq batch[v] /\ current'[v] \in {current[v], NoTxn}
    BY <2>1 DEF IInv, LeaseTypes
  <2> QED
    BY <2>1, <2>2, ScheduleAssumptions DEF Owners
<1> QED
  BY <1>1, <1>2, <1>3, NothingTaken

\* The lease of a row in a hand comes to its end by a fault only.
LEMMA TickKeeps ==
  ASSUME IInv, Tick
  PROVE  IInv' /\ \A t \in Txns : StalePaid(t)
<1> USE ScheduleAssumptions
<1>1. lease' = [t \in Txns |-> IF lease[t] > 0 THEN lease[t] - 1 ELSE lease[t]]
  BY DEF Tick
<1>2. UNCHANGED procs
  BY DEF Tick
<1>3. lease' \in [Txns -> {Unclaimed} \cup 0..Lease]
  BY <1>1, SMT DEF IInv, LeaseTypes, Unclaimed
<1>4. LeaseTypes' /\ faults' >= faults
  BY <1>2, <1>3, FaultCounts DEF Tick, IInv, LeaseTypes, procs
<1>5. OneAtATime'
  BY <1>2 DEF IInv, OneAtATime, procs
<1>6. ASSUME NEW t \in Txns PROVE StalePaid(t)
  <2>1. IsFiniteSet(Owners(t)) /\ Owners(t)' = Owners(t)
    BY <1>2 DEF IInv, Paid, Owners, procs
  <2>2. Stale(t) \in Nat /\ Stale(t)' \in Nat /\ Cardinality(Owners(t)) \in Nat
    BY <2>1, StaleType, FS_CardinalityType DEF Stale
  <2>3. CASE lease[t] = 1 /\ Owners(t) # {}
    <3>1. t \in Held
      BY <2>3 DEF Owners, Held
    <3>2. faults' = faults + 1
      BY <2>3, <3>1, FaultCounts DEF Tick, IInv, LeaseTypes
    <3>3. Stale(t)' <= Stale(t) + 1
      BY <2>1, <2>2, <2>3 DEF Stale
    <3> QED
      BY <2>1, <2>2, <3>2, <3>3 DEF StalePaid, IInv, LeaseTypes
  <2>4. CASE lease[t] # 1 \/ Owners(t) = {}
    <3>1. Stale(t)' = Stale(t)
      <4>1. lease'[t] > 0 <=> lease[t] > 0 /\ lease[t] # 1
        BY <1>1 DEF IInv, LeaseTypes, Unclaimed
      <4> QED
        BY <2>1, <2>4, <4>1 DEF Stale
    <3> QED
      BY <1>4, <2>1, <2>2, <3>1 DEF StalePaid, IInv, LeaseTypes
  <2> QED
    BY <2>3, <2>4
<1> QED
  BY <1>4, <1>5, <1>6, PaidStep

\* Acceptance, references and damage touch no claim.
LEMMA OthersKeep ==
  ASSUME IInv, UNCHANGED <<lease, procs>>, faults' = faults \/ Fault
  PROVE  IInv' /\ \A t \in Txns : StalePaid(t)
<1>1. LeaseTypes' /\ faults' >= faults
  BY FaultCounts DEF IInv, LeaseTypes, procs
<1>2. OneAtATime' /\ \A t \in Txns : Owners(t)' = Owners(t)
  BY DEF IInv, OneAtATime, Owners, procs
<1> QED
  BY <1>1, <1>2, NothingTaken

LEMMA NextKeeps == IInv /\ [Next]_vars => IInv' /\ \A t \in Txns : StalePaid(t)
<1> SUFFICES ASSUME IInv, [Next]_vars
             PROVE  IInv' /\ \A t \in Txns : StalePaid(t)
  OBVIOUS
<1>1. ASSUME NEW t \in Txns, Accept(t) \/ Arrive(t) \/ Damage(t)
      PROVE  IInv' /\ \A u \in Txns : StalePaid(u)
  BY <1>1, OthersKeep DEF Accept, Arrive, Damage, columns
<1>2. CASE UNCHANGED vars
  BY <1>2, OthersKeep DEF vars, columns
<1> QED
  BY <1>1, <1>2, ClaimKeeps, LockKeeps, ResolveKeeps, CrashKeeps, TickKeeps DEF Next

\* However passes overrun, calls fail and instances stop: a lease gives a transaction
\* to one worker, and there are never more workers that have it besides than there
\* were faults (ClaimDueReferences, ReferenceWorker.ResolveOnce).
THEOREM OneOwnerHolds == Spec => []OneOwner
<1>1. IInv => OneOwner
  <2> SUFFICES ASSUME IInv, NEW t \in Txns
               PROVE  Cardinality(Owners(t)) <= faults + (IF lease[t] > 0 THEN 1 ELSE 0)
    BY DEF OneOwner
  <2>1. IsFiniteSet(Owners(t)) /\ Stale(t) <= faults /\ faults \in Nat
    BY DEF IInv, Paid, LeaseTypes
  <2>2. Cardinality(Owners(t)) \in Nat
    BY <2>1, FS_CardinalityType
  <2> QED
    BY <2>1, <2>2 DEF Stale
<1>2. IInv /\ [Next]_vars => IInv'
  BY NextKeeps
<1> QED
  BY <1>1, <1>2, InitHolds, PTL DEF Spec

-------------------------------------------------------------------------------
(* The schedule: Backoff and TimeOf satisfy the equations that define them *)

\* The delays double up to the cap.
LEMMA BackoffEquations ==
  /\ Backoff(0) = BackoffBase
  /\ \A n \in Nat : Backoff(n + 1) = IF 2 * Backoff(n) > BackoffCap THEN BackoffCap
                                     ELSE 2 * Backoff(n)
<1> USE ScheduleAssumptions
<1> DEFINE Def(f) == [i \in Nat |-> IF i = 0 THEN BackoffBase
                                    ELSE IF 2 * f[i - 1] > BackoffCap THEN BackoffCap
                                    ELSE 2 * f[i - 1]]
<1> DEFINE step == [n \in Nat |-> [d \in Nat |-> IF 2 * d > BackoffCap THEN BackoffCap
                                               ELSE 2 * d]]
<1>1. PICK f \in [Nat -> Nat] :
        f[0] = BackoffBase /\ \A n \in Nat : f[n + 1] = step[n][f[n]]
  <2>1. step \in [Nat -> [Nat -> Nat]] /\ BackoffBase \in Nat
    OBVIOUS
  <2> HIDE DEF step
  <2>2. Recurses(Nat, BackoffBase, step)
    BY <2>1, RecursionExists
  <2> QED
    BY <2>2 DEF Recurses
<1>2. f = Def(f)
  <2>1. ASSUME NEW i \in Nat PROVE f[i] = Def(f)[i]
    <3>1. CASE i = 0
      BY <1>1, <3>1
    <3>2. CASE i # 0
      <4>1. i - 1 \in Nat /\ (i - 1) + 1 = i
        BY <3>2
      <4> QED
        BY <1>1, <3>2, <4>1
    <3> QED
      BY <3>1, <3>2
  <2> QED
    BY <2>1
<1> DEFINE delay == CHOOSE g : g = Def(g)
<1>3. delay = Def(delay)
  BY <1>2
<1>4. \A n \in Nat : Backoff(n) = delay[n]
  BY DEF Backoff
<1> HIDE DEF delay
<1>5. delay[0] = BackoffBase
  BY <1>3
<1>6. ASSUME NEW n \in Nat
      PROVE  delay[n + 1] = IF 2 * delay[n] > BackoffCap THEN BackoffCap ELSE 2 * delay[n]
  <2>1. n + 1 \in Nat /\ n + 1 # 0 /\ (n + 1) - 1 = n
    OBVIOUS
  <2>2. delay[n + 1] = Def(delay)[n + 1]
    BY <1>3
  <2> HIDE <1>3
  <2> QED
    BY <2>1, <2>2
<1>7. ASSUME NEW n \in Nat
      PROVE  Backoff(n + 1) = IF 2 * Backoff(n) > BackoffCap THEN BackoffCap
                              ELSE 2 * Backoff(n)
  <2>1. Backoff(n + 1) = delay[n + 1] /\ Backoff(n) = delay[n]
    BY <1>4
  <2> QED
    BY <1>6, <2>1
<1>8. Backoff(0) = BackoffBase
  BY <1>4, <1>5
<1> QED
  BY <1>7, <1>8

\* Before its jitter, no delay is shorter than the first or longer than the cap, and
\* each is at least the one before.
LEMMA BackoffBounded ==
  \A n \in Nat : /\ Backoff(n) \in BackoffBase..BackoffCap
                 /\ Backoff(n) <= Backoff(n + 1)
<1> USE ScheduleAssumptions
<1> DEFINE T == {n \in Nat : Backoff(n) \in BackoffBase..BackoffCap}
<1>1. 0 \in T
  BY BackoffEquations
<1>2. ASSUME NEW n \in T PROVE n + 1 \in T
  BY BackoffEquations
<1>3. T = Nat
  <2>1. T \subseteq Nat
    OBVIOUS
  <2> HIDE DEF T
  <2> QED
    BY <1>1, <1>2, <2>1, Induction
<1>4. ASSUME NEW n \in Nat
      PROVE  Backoff(n) \in BackoffBase..BackoffCap /\ Backoff(n) <= Backoff(n + 1)
  <2>1. n \in T
    BY <1>3
  <2>2. Backoff(n) \in BackoffBase..BackoffCap
    BY <2>1
  <2>3. Backoff(n + 1) = IF 2 * Backoff(n) > BackoffCap THEN BackoffCap ELSE 2 * Backoff(n)
    BY BackoffEquations
  <2> QED
    BY <2>2, <2>3
<1> QED
  BY <1>4

\* A later delay is not shorter.
LEMMA BackoffMonotone ==
  ASSUME NEW m \in Nat, NEW n \in Nat, m <= n
  PROVE  Backoff(m) <= Backoff(n)
<1> DEFINE T == {k \in Nat : Backoff(m) <= Backoff(m + k)}
<1>1. \A i \in Nat : Backoff(i) \in Int /\ Backoff(i) <= Backoff(i + 1)
  BY BackoffBounded
<1>2. 0 \in T
  BY <1>1
<1>3. ASSUME NEW k \in T PROVE k + 1 \in T
  <2>1. m + k \in Nat /\ (m + k) + 1 = m + (k + 1) /\ k + 1 \in Nat
    OBVIOUS
  <2>2. Backoff(m) <= Backoff(m + k) /\ Backoff(m + k) <= Backoff(m + (k + 1))
    BY <1>1, <2>1
  <2>3. Backoff(m) \in Int /\ Backoff(m + k) \in Int /\ Backoff(m + (k + 1)) \in Int
    BY <1>1, <2>1
  <2> QED
    BY <2>1, <2>2, <2>3
<1>4. n - m \in T
  <2>1. T \subseteq Nat
    OBVIOUS
  <2> HIDE DEF T
  <2>2. T = Nat
    BY <1>2, <1>3, <2>1, Induction
  <2> QED
    BY <2>2
<1>5. m + (n - m) = n
  OBVIOUS
<1> QED
  BY <1>4, <1>5

\* From the attempt on that has the number of the cap, the delay is the cap.
LEMMA BackoffCapped ==
  ASSUME NEW n \in Nat, n >= BackoffCap
  PROVE  Backoff(n) = BackoffCap
<1> USE ScheduleAssumptions
<1> DEFINE T == {k \in Nat : Backoff(k) = BackoffCap \/ Backoff(k) >= BackoffBase + k}
<1>1. 0 \in T
  BY BackoffEquations
<1>2. ASSUME NEW k \in T PROVE k + 1 \in T
  <2>1. /\ Backoff(k) \in BackoffBase..BackoffCap /\ Backoff(k + 1) \in BackoffBase..BackoffCap
        /\ Backoff(k + 1) = IF 2 * Backoff(k) > BackoffCap THEN BackoffCap ELSE 2 * Backoff(k)
        /\ Backoff(k) = BackoffCap \/ Backoff(k) >= BackoffBase + k
    BY BackoffBounded, BackoffEquations
  <2>2. Backoff(k + 1) = BackoffCap \/ Backoff(k + 1) >= BackoffBase + (k + 1)
    BY <2>1
  <2> QED
    BY <2>2
<1>3. n \in T
  <2>1. T \subseteq Nat
    OBVIOUS
  <2> HIDE DEF T
  <2> QED
    BY <1>1, <1>2, <2>1, Induction
<1>4. /\ Backoff(n) = BackoffCap \/ Backoff(n) >= BackoffBase + n
      /\ Backoff(n) \in BackoffBase..BackoffCap
  BY <1>3, BackoffBounded
<1> QED
  BY <1>4

\* Whole parts keep the order.
LEMMA DivMonotone ==
  ASSUME NEW a \in Nat, NEW b \in Nat, NEW d \in Nat \ {0}, a <= b
  PROVE  a \div d \in Nat /\ a \div d <= b \div d
<1>1. /\ a \div d \in Nat /\ d * (a \div d) <= a
      /\ b \div d \in Nat /\ b < d * ((b \div d) + 1)
  OBVIOUS
<1>2. ASSUME NEW p \in Nat, NEW q \in Nat, d * p <= a, b < d * (q + 1)
      PROVE  p <= q
  <2>1. d * p < d * (q + 1)
    BY <1>2
  <2> QED
    BY <2>1
<1> QED
  BY <1>1, <1>2

\* A drawn delay is not shorter than the delay it was drawn from.
LEMMA DelaysType ==
  ASSUME NEW n \in Nat, NEW d \in Delays(n)
  PROVE  d \in Nat /\ d >= Backoff(n) /\ d <= LongestDelay /\ LongestDelay \in Nat
<1>1. Backoff(n) \in Nat /\ Backoff(n) <= BackoffCap /\ BackoffCap \in Nat
  BY BackoffBounded, ScheduleAssumptions
<1>2. PICK j \in 0..(Backoff(n) \div JitterDenominator) : d = Backoff(n) + j
  BY DEF Delays
<1>3. /\ Backoff(n) \div JitterDenominator \in Nat
      /\ BackoffCap \div JitterDenominator \in Nat
      /\ Backoff(n) \div JitterDenominator <= BackoffCap \div JitterDenominator
  BY <1>1, DivMonotone, ScheduleAssumptions
<1> HIDE <1>2
<1>4. j \in Nat /\ j <= BackoffCap \div JitterDenominator
  BY <1>2, <1>3
<1> QED
  BY <1>1, <1>2, <1>3, <1>4 DEF LongestDelay

\* The delay of an attempt, its jitter included, is drawn from some set; it is never
\* shorter than the base nor longer than the cap and the jitter on it.  From some
\* attempt on it is any delay from the cap to that (ReferenceBackoff).
THEOREM DelaysBounded ==
  \A n \in Nat :
    /\ Delays(n) # {} /\ Delays(n) \subseteq BackoffBase..LongestDelay
    /\ n >= BackoffCap => Delays(n) = BackoffCap..LongestDelay
<1> SUFFICES ASSUME NEW n \in Nat
             PROVE  /\ Delays(n) # {} /\ Delays(n) \subseteq BackoffBase..LongestDelay
                    /\ n >= BackoffCap => Delays(n) = BackoffCap..LongestDelay
  OBVIOUS
<1>1. /\ Backoff(n) \in Nat /\ Backoff(n) >= BackoffBase
      /\ BackoffBase \in Nat /\ BackoffCap \in Nat
  BY BackoffBounded, ScheduleAssumptions
<1>2. /\ Backoff(n) \div JitterDenominator \in Nat
      /\ BackoffCap \div JitterDenominator \in Nat
  BY <1>1, DivMonotone, ScheduleAssumptions
<1>3. Delays(n) \subseteq BackoffBase..LongestDelay
  BY <1>1, DelaysType
<1>4. Delays(n) # {}
  BY <1>2 DEF Delays
<1>5. ASSUME n >= BackoffCap PROVE Delays(n) = BackoffCap..LongestDelay
  <2>1. Delays(n) = {BackoffCap + j : j \in 0..(BackoffCap \div JitterDenominator)}
    BY <1>5, BackoffCapped DEF Delays
  <2>2. ASSUME NEW c \in Nat, NEW k \in Nat PROVE {c + j : j \in 0..k} = c..(c + k)
    <3>1. \A d \in c..(c + k) : d - c \in 0..k /\ d = c + (d - c)
      OBVIOUS
    <3> QED
      BY <3>1
  <2> QED
    BY <1>1, <1>2, <2>1, <2>2 DEF LongestDelay
<1> QED
  BY <1>3, <1>4, <1>5

\* TimeOf sums up the delays.
LEMMA TimeOfEquations ==
  /\ TimeOf(0) = 0
  /\ \A n \in Nat : TimeOf(n) \in Nat /\ TimeOf(n + 1) = TimeOf(n) + Backoff(n)
<1>1. \A n \in Nat : Backoff(n) \in Nat
  BY BackoffBounded, ScheduleAssumptions
<1> DEFINE Def(f) == [i \in Nat |-> IF i = 0 THEN 0 ELSE f[i - 1] + Backoff(i - 1)]
<1> DEFINE step == [n \in Nat |-> [d \in Nat |-> d + Backoff(n)]]
<1>2. PICK f \in [Nat -> Nat] : f[0] = 0 /\ \A n \in Nat : f[n + 1] = step[n][f[n]]
  <2>1. step \in [Nat -> [Nat -> Nat]] /\ 0 \in Nat
    BY <1>1
  <2> HIDE DEF step
  <2>2. Recurses(Nat, 0, step)
    BY <2>1, RecursionExists
  <2> QED
    BY <2>2 DEF Recurses
<1>3. f = Def(f)
  <2>1. ASSUME NEW i \in Nat PROVE f[i] = Def(f)[i]
    <3>1. CASE i = 0
      BY <1>2, <3>1
    <3>2. CASE i # 0
      <4>1. i - 1 \in Nat /\ (i - 1) + 1 = i
        BY <3>2
      <4> QED
        BY <1>2, <3>2, <4>1
    <3> QED
      BY <3>1, <3>2
  <2> QED
    BY <2>1
<1> DEFINE total == CHOOSE g : g = Def(g)
<1>4. total = Def(total)
  BY <1>3
<1>5. \A n \in Nat : TimeOf(n) = total[n]
  BY DEF TimeOf
<1> HIDE DEF total
<1>6. total[0] = 0
  BY <1>4
<1>7. ASSUME NEW n \in Nat PROVE total[n + 1] = total[n] + Backoff(n)
  <2>1. n + 1 \in Nat /\ n + 1 # 0 /\ (n + 1) - 1 = n
    OBVIOUS
  <2>2. total[n + 1] = Def(total)[n + 1]
    BY <1>4
  <2> HIDE <1>4
  <2> QED
    BY <2>1, <2>2
<1> DEFINE T == {n \in Nat : total[n] \in Nat}
<1>8. T = Nat
  <2>1. T \subseteq Nat /\ 0 \in T
    BY <1>6
  <2>2. ASSUME NEW n \in T PROVE n + 1 \in T
    BY <1>1, <1>7
  <2> HIDE DEF T
  <2> QED
    BY <2>1, <2>2, Induction
<1>9. \A n \in Nat : TimeOf(n) \in Nat /\ TimeOf(n) = total[n] /\ TimeOf(n + 1) = total[n + 1]
  BY <1>5, <1>8
<1>10. TimeOf(0) = total[0]
  BY <1>5
<1> QED
  BY <1>6, <1>7, <1>9, <1>10

\* More attempts take more time.
LEMMA TimeOfMonotone ==
  ASSUME NEW m \in Nat, NEW n \in Nat, m <= n
  PROVE  TimeOf(m) <= TimeOf(n)
<1> DEFINE T == {k \in Nat : TimeOf(m) <= TimeOf(m + k)}
<1>1. \A i \in Nat : TimeOf(i) \in Nat /\ TimeOf(i) <= TimeOf(i + 1)
  BY TimeOfEquations, BackoffBounded, ScheduleAssumptions
<1>2. 0 \in T
  BY <1>1
<1>3. ASSUME NEW k \in T PROVE k + 1 \in T
  <2>1. m + k \in Nat /\ (m + k) + 1 = m + (k + 1) /\ k + 1 \in Nat
    OBVIOUS
  <2>2. TimeOf(m) <= TimeOf(m + k) /\ TimeOf(m + k) <= TimeOf(m + (k + 1))
    BY <1>1, <2>1
  <2>3. TimeOf(m) \in Nat /\ TimeOf(m + k) \in Nat /\ TimeOf(m + (k + 1)) \in Nat
    BY <1>1, <2>1
  <2> QED
    BY <2>1, <2>2, <2>3
<1>4. n - m \in T
  <2>1. T \subseteq Nat
    OBVIOUS
  <2> HIDE DEF T
  <2>2. T = Nat
    BY <1>2, <1>3, <2>1, Induction
  <2> QED
    BY <2>2
<1>5. m + (n - m) = n
  OBVIOUS
<1> QED
  BY <1>4, <1>5

-------------------------------------------------------------------------------
(* Types and the spread of the retries                                     *)

ColumnTypes ==
  /\ state \in [Txns -> {"absent", "waiting", "terminal"}]
  /\ wait \in [Txns -> -Horizon..LongestDelay]
  /\ attempts \in [Txns -> Nat]
  /\ remaining \in [Txns -> 0..Ttl]
  /\ found \subseteq Txns /\ corrupt \subseteq Txns
  /\ faults \in 0..MaxFaults

\* The row that a worker has locked is a transaction.  What is in a hand has been
\* accepted, and nothing has counted on a transaction before that.
Accepted ==
  /\ \A w \in Workers : pc[w] = "locked" => current[w] # NoTxn
  /\ \A t \in Txns : state[t] = "absent" =>
       attempts[t] = 0 /\ remaining[t] = Ttl /\ Owners(t) = {}

\* A row is leased while it is due: a retry ends its lease.
LeasedDue == \A t \in Txns : lease[t] > 0 => state[t] = "waiting" /\ wait[t] <= 0

Waited(t) == Ttl - remaining[t]

\* A fault that is not that of a stale owner has had its attempt.  Of n attempts the
\* others kept to the schedule.
Regular(n, t) ==
  IF n > faults - Stale(t) THEN n - (faults - Stale(t)) ELSE 0

\* The attempts so far took their time, and the next one is not due before its delay
\* has passed too.
NextOnTime(t) ==
  remaining[t] > 0 =>
    /\ wait[t] <= 0 => Waited(t) >= TimeOf(Regular(attempts[t] + 1, t))
    /\ wait[t] > 0 => Waited(t) + wait[t] >= TimeOf(Regular(attempts[t] + 1, t))

Spread ==
  \A t \in Txns : state[t] = "waiting" =>
    Waited(t) >= TimeOf(Regular(attempts[t], t)) /\ NextOnTime(t)

PaceInv == IInv /\ ColumnTypes /\ Accepted /\ LeasedDue /\ Spread

LEMMA PaceInit == Init => PaceInv
<1> SUFFICES ASSUME Init PROVE PaceInv
  OBVIOUS
<1> USE ScheduleAssumptions DEF Init
<1>1. LongestDelay \in Nat
  BY DivMonotone DEF LongestDelay
<1>2. ColumnTypes
  BY <1>1 DEF ColumnTypes
<1>3. Accepted /\ LeasedDue /\ Spread
  BY DEF Accepted, LeasedDue, Spread, Owners, Unclaimed
<1> QED
  BY <1>2, <1>3, InitHolds DEF PaceInv

\* A fault stays within its bound.
LEMMA FaultBounded ==
  ASSUME faults \in 0..MaxFaults, faults' = faults \/ Fault
  PROVE  faults' \in 0..MaxFaults
  BY ScheduleAssumptions DEF Fault

\* Stale owners are among the faults.
LEMMA StaleBounds ==
  ASSUME IInv, NEW t \in Txns
  PROVE  Stale(t) \in 0..faults /\ faults \in Nat
<1>1. IsFiniteSet(Owners(t)) /\ Stale(t) <= faults /\ faults \in Nat
  BY DEF IInv, Paid, LeaseTypes
<1>2. Stale(t) \in Nat
  BY <1>1, StaleType DEF Stale
<1> QED
  BY <1>1, <1>2

LEMMA RegularType ==
  ASSUME IInv, NEW t \in Txns, NEW n \in Nat
  PROVE  /\ Regular(n, t) \in Nat /\ Regular(n, t) <= n
         /\ Regular(n + 1, t) \in Nat /\ Regular(n, t) <= Regular(n + 1, t)
         /\ Regular(n + 1, t) <= Regular(n, t) + 1
  BY StaleBounds DEF Regular

\* No step asks for more attempts that have kept to the schedule.
LEMMA RegularStep ==
  ASSUME IInv, IInv', NEW t \in Txns, StalePaid(t), NEW n \in Nat
  PROVE  /\ Regular(n, t)' \in Nat /\ Regular(n, t)' <= Regular(n, t)
         /\ TimeOf(Regular(n, t)') <= TimeOf(Regular(n, t))
         /\ TimeOf(Regular(n, t)') \in Nat /\ TimeOf(Regular(n, t)) \in Nat
<1>1. Stale(t) \in 0..faults /\ faults \in Nat
  BY StaleBounds
<1>2. Stale(t)' \in 0..faults' /\ faults' \in Nat
  <2>1. IsFiniteSet(Owners(t)') /\ Stale(t)' <= faults' /\ faults' \in Nat
    BY DEF IInv, Paid, LeaseTypes
  <2>2. Stale(t)' \in Nat
    BY <2>1, StaleType DEF Stale
  <2> QED
    BY <2>1, <2>2
<1>3. /\ Regular(n, t)' \in Nat /\ Regular(n, t) \in Nat
      /\ Regular(n, t)' <= Regular(n, t)
  BY <1>1, <1>2 DEF Regular, StalePaid
<1> QED
  BY <1>3, TimeOfMonotone, TimeOfEquations

\* A step that leaves the columns of t alone keeps its pace.
LEMMA PaceKept ==
  ASSUME PaceInv, IInv', NEW t \in Txns, StalePaid(t), state[t] = "waiting",
         wait'[t] = wait[t], attempts'[t] = attempts[t], remaining'[t] = remaining[t]
  PROVE  (Waited(t) >= TimeOf(Regular(attempts[t], t)) /\ NextOnTime(t))'
<1>1. PICK n \in Nat : n = attempts[t]
  BY DEF PaceInv, ColumnTypes
<1>2. /\ Waited(t) >= TimeOf(Regular(n, t)) /\ Waited(t) \in Int /\ wait[t] \in Int
      /\ remaining[t] > 0 =>
           /\ wait[t] <= 0 => Waited(t) >= TimeOf(Regular(n + 1, t))
           /\ wait[t] > 0 => Waited(t) + wait[t] >= TimeOf(Regular(n + 1, t))
  BY <1>1, ScheduleAssumptions DEF PaceInv, Spread, NextOnTime, Waited, ColumnTypes
<1>3. Waited(t)' = Waited(t) /\ attempts'[t] = n
  BY <1>1 DEF Waited
<1>4. /\ TimeOf(Regular(n, t)') <= TimeOf(Regular(n, t))
      /\ TimeOf(Regular(n, t)') \in Nat /\ TimeOf(Regular(n, t)) \in Nat
      /\ TimeOf(Regular(n + 1, t)') <= TimeOf(Regular(n + 1, t))
      /\ TimeOf(Regular(n + 1, t)') \in Nat /\ TimeOf(Regular(n + 1, t)) \in Nat
  BY RegularStep DEF PaceInv
<1>5. Waited(t)' >= TimeOf(Regular(n, t)')
  BY <1>2, <1>3, <1>4
<1>6. remaining'[t] > 0 =>
        /\ wait'[t] <= 0 => Waited(t)' >= TimeOf(Regular(n + 1, t)')
        /\ wait'[t] > 0 => Waited(t)' + wait'[t] >= TimeOf(Regular(n + 1, t)')
  BY <1>2, <1>3, <1>4
<1>7. /\ Regular(attempts[t], t)' = Regular(n, t)'
      /\ Regular(attempts[t] + 1, t)' = Regular(n + 1, t)'
  BY <1>3 DEF Regular
<1> QED
  BY <1>5, <1>6, <1>7 DEF NextOnTime

\* A step that moves no column, puts nothing into a hand and locks only what was
\* in one keeps the pace.
LEMMA HandsOnly ==
  ASSUME PaceInv, IInv', \A t \in Txns : StalePaid(t),
         UNCHANGED <<state, wait, lease, attempts, remaining>>,
         found' \subseteq Txns, corrupt' \subseteq Txns,
         faults' = faults \/ Fault,
         \A t \in Txns : Owners(t)' \subseteq Owners(t),
         \A w \in Workers : pc'[w] = "locked" => current'[w] # NoTxn
  PROVE  PaceInv'
<1>1. ColumnTypes'
  BY FaultBounded DEF PaceInv, ColumnTypes
<1>2. Accepted'
  BY DEF PaceInv, Accepted
<1>3. LeasedDue'
  BY DEF PaceInv, LeasedDue
<1>4. Spread'
  BY PaceKept DEF Spread
<1> QED
  BY <1>1, <1>2, <1>3, <1>4 DEF PaceInv

\* An acceptance schedules the first attempt one delay from now.
LEMMA AcceptPaced ==
  ASSUME PaceInv, IInv', \A u \in Txns : StalePaid(u), NEW t \in Txns, Accept(t)
  PROVE  PaceInv'
<1> USE ScheduleAssumptions
<1>1. PICK d \in Delays(0) : wait' = [wait EXCEPT ![t] = d]
  BY DEF Accept
<1>2. /\ state[t] = "absent" /\ state' = [state EXCEPT ![t] = "waiting"]
      /\ UNCHANGED <<attempts, lease, remaining, found, corrupt, pc, batch, current,
                     faults>>
  BY DEF Accept, inputs, procs
<1>3. /\ d \in Nat /\ d >= Backoff(0) /\ Backoff(0) \in Nat
      /\ d <= LongestDelay /\ LongestDelay \in Nat
  BY DelaysType, BackoffBounded
<1>4. attempts[t] = 0 /\ remaining[t] = Ttl
  BY <1>2 DEF PaceInv, Accepted
<1>5. ColumnTypes'
  BY <1>1, <1>2, <1>3 DEF PaceInv, ColumnTypes
<1>6. \A u \in Txns : Owners(u)' = Owners(u)
  BY <1>2 DEF Owners
<1>7. Accepted'
  BY <1>2, <1>6 DEF PaceInv, Accepted, ColumnTypes
<1>8. LeasedDue'
  BY <1>1, <1>2 DEF PaceInv, LeasedDue, ColumnTypes
<1>9. TimeOf(0) = 0 /\ TimeOf(1) = Backoff(0)
  <2>1. TimeOf(0 + 1) = TimeOf(0) + Backoff(0)
    BY TimeOfEquations
  <2> QED
    BY <1>3, <2>1, TimeOfEquations
<1>10. ASSUME NEW u \in Txns, state'[u] = "waiting"
       PROVE  (Waited(u) >= TimeOf(Regular(attempts[u], u)) /\ NextOnTime(u))'
  <2>1. CASE u = t
    <3>1. Waited(u)' = 0 /\ attempts'[u] = 0 /\ wait'[u] = d
      BY <1>1, <1>2, <1>4, <2>1 DEF Waited, PaceInv, ColumnTypes
    <3>2. /\ Regular(0, u)' \in Nat /\ Regular(0, u)' <= 0
          /\ Regular(1, u)' \in Nat /\ Regular(1, u)' <= 1
      <4>1. IInv /\ StalePaid(u)
        BY DEF PaceInv
      <4>2. ASSUME NEW n \in Nat PROVE Regular(n, u)' \in Nat /\ Regular(n, u)' <= n
        <5>1. Regular(n, u) \in Nat /\ Regular(n, u) <= n
          BY <4>1, RegularType
        <5>2. Regular(n, u)' \in Nat /\ Regular(n, u)' <= Regular(n, u)
          BY <4>1, RegularStep
        <5> QED
          BY <5>1, <5>2
      <4> QED
        BY <4>2
    <3>3. TimeOf(Regular(0, u)') = 0
      BY <1>9, <3>2
    <3>4. TimeOf(Regular(1, u)') <= TimeOf(1) /\ TimeOf(Regular(1, u)') \in Nat
      BY <3>2, TimeOfMonotone, TimeOfEquations
    <3>5. /\ Regular(attempts[u], u)' = Regular(0, u)'
          /\ Regular(attempts[u] + 1, u)' = Regular(1, u)'
      BY <3>1 DEF Regular
    <3>6. Waited(u)' + wait'[u] >= TimeOf(Regular(attempts[u] + 1, u)')
      BY <1>3, <1>9, <3>1, <3>4, <3>5
    <3>7. Waited(u)' >= TimeOf(Regular(attempts[u], u)')
      BY <3>1, <3>3, <3>5
    <3>8. wait'[u] > 0
      BY <1>3, <3>1, BackoffBounded
    <3>9. remaining'[u] > 0 =>
            /\ wait'[u] <= 0 => Waited(u)' >= TimeOf(Regular(attempts[u] + 1, u)')
            /\ wait'[u] > 0 => Waited(u)' + wait'[u] >= TimeOf(Regular(attempts[u] + 1, u)')
      BY <1>3, <3>1, <3>6, <3>8
    <3> QED
      BY <3>7, <3>9 DEF NextOnTime
  <2>2. CASE u # t
    <3>1. /\ state[u] = "waiting" /\ wait'[u] = wait[u]
          /\ attempts'[u] = attempts[u] /\ remaining'[u] = remaining[u]
      BY <1>1, <1>2, <1>10, <2>2 DEF PaceInv, ColumnTypes
    <3> QED
      BY <3>1, PaceKept
  <2> QED
    BY <2>1, <2>2
<1> QED
  BY <1>5, <1>7, <1>8, <1>10 DEF PaceInv, Spread

\* A claim takes waiting rows that are due.
LEMMA ClaimPaced ==
  ASSUME PaceInv, IInv', \A t \in Txns : StalePaid(t), NEW w \in Workers, Claim(w)
  PROVE  PaceInv'
<1>1. PICK T \in SUBSET Txns :
        /\ FirstDue(T)
        /\ lease' = [t \in Txns |-> IF t \in T THEN Lease ELSE lease[t]]
        /\ \/ /\ batch' = [batch EXCEPT ![w] = T]
              /\ pc' = [pc EXCEPT ![w] = "batch"]
              /\ UNCHANGED <<current, faults>>
           \/ UNCHANGED procs /\ (faults' = faults \/ Fault)
  BY DEF Claim
<1>2. UNCHANGED <<state, wait, attempts, remaining, found, corrupt>>
  BY DEF Claim, inputs
<1>3. \A t \in T : state[t] = "waiting" /\ wait[t] <= 0
  BY <1>1 DEF FirstDue, Due
<1>4. ColumnTypes'
  BY <1>1, <1>2, FaultBounded DEF PaceInv, ColumnTypes
<1>5. \A v \in Workers : pc'[v] = "locked" => current'[v] # NoTxn
  BY <1>1 DEF PaceInv, Accepted, IInv, LeaseTypes, procs
<1>6. \A t \in Txns \ T : Owners(t)' \subseteq Owners(t)
  <2>1. current[w] = NoTxn
    BY DEF Claim, PaceInv, IInv, OneAtATime
  <2> QED
    BY <1>1, <2>1 DEF Owners, PaceInv, IInv, LeaseTypes, procs
<1>7. Accepted'
  BY <1>2, <1>3, <1>5, <1>6 DEF PaceInv, Accepted
<1>8. LeasedDue'
  BY <1>1, <1>2, <1>3 DEF PaceInv, LeasedDue
<1>9. Spread'
  BY <1>2, PaceKept DEF Spread
<1> QED
  BY <1>4, <1>7, <1>8, <1>9 DEF PaceInv

LEMMA LockPaced ==
  ASSUME PaceInv, IInv', \A t \in Txns : StalePaid(t), NEW w \in Workers, Lock(w)
  PROVE  PaceInv'
<1>1. PICK t \in batch[w] \ Locked :
        /\ current' = [current EXCEPT ![w] = t]
        /\ batch' = [batch EXCEPT ![w] = @ \ {t}]
  BY DEF Lock
<1>2. /\ pc' = [pc EXCEPT ![w] = "locked"]
      /\ UNCHANGED <<state, wait, lease, attempts, remaining, found, corrupt, faults>>
  BY DEF Lock, columns, inputs
<1>3. t # NoTxn
  BY ScheduleAssumptions DEF PaceInv, IInv, LeaseTypes
<1>4. \A u \in Txns : Owners(u)' \subseteq Owners(u)
  BY <1>1 DEF Owners, PaceInv, IInv, LeaseTypes
<1>5. \A v \in Workers : pc'[v] = "locked" => current'[v] # NoTxn
  BY <1>1, <1>2, <1>3 DEF PaceInv, Accepted, IInv, LeaseTypes
<1> QED
  BY <1>2, <1>4, <1>5, HandsOnly DEF PaceInv, ColumnTypes

\* Where k attempts kept to the schedule when an attempt is made, k of those with it
\* did, and the next one is no earlier than k + 1 of them.
LEMMA NextDelay ==
  ASSUME NEW a \in Nat, NEW k \in Nat, k <= a, NEW i \in Nat, i <= k,
         NEW j \in Nat, j <= k + 1, NEW elapsed \in Int, elapsed >= TimeOf(k),
         NEW d \in Nat, d >= Backoff(a)
  PROVE  elapsed >= TimeOf(i) /\ elapsed + d >= TimeOf(j)
<1>1. TimeOf(i) <= TimeOf(k) /\ TimeOf(j) <= TimeOf(k + 1)
  BY TimeOfMonotone
<1>2. TimeOf(k + 1) = TimeOf(k) + Backoff(k)
  BY TimeOfEquations
<1>3. TimeOf(i) \in Nat /\ TimeOf(j) \in Nat /\ TimeOf(k) \in Nat
  BY TimeOfEquations
<1>4. Backoff(k) <= Backoff(a) /\ Backoff(k) \in Int /\ Backoff(a) \in Int
  BY BackoffMonotone, BackoffBounded
<1> QED
  BY <1>1, <1>2, <1>3, <1>4

\* A retry comes when its row is due, or it is that of a stale owner.
LEMMA RetryPaced ==
  ASSUME PaceInv, IInv', NEW w \in Workers, NEW t \in Txns, StalePaid(t),
         t = current[w], Owners(t)' = Owners(t) \ {w},
         state[t] = "waiting", remaining[t] # 0, faults' = faults, Retry(t)
  PROVE  (Waited(t) >= TimeOf(Regular(attempts[t], t)) /\ NextOnTime(t))'
<1>1. PICK a \in Nat : a = attempts[t] + 1
  BY DEF PaceInv, ColumnTypes
<1>2. PICK n \in Nat : n = attempts[t] /\ a = n + 1
  BY <1>1 DEF PaceInv, ColumnTypes
<1>3. PICK d \in Delays(a) : wait' = [wait EXCEPT ![t] = d]
  BY <1>1 DEF Retry
<1>4. d \in Nat /\ d >= Backoff(a)
  BY DelaysType
<1>5. /\ attempts'[t] = a /\ wait'[t] = d /\ lease'[t] = Unclaimed
      /\ Waited(t)' = Waited(t) /\ Waited(t) \in Int
  BY <1>1, <1>3, ScheduleAssumptions DEF Retry, Waited, PaceInv, ColumnTypes, IInv, LeaseTypes
<1>6. /\ Regular(a, t)' \in Nat /\ Regular(a, t)' <= Regular(a, t)
      /\ Regular(a + 1, t)' \in Nat /\ Regular(a + 1, t)' <= Regular(a + 1, t)
  BY RegularStep DEF PaceInv
<1>7. /\ Regular(a, t) \in Nat /\ Regular(a, t) <= a
      /\ Regular(a + 1, t) \in Nat /\ Regular(a + 1, t) <= Regular(a, t) + 1
      /\ Regular(n, t) \in Nat /\ Regular(n, t) <= n /\ Regular(a, t) <= Regular(n, t) + 1
  BY <1>2, RegularType DEF PaceInv
<1>8. \E k \in Nat : /\ k <= a /\ Waited(t) >= TimeOf(k)
                     /\ Regular(a, t)' <= k /\ Regular(a + 1, t)' <= k + 1
  <2>1. CASE wait[t] <= 0
    <3>1. Waited(t) >= TimeOf(Regular(a, t))
      BY <1>1, <2>1, ScheduleAssumptions DEF PaceInv, ColumnTypes, Spread, NextOnTime
    <3>2. Regular(a + 1, t)' <= Regular(a, t) + 1
      BY <1>6, <1>7
    <3> QED
      BY <1>6, <1>7, <3>1, <3>2
  <2>2. CASE ~(wait[t] <= 0)
    <3>1. lease[t] <= 0
      BY <2>2 DEF PaceInv, LeasedDue, IInv, LeaseTypes, Unclaimed
    <3>2. Stale(t)' = Stale(t) - 1
      BY <1>5, <3>1, OwnerLeaves DEF PaceInv
    <3>3. Stale(t) \in 0..faults /\ faults \in Nat
      BY StaleBounds DEF PaceInv
    <3>4. Regular(a, t)' <= Regular(n, t) /\ Regular(a + 1, t)' <= Regular(n, t) + 1
      BY <1>2, <3>2, <3>3 DEF Regular
    <3>5. Waited(t) >= TimeOf(Regular(n, t))
      BY <1>2 DEF PaceInv, Spread
    <3>6. Regular(n, t) <= a
      BY <1>2, <1>7
    <3> QED
      BY <1>7, <3>4, <3>5, <3>6
  <2> QED
    BY <2>1, <2>2
<1>9. /\ Waited(t) >= TimeOf(Regular(a, t)')
      /\ Waited(t) + d >= TimeOf(Regular(a + 1, t)')
  BY <1>4, <1>5, <1>6, <1>8, NextDelay
<1>10. /\ Regular(attempts[t], t)' = Regular(a, t)'
       /\ Regular(attempts[t] + 1, t)' = Regular(a + 1, t)'
  BY <1>5 DEF Regular
<1>11. d > 0
  BY <1>4, BackoffBounded, ScheduleAssumptions
<1>12. Waited(t)' >= TimeOf(Regular(a, t)')
  BY <1>5, <1>9
<1>13. remaining'[t] > 0 =>
         /\ wait'[t] <= 0 => Waited(t)' >= TimeOf(Regular(a + 1, t)')
         /\ wait'[t] > 0 => Waited(t)' + wait'[t] >= TimeOf(Regular(a + 1, t)')
  BY <1>4, <1>5, <1>9, <1>11
<1> QED
  BY <1>10, <1>12, <1>13 DEF NextOnTime

\* A resolution ends the wait of its row or schedules it again.
LEMMA ResolvePaced ==
  ASSUME PaceInv, NEW w \in Workers, Resolve(w)
  PROVE  PaceInv'
<1> USE ScheduleAssumptions
<1>1. PICK t \in Txns : t = current[w]
  BY DEF Resolve, PaceInv, Accepted, IInv, LeaseTypes
<1>2. /\ current' = [current EXCEPT ![w] = NoTxn]
      /\ pc' = [pc EXCEPT ![w] = IF batch[w] = {} THEN "idle" ELSE "batch"]
      /\ UNCHANGED <<batch, found, corrupt>>
  BY DEF Resolve, Unlock, inputs
<1>3. /\ IInv' /\ \A u \in Txns : StalePaid(u)
      /\ \A u \in Txns : Owners(u)' = Owners(u) \ (IF u = t THEN {w} ELSE {})
  BY <1>1, ResolveKeeps DEF PaceInv
<1>4. \A v \in Workers : pc'[v] = "locked" => current'[v] # NoTxn
  BY <1>2 DEF PaceInv, Accepted, IInv, LeaseTypes
<1>5. CASE RolledBack /\ (faults' = faults \/ Fault)
  <2>1. UNCHANGED <<state, wait, lease, attempts, remaining>>
    BY <1>5 DEF RolledBack, columns
  <2> QED
    BY <1>2, <1>3, <1>4, <1>5, <2>1, HandsOnly DEF PaceInv, ColumnTypes
<1>6. CASE state[t] = "waiting" /\ End(t) /\ faults' = faults
  <2>1. ColumnTypes'
    <3>1. LongestDelay \in Nat
      BY DivMonotone DEF LongestDelay
    <3> QED
      BY <1>2, <1>1, <1>6, <3>1 DEF End, PaceInv, ColumnTypes
  <2>2. \A u \in Txns : /\ state'[u] = "absent" => u # t /\ state[u] = "absent"
                        /\ state'[u] = "waiting" => u # t /\ state[u] = "waiting"
                        /\ u # t => /\ wait'[u] = wait[u] /\ attempts'[u] = attempts[u]
                                    /\ remaining'[u] = remaining[u]
                                    /\ lease'[u] = lease[u] /\ state'[u] = state[u]
                        /\ u = t => lease'[u] = Unclaimed
    BY <1>1, <1>6 DEF End, PaceInv, ColumnTypes, IInv, LeaseTypes
  <2>3. Accepted'
    BY <1>3, <1>4, <2>2 DEF PaceInv, Accepted
  <2>4. LeasedDue'
    BY <2>2 DEF PaceInv, LeasedDue, Unclaimed
  <2>5. Spread'
    BY <1>3, <2>2, PaceKept DEF Spread
  <2> QED
    BY <1>3, <2>1, <2>3, <2>4, <2>5 DEF PaceInv
<1>7. CASE /\ state[t] = "waiting" /\ remaining[t] # 0
           /\ Retry(t) /\ faults' = faults
  <2>1. PICK n \in Nat : n = attempts[t] + 1
    BY <1>1 DEF PaceInv, ColumnTypes
  <2>2. PICK d \in Delays(n) : wait' = [wait EXCEPT ![t] = d]
    BY <1>7, <2>1 DEF Retry
  <2>3. d \in -Horizon..LongestDelay
    BY DelaysType
  <2>4. /\ attempts' = [attempts EXCEPT ![t] = n] /\ UNCHANGED <<state, remaining>>
        /\ lease' = [lease EXCEPT ![t] = Unclaimed]
    BY <1>7, <2>1 DEF Retry
  <2>5. ColumnTypes'
    BY <1>2, <1>7, <2>2, <2>1, <2>3, <2>4 DEF PaceInv, ColumnTypes
  <2>6. Accepted'
    BY <1>1, <1>3, <1>4, <1>7, <2>4 DEF PaceInv, Accepted, ColumnTypes
  <2>7. \A u \in Txns \ {t} : /\ wait'[u] = wait[u] /\ attempts'[u] = attempts[u]
                              /\ lease'[u] = lease[u]
    BY <2>2, <2>4 DEF PaceInv, ColumnTypes, IInv, LeaseTypes
  <2>8. lease'[t] = Unclaimed
    BY <2>4 DEF PaceInv, IInv, LeaseTypes
  <2>9. LeasedDue'
    BY <2>4, <2>7, <2>8 DEF PaceInv, LeasedDue, Unclaimed
  <2>10. ASSUME NEW u \in Txns, state'[u] = "waiting"
         PROVE  (Waited(u) >= TimeOf(Regular(attempts[u], u)) /\ NextOnTime(u))'
    <3>1. CASE u = t
      <4>1. Owners(t)' = Owners(t) \ {w}
        BY <1>3
      <4> QED
        BY <1>1, <1>3, <1>7, <3>1, <4>1, RetryPaced
    <3>2. CASE u # t
      BY <1>3, <2>4, <2>7, <2>10, <3>2, PaceKept
    <3> QED
      BY <3>1, <3>2
  <2> QED
    BY <1>3, <2>5, <2>6, <2>9, <2>10 DEF PaceInv, Spread
<1> QED
  BY <1>1, <1>5, <1>6, <1>7 DEF Resolve

LEMMA CrashPaced ==
  ASSUME PaceInv, IInv', \A t \in Txns : StalePaid(t), NEW w \in Workers, Crash(w)
  PROVE  PaceInv'
<1>1. /\ UNCHANGED <<state, wait, lease, attempts, remaining, found, corrupt>>
      /\ Fault
  BY DEF Crash, columns, inputs
<1>2. \A t \in Txns : Owners(t)' \subseteq Owners(t)
  <2>1. /\ batch' = [batch EXCEPT ![w] = {}]
        /\ current' = [current EXCEPT ![w] = NoTxn]
    BY DEF Crash
  <2>2. \A v \in Workers : batch'[v] \subseteq batch[v] /\ current'[v] \in {current[v], NoTxn}
    BY <2>1 DEF PaceInv, IInv, LeaseTypes
  <2> QED
    BY <2>2, ScheduleAssumptions DEF Owners
<1>3. \A v \in Workers : pc'[v] = "locked" => current'[v] # NoTxn
  BY DEF Crash, PaceInv, Accepted, IInv, LeaseTypes
<1> QED
  BY <1>1, <1>2, <1>3, HandsOnly DEF PaceInv, ColumnTypes

\* What is not waited for any longer has been waited for.
LEMMA TickPaced ==
  ASSUME PaceInv, IInv', \A t \in Txns : StalePaid(t), Tick
  PROVE  PaceInv'
<1> USE ScheduleAssumptions
<1>1. UNCHANGED <<state, attempts, found, corrupt, pc, batch, current>>
  BY DEF Tick, inputs, procs
<1>2. faults' \in 0..MaxFaults
  BY FaultBounded DEF Tick, PaceInv, ColumnTypes
<1>3. ASSUME NEW t \in Txns
      PROVE  /\ wait'[t] = IF state[t] = "waiting" /\ wait[t] > -Horizon
                           THEN wait[t] - 1 ELSE wait[t]
             /\ remaining'[t] = IF state[t] = "waiting" /\ remaining[t] > 0
                                THEN remaining[t] - 1 ELSE remaining[t]
             /\ lease'[t] > 0 => lease[t] > 0
             /\ wait[t] \in -Horizon..LongestDelay /\ remaining[t] \in 0..Ttl
             /\ lease[t] \in Int
  BY DEF Tick, PaceInv, ColumnTypes, IInv, LeaseTypes, Unclaimed
<1>4. LongestDelay \in Nat
  BY DivMonotone DEF LongestDelay
<1>5. ColumnTypes'
  <2>1. \A t \in Txns : wait'[t] \in -Horizon..LongestDelay /\ remaining'[t] \in 0..Ttl
    BY <1>3, <1>4
  <2>2. wait' \in [Txns -> -Horizon..LongestDelay] /\ remaining' \in [Txns -> 0..Ttl]
    BY <2>1 DEF Tick
  <2> QED
    BY <1>1, <1>2, <2>2 DEF PaceInv, ColumnTypes
<1>6. Accepted'
  BY <1>1, <1>3 DEF PaceInv, Accepted, Owners
<1>7. LeasedDue'
  BY <1>1, <1>3, <1>4 DEF PaceInv, LeasedDue
<1>8. ASSUME NEW t \in Txns, state'[t] = "waiting"
      PROVE  (Waited(t) >= TimeOf(Regular(attempts[t], t)) /\ NextOnTime(t))'
  <2>1. PICK n \in Nat : n = attempts[t]
    BY DEF PaceInv, ColumnTypes
  <2>2. /\ state[t] = "waiting" /\ attempts'[t] = n
    BY <1>1, <1>8, <2>1
  <2>3. /\ Waited(t) >= TimeOf(Regular(n, t))
        /\ remaining[t] > 0 =>
             /\ wait[t] <= 0 => Waited(t) >= TimeOf(Regular(n + 1, t))
             /\ wait[t] > 0 => Waited(t) + wait[t] >= TimeOf(Regular(n + 1, t))
    BY <2>1, <2>2 DEF PaceInv, Spread, NextOnTime
  <2>4. /\ TimeOf(Regular(n, t)') <= TimeOf(Regular(n, t))
        /\ TimeOf(Regular(n, t)') \in Nat /\ TimeOf(Regular(n, t)) \in Nat
        /\ TimeOf(Regular(n + 1, t)') <= TimeOf(Regular(n + 1, t))
        /\ TimeOf(Regular(n + 1, t)') \in Nat /\ TimeOf(Regular(n + 1, t)) \in Nat
    BY RegularStep DEF PaceInv
  <2>5. /\ wait'[t] = IF wait[t] > -Horizon THEN wait[t] - 1 ELSE wait[t]
        /\ remaining'[t] = IF remaining[t] > 0 THEN remaining[t] - 1 ELSE remaining[t]
        /\ wait[t] \in Int /\ remaining[t] \in 0..Ttl
    BY <1>3, <1>4, <2>2
  <2>6. Waited(t) = Ttl - remaining[t] /\ Waited(t)' = Ttl - remaining'[t]
    BY DEF Waited
  <2>7. Waited(t)' >= TimeOf(Regular(n, t)')
    BY <2>3, <2>4, <2>5, <2>6
  <2>8. remaining'[t] > 0 =>
          /\ wait'[t] <= 0 => Waited(t)' >= TimeOf(Regular(n + 1, t)')
          /\ wait'[t] > 0 => Waited(t)' + wait'[t] >= TimeOf(Regular(n + 1, t)')
    BY <2>3, <2>4, <2>5, <2>6
  <2>9. /\ Regular(attempts[t], t)' = Regular(n, t)'
        /\ Regular(attempts[t] + 1, t)' = Regular(n + 1, t)'
    BY <2>2 DEF Regular
  <2> QED
    BY <2>7, <2>8, <2>9 DEF NextOnTime
<1> QED
  BY <1>5, <1>6, <1>7, <1>8 DEF PaceInv, Spread

LEMMA PaceStep == PaceInv /\ [Next]_vars => PaceInv'
<1> SUFFICES ASSUME PaceInv, [Next]_vars PROVE PaceInv'
  OBVIOUS
<1>1. IInv' /\ \A t \in Txns : StalePaid(t)
  BY NextKeeps DEF PaceInv
<1>2. ASSUME UNCHANGED <<state, columns, procs>>, found' \subseteq Txns,
             corrupt' \subseteq Txns, faults' = faults \/ Fault
      PROVE  PaceInv'
  BY <1>1, <1>2, HandsOnly DEF Owners, PaceInv, Accepted, columns, procs
<1>3. ASSUME NEW t \in Txns, Arrive(t) \/ Damage(t) PROVE PaceInv'
  BY <1>2, <1>3 DEF Arrive, Damage, PaceInv, ColumnTypes
<1>4. CASE UNCHANGED vars
  BY <1>2, <1>4 DEF vars, inputs, PaceInv, ColumnTypes
<1> QED
  BY <1>1, <1>3, <1>4, AcceptPaced, ClaimPaced, LockPaced, ResolvePaced, CrashPaced,
     TickPaced DEF Next

\* Every reachable state is well typed, whatever the parameters of the backoff; no
\* attempt is ever scheduled further ahead than the cap and its jitter.
THEOREM TypesHold == Spec => []TypeOK
<1>1. PaceInv => TypeOK
  BY DEF PaceInv, IInv, LeaseTypes, ColumnTypes, TypeOK
<1> QED
  BY <1>1, PaceInit, PaceStep, PTL DEF Spec

\* The attempts of a waiting transaction are spread over the time it has waited as
\* the backoff has it, but for at most one for each fault, for every backoff, jitter,
\* lease, batch size and number of workers (rescheduleReference, ReferenceBackoff).
THEOREM NoRetryStormHolds == Spec => []NoRetryStorm
<1>1. PaceInv => NoRetryStorm
  <2> SUFFICES ASSUME PaceInv, NEW t \in Txns, state[t] = "waiting", attempts[t] >= faults
               PROVE  Ttl - remaining[t] >= TimeOf(attempts[t] - faults)
    BY DEF NoRetryStorm
  <2>1. /\ Waited(t) >= TimeOf(Regular(attempts[t], t)) /\ Waited(t) \in Int
        /\ attempts[t] \in Nat
    BY ScheduleAssumptions DEF PaceInv, Spread, Waited, ColumnTypes
  <2>2. Stale(t) \in 0..faults /\ faults \in Nat
    BY StaleBounds DEF PaceInv
  <2>3. /\ Regular(attempts[t], t) \in Nat /\ attempts[t] - faults \in Nat
        /\ attempts[t] - faults <= Regular(attempts[t], t)
    BY <2>1, <2>2 DEF Regular
  <2>4. /\ TimeOf(attempts[t] - faults) <= TimeOf(Regular(attempts[t], t))
        /\ TimeOf(attempts[t] - faults) \in Nat
        /\ TimeOf(Regular(attempts[t], t)) \in Nat
    BY <2>3, TimeOfMonotone, TimeOfEquations
  <2> QED
    BY <2>1, <2>4 DEF Waited
<1> QED
  BY <1>1, PaceInit, PaceStep, PTL DEF Spec
===================================================================================
