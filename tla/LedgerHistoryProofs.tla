--------------------------- MODULE LedgerHistoryProofs ---------------------------
(***************************************************************************)
(* What the instants in a wallet row rest on: the row lock, held from the  *)
(* read of the clock to the commit; that the balance is the sum of the     *)
(* ledger in every state a reconciliation can read; and that a walk by     *)
(* cursor misses nothing, sees nothing twice and, but for clocks that      *)
(* differ, follows the order of the commits.                               *)
(***************************************************************************)
EXTENDS LedgerHistory, Recursion, FiniteSetTheorems

Types ==
  /\ now \in Nat /\ skew \in [Instances -> 0..MaxSkew]
  /\ wallet # None => wallet \in Rows
  /\ pc \in [Instances -> {"idle", "opening", "locked"}]
  /\ stamp \in [Instances -> Nat]
  /\ view = [i \in Instances |-> view[i]]

\* One call at a time holds the row, and what it has read of it is the row.
OneLocked ==
  /\ \A i, j \in Instances : pc[i] = "locked" /\ pc[j] = "locked" => i = j
  /\ \A i \in Instances :
       pc[i] = "locked" => wallet # None /\ view[i] = wallet

\* An instant read from a clock is not in the future.
ReadBefore == \A i \in Instances : pc[i] # "idle" => stamp[i] <= Clock(i)

\* The time at which an instance's clock showed an instant.
TimeOf(t, i) == t - skew[i]

\* The row's last change was not before its creation, is not in the future, and
\* came before a call under the lock has read its clock.
InOrder ==
  wallet # None =>
    \E i, j \in Instances :
      /\ TimeOf(wallet.createdAt, i) <= TimeOf(wallet.updatedAt, j)
      /\ TimeOf(wallet.updatedAt, j) <= now
      /\ \A k \in Instances :
           pc[k] = "locked" => TimeOf(wallet.updatedAt, j) <= TimeOf(stamp[k], k)

IInv == Types /\ OneLocked /\ ReadBefore /\ InOrder

-------------------------------------------------------------------------------
\* The parameters are numbers.
LEMMA Numbers ==
  /\ Instances \subseteq Nat /\ MaxMoney \in Nat /\ OpeningBalances \subseteq 0..MaxMoney
  /\ Amounts \subseteq 1..MaxMoney /\ MaxSkew \in Nat
BY HistoryAssumptions

LEMMA InitHolds == Init => IInv
BY Numbers DEF Init, IInv, Types, OneLocked, ReadBefore, InOrder

\* A clock shows a number.
LEMMA ClockType ==
  ASSUME Types, NEW i \in Instances
  PROVE  Clock(i) \in Nat /\ skew[i] \in Nat
BY Numbers DEF Types, Clock

\* A step that leaves the row and the clocks' skew alone and no call locked that was not.
LEMMA QuietStep ==
  ASSUME IInv, UNCHANGED <<skew, wallet>>, now' \in Nat, now' >= now,
         pc' \in [Instances -> {"idle", "opening", "locked"}],
         stamp' \in [Instances -> Nat], view' = [i \in Instances |-> view'[i]],
         \A i \in Instances :
           \/ pc'[i] = "idle"
           \/ pc'[i] = pc[i] /\ stamp'[i] = stamp[i] /\ view'[i] = view[i]
  PROVE  IInv'
<1>1. \A i \in Instances : Clock(i)' \in Nat /\ Clock(i) \in Nat /\ Clock(i)' >= Clock(i)
  BY ClockType, Numbers DEF IInv, Types, Clock
<1>2. Types' /\ OneLocked'
  BY DEF IInv, Types, OneLocked
<1>3. ReadBefore'
  BY <1>1 DEF IInv, Types, ReadBefore
<1>4. InOrder'
  <2> SUFFICES ASSUME wallet # None PROVE InOrder'
    BY DEF InOrder
  <2>1. PICK i \in Instances, j \in Instances :
          /\ TimeOf(wallet.createdAt, i) <= TimeOf(wallet.updatedAt, j)
          /\ TimeOf(wallet.updatedAt, j) <= now
          /\ \A k \in Instances :
               pc[k] = "locked" => TimeOf(wallet.updatedAt, j) <= TimeOf(stamp[k], k)
    BY DEF IInv, InOrder
  <2>2. wallet.updatedAt \in Nat /\ now \in Nat /\ skew[j] \in Nat
    BY ClockType DEF IInv, Types, Rows
  <2>3. TimeOf(wallet.updatedAt, j) <= now'
    BY <2>1, <2>2 DEF TimeOf
  <2>4. \A k \in Instances :
          pc'[k] = "locked" => TimeOf(wallet.updatedAt, j) <= TimeOf(stamp'[k], k)
    BY <2>1 DEF TimeOf
  <2> QED BY <2>1, <2>3, <2>4 DEF InOrder, TimeOf
<1> QED BY <1>2, <1>3, <1>4 DEF IInv

\* The end of a call disturbs no other.
LEMMA CallEnds ==
  ASSUME Types, NEW i \in Instances, Done(i)
  PROVE  /\ pc'[i] = "idle"
         /\ \A j \in Instances \ {i} :
              pc'[j] = pc[j] /\ stamp'[j] = stamp[j] /\ view'[j] = view[j]
         /\ pc' \in [Instances -> {"idle", "opening", "locked"}]
         /\ stamp' \in [Instances -> Nat]
         /\ view' = [j \in Instances |-> view'[j]]
<1>1. view = [j \in Instances |-> view[j]] /\ view' = [view EXCEPT ![i] = None]
  BY DEF Types, Done
<1>2. view' = [j \in Instances |-> IF j = i THEN None ELSE view[j]]
  BY <1>1
<1>3. /\ view' = [j \in Instances |-> view'[j]]
      /\ \A j \in Instances \ {i} : view'[j] = view[j]
  BY <1>2
<1>4. pc' \in [Instances -> {"idle", "opening", "locked"}] /\ pc'[i] = "idle"
      /\ \A j \in Instances \ {i} : pc'[j] = pc[j]
  BY DEF Types, Done
<1>5. stamp' \in [Instances -> Nat] /\ \A j \in Instances \ {i} : stamp'[j] = stamp[j]
  BY DEF Types, Done
<1> QED BY <1>3, <1>4, <1>5

LEMMA OpenMoves ==
  ASSUME IInv, NEW i \in Instances, Open(i)
  PROVE  IInv'
<1>1. Clock(i) \in Nat
  BY ClockType DEF IInv
<1>2. wallet = None /\ UNCHANGED <<now, skew, wallet, view>>
  BY DEF Open, clocks
<1>3. Types'
  BY <1>1, <1>2 DEF Open, IInv, Types
<1>4. OneLocked' /\ ReadBefore' /\ InOrder'
  BY <1>1, <1>2 DEF Open, IInv, Types, OneLocked, ReadBefore, InOrder, Clock
<1> QED BY <1>3, <1>4 DEF IInv

LEMMA LockMoves ==
  ASSUME IInv, NEW i \in Instances, Lock(i)
  PROVE  IInv'
<1>1. Clock(i) \in Nat /\ wallet # None
  BY ClockType DEF IInv, Lock, Rehydrates
<1>2. UNCHANGED <<now, skew, wallet>> /\ \A j \in Instances : pc[j] # "locked"
  BY DEF Lock, clocks, Unlocked
<1>3. Types'
  BY <1>1, <1>2 DEF Lock, IInv, Types
<1>4. /\ pc'[i] = "locked" /\ stamp'[i] = Clock(i) /\ view'[i] = wallet
      /\ \A j \in Instances \ {i} : pc'[j] # "locked" /\ pc'[j] = pc[j] /\ stamp'[j] = stamp[j]
  BY <1>2 DEF Lock, IInv, Types
<1>5. \A j \in Instances : Clock(j)' = Clock(j) /\ Clock(j) \in Nat
  BY <1>2, ClockType DEF Clock, IInv
<1>6. OneLocked'
  BY <1>1, <1>2, <1>4 DEF OneLocked
<1>7. ReadBefore'
  BY <1>4, <1>5 DEF IInv, ReadBefore
<1>8. InOrder'
  <2>1. PICK h \in Instances, j \in Instances :
          /\ TimeOf(wallet.createdAt, h) <= TimeOf(wallet.updatedAt, j)
          /\ TimeOf(wallet.updatedAt, j) <= now
    BY <1>1 DEF IInv, InOrder
  <2>2. TimeOf(stamp'[i], i) = now
    BY <1>4, ClockType DEF IInv, Types, TimeOf, Clock
  <2>3. \A k \in Instances :
          pc'[k] = "locked" => TimeOf(wallet.updatedAt, j) <= TimeOf(stamp'[k], k)
    BY <1>4, <2>1, <2>2
  <2> QED BY <1>2, <2>1, <2>3 DEF InOrder, TimeOf
<1> QED BY <1>3, <1>6, <1>7, <1>8 DEF IInv

\* The row appears with the instant of the call that opened the wallet.
LEMMA CommitOpenMoves ==
  ASSUME IInv, NEW i \in Instances, CommitOpen(i)
  PROVE  IInv'
<1>4. /\ pc'[i] = "idle"
      /\ \A j \in Instances \ {i} :
           pc'[j] = pc[j] /\ stamp'[j] = stamp[j] /\ view'[j] = view[j]
      /\ pc' \in [Instances -> {"idle", "opening", "locked"}]
      /\ stamp' \in [Instances -> Nat] /\ view' = [j \in Instances |-> view'[j]]
  BY CallEnds DEF CommitOpen, IInv
<1>1. now' \in Nat /\ now' >= now /\ skew' = skew
  BY DEF CommitOpen, IInv, Types
<1>2. CASE wallet' = wallet
  BY <1>1, <1>4, <1>2, QuietStep
<1>3. CASE wallet' # wallet
  <2>1. PICK b \in OpeningBalances : wallet' = NewWallet(b, stamp[i])
    BY <1>3 DEF CommitOpen
  <2>2. wallet = None /\ now' = now + 1 /\ pc[i] = "opening"
    BY <1>3 DEF CommitOpen
  <2>3. stamp[i] \in Nat /\ b \in 0..MaxMoney
    BY Numbers DEF IInv, Types
  <2>4. wallet' \in Rows /\ wallet'.createdAt = stamp[i] /\ wallet'.updatedAt = stamp[i]
    BY <2>1, <2>3 DEF Rows, NewWallet
  <2>5. \A j \in Instances : pc[j] # "locked" /\ pc'[j] # "locked"
    BY <1>1, <1>4, <2>2 DEF IInv, OneLocked
  <2>6. \A j \in Instances : Clock(j)' = Clock(j) + 1 /\ Clock(j) \in Nat
    BY <1>1, <1>4, <2>2, ClockType, Numbers DEF Clock, IInv, Types
  <2>7. Types' /\ OneLocked'
    BY <1>1, <1>4, <2>4, <2>5 DEF IInv, Types, OneLocked
  <2>8. ReadBefore'
    BY <1>1, <1>4, <2>6 DEF IInv, Types, ReadBefore
  <2>9. InOrder'
    <3>1. stamp[i] <= Clock(i) /\ now \in Nat /\ skew[i] \in Nat
      BY <2>2, ClockType DEF IInv, ReadBefore, Types
    <3>2. TimeOf(stamp[i], i) <= now' /\ TimeOf(stamp[i], i) <= TimeOf(stamp[i], i)
      BY <2>2, <2>3, <3>1 DEF TimeOf, Clock
    <3> QED BY <1>1, <2>4, <2>5, <3>2 DEF InOrder, TimeOf
  <2> QED BY <2>7, <2>8, <2>9 DEF IInv
<1> QED BY <1>2, <1>3

\* What a movement writes: the instant is not before the row's.
LEMMA MoveWrites ==
  ASSUME IInv, NEW i \in Instances, CommitMove(i)
  PROVE  /\ wallet # None /\ wallet' \in Rows
         /\ wallet'.createdAt = wallet.createdAt /\ wallet'.updatedAt = stamp[i]
<1>1. PICK amount \in Amounts, direction \in {"CREDIT", "DEBIT"} :
        /\ Affordable(view[i], direction, amount)
        /\ wallet' = Moved(view[i], direction, amount, stamp[i])
  BY DEF CommitMove
<1>2. wallet # None /\ view[i] = wallet /\ wallet \in Rows /\ stamp[i] \in Nat
  BY DEF CommitMove, IInv, OneLocked, Types
<1>3. amount \in 1..MaxMoney /\ MaxMoney \in Nat
  BY Numbers
<1> DEFINE b == IF direction = "CREDIT" THEN wallet.balance + amount
                ELSE wallet.balance - amount
<1>4. b \in 0..MaxMoney
  BY <1>1, <1>2, <1>3 DEF Affordable, Rows
<1> HIDE DEF b
<1>5. wallet' = [wallet EXCEPT !.balance = b, !.version = wallet.version + 1,
                               !.updatedAt = stamp[i]]
  BY <1>1, <1>2 DEF Moved, b
<1>6. wallet.version + 1 \in Nat \ {0}
  BY <1>2 DEF Rows
<1>7. wallet' \in Rows
  BY <1>2, <1>4, <1>5, <1>6 DEF Rows
<1>8. wallet'.createdAt = wallet.createdAt /\ wallet'.updatedAt = stamp[i]
  BY <1>2, <1>5 DEF Rows
<1> QED BY <1>2, <1>7, <1>8

LEMMA CommitMoveMoves ==
  ASSUME IInv, NEW i \in Instances, CommitMove(i)
  PROVE  IInv'
<1>7. /\ pc'[i] = "idle"
      /\ \A j \in Instances \ {i} :
           pc'[j] = pc[j] /\ stamp'[j] = stamp[j] /\ view'[j] = view[j]
      /\ pc' \in [Instances -> {"idle", "opening", "locked"}]
      /\ stamp' \in [Instances -> Nat] /\ view' = [j \in Instances |-> view'[j]]
  BY CallEnds DEF CommitMove, IInv
<1>1. now' = now + 1 /\ now \in Nat /\ skew' = skew
  BY DEF CommitMove, IInv, Types
<1>2. pc[i] = "locked" /\ \A j \in Instances : pc'[j] # "locked"
  BY <1>1, <1>7 DEF CommitMove, IInv, OneLocked
<1>3. \A j \in Instances : Clock(j)' = Clock(j) + 1 /\ Clock(j) \in Nat
  BY <1>1, <1>7, ClockType DEF Clock, IInv, Types
<1>4. Types' /\ OneLocked'
  BY <1>1, <1>7, <1>2, MoveWrites DEF IInv, Types, OneLocked
<1>5. ReadBefore'
  BY <1>1, <1>7, <1>3 DEF IInv, Types, ReadBefore
<1>6. InOrder'
  <2>1. PICK h \in Instances, j \in Instances :
          /\ TimeOf(wallet.createdAt, h) <= TimeOf(wallet.updatedAt, j)
          /\ TimeOf(wallet.updatedAt, j) <= TimeOf(stamp[i], i)
    BY <1>2, MoveWrites DEF IInv, InOrder
  <2>2. /\ stamp[i] <= Clock(i) /\ stamp[i] \in Nat /\ now \in Nat
        /\ skew[i] \in Nat /\ skew[h] \in Nat /\ skew[j] \in Nat
        /\ wallet.createdAt \in Nat /\ wallet.updatedAt \in Nat
    BY <1>2, MoveWrites, ClockType DEF IInv, ReadBefore, Types, Rows
  <2>3. TimeOf(wallet.createdAt, h) <= TimeOf(stamp[i], i) /\ TimeOf(stamp[i], i) <= now'
    BY <1>1, <2>1, <2>2 DEF TimeOf, Clock
  <2> QED BY <1>1, <1>2, <2>3, MoveWrites DEF InOrder, TimeOf
<1> QED BY <1>4, <1>5, <1>6 DEF IInv

LEMMA AbortMoves ==
  ASSUME IInv, NEW i \in Instances, Abort(i)
  PROVE  IInv'
<1>1. UNCHANGED <<now, skew, wallet>> /\ now \in Nat /\ Done(i)
  BY DEF Abort, clocks, IInv, Types
<1>2. /\ pc'[i] = "idle"
      /\ \A j \in Instances \ {i} :
           pc'[j] = pc[j] /\ stamp'[j] = stamp[j] /\ view'[j] = view[j]
      /\ pc' \in [Instances -> {"idle", "opening", "locked"}]
      /\ stamp' \in [Instances -> Nat] /\ view' = [j \in Instances |-> view'[j]]
  BY <1>1, CallEnds DEF IInv
<1> QED BY <1>1, <1>2, QuietStep

\* Time passes, a client or a reconciliation reads, or nothing happens.
LEMMA OtherMoves ==
  ASSUME IInv,
         Tick \/ ReadBalance \/ ReadEntries \/ FirstPage \/ NextPage \/ UNCHANGED vars
  PROVE  IInv'
<1>1. /\ UNCHANGED <<skew, wallet, calls>> /\ now \in Nat
      /\ now' = now + 1 \/ now' = now
  BY DEF Tick, ReadBalance, ReadEntries, FirstPage, NextPage, vars, clocks, IInv, Types
<1>2. pc' = pc /\ stamp' = stamp /\ view' = view
  BY <1>1 DEF calls
<1>3. now' \in Nat /\ now' >= now
  BY <1>1
<1> QED BY <1>1, <1>2, <1>3, QuietStep DEF IInv, Types

LEMMA StepHolds == IInv /\ [Next]_vars => IInv'
BY OpenMoves, CommitOpenMoves, LockMoves, CommitMoveMoves, AbortMoves, OtherMoves DEF Next

-------------------------------------------------------------------------------
\* A step that writes the row: an opening or a movement under the lock.
LEMMA RowWritten ==
  ASSUME IInv, [Next]_vars, wallet' # wallet
  PROVE  \/ wallet = None
         \/ \E i \in Instances : CommitMove(i)
<1>1. CASE \E i \in Instances : Open(i) \/ Lock(i) \/ Abort(i)
  BY <1>1 DEF Open, Lock, Abort
<1>2. CASE \E i \in Instances : CommitOpen(i)
  BY <1>2 DEF CommitOpen
<1>3. CASE Tick \/ ReadBalance \/ ReadEntries \/ FirstPage \/ NextPage \/ UNCHANGED vars
  BY <1>3 DEF Tick, ReadBalance, ReadEntries, FirstPage, NextPage, vars
<1> QED BY <1>1, <1>2, <1>3 DEF Next

\* Whatever the number of instances and entries, however their clocks differ and
\* calls overlap or fail: a wallet row's updatedAt goes back, and lies behind its
\* createdAt, by no more than clocks are apart (SaveBalance, RehydrateWallet).
THEOREM ChronologicalHolds == Spec => Chronological
<1> DEFINE Good == wallet' # None =>
                     /\ NotBehind(wallet'.updatedAt, wallet'.createdAt)
                     /\ wallet # None => NotBehind(wallet'.updatedAt, wallet.updatedAt)
<1>1. ASSUME IInv, [Next]_vars, wallet' # None
      PROVE  /\ NotBehind(wallet'.updatedAt, wallet'.createdAt)
             /\ wallet # None => NotBehind(wallet'.updatedAt, wallet.updatedAt)
  <2>1. IInv' /\ skew' = skew /\ \A i \in Instances : skew[i] \in Nat
    <3>1. skew' = skew
      BY <1>1 DEF Next, vars, clocks, Open, CommitOpen, Lock, CommitMove, Abort, Tick,
                  ReadBalance, ReadEntries, FirstPage, NextPage
    <3> QED BY <1>1, <3>1, StepHolds, ClockType DEF IInv
  <2>2. wallet'.createdAt \in Nat /\ wallet'.updatedAt \in Nat
    BY <1>1, <2>1 DEF IInv, Types, Rows
  <2>3. PICK i \in Instances, j \in Instances :
          TimeOf(wallet'.createdAt, i) <= TimeOf(wallet'.updatedAt, j)
    BY <1>1, <2>1 DEF IInv, InOrder, TimeOf
  <2>4. wallet'.createdAt - wallet'.updatedAt <= skew[i] - skew[j]
    BY <2>1, <2>2, <2>3 DEF TimeOf
  <2>5. NotBehind(wallet'.updatedAt, wallet'.createdAt)
    BY <2>4 DEF NotBehind
  <2>6. ASSUME wallet # None PROVE NotBehind(wallet'.updatedAt, wallet.updatedAt)
    <3>1. CASE wallet' = wallet
      <4>1. wallet.updatedAt - wallet.updatedAt <= skew[i] - skew[i]
        BY <2>1, <2>2, <3>1
      <4> QED BY <3>1, <4>1 DEF NotBehind
    <3>2. CASE wallet' # wallet
      <4>1. PICK k \in Instances : CommitMove(k)
        BY <1>1, <2>6, <3>2, RowWritten
      <4>2. PICK h \in Instances : TimeOf(wallet.updatedAt, h) <= TimeOf(stamp[k], k)
        BY <1>1, <2>6, <4>1 DEF IInv, InOrder, CommitMove
      <4>3. wallet'.updatedAt = stamp[k] /\ wallet.updatedAt \in Nat
        BY <1>1, <2>6, <4>1, MoveWrites DEF IInv, Types, Rows
      <4>4. wallet.updatedAt - wallet'.updatedAt <= skew[h] - skew[k]
        BY <2>1, <2>2, <4>2, <4>3 DEF TimeOf
      <4> QED BY <4>4 DEF NotBehind
    <3> QED BY <3>1, <3>2
  <2> QED BY <2>5, <2>6
<1>2. IInv /\ [Next]_vars => [Good]_vars
  BY <1>1
<1> QED BY <1>2, InitHolds, StepHolds, PTL DEF Spec, Chronological

-------------------------------------------------------------------------------
(* The sum of a ledger.                                                    *)

\* What an entry adds to the sum of those before it.
Added(sum, e) == IF e.direction = "CREDIT" THEN sum + e.amount ELSE sum - e.amount

\* FoldLeft is the value at all positions of a function on sets of positions.
Folds(s, f) ==
  f = [x \in SUBSET (DOMAIN s) |->
         IF x = {} THEN 0 ELSE Added(f[x \ {Max(x)}], s[Max(x)])]

LEMMA CalculatedIsFold ==
  ASSUME NEW s
  PROVE  Calculated(s) = (CHOOSE f : Folds(s, f))[DOMAIN s]
BY DEF Calculated, FoldLeft, MapThenFoldSet, Folds, Added

LEMMA Greatest ==
  ASSUME NEW n \in Nat, NEW x \in SUBSET (1..n), x # {}
  PROVE  Max(x) \in x /\ \A y \in x : y <= Max(x)
<1> DEFINE T == {n - y : y \in x}
<1>1. PICK d \in T : \A k \in T : d <= k
  <2>1. PICK y \in x : TRUE
    OBVIOUS
  <2>2. n - y \in T /\ T \subseteq Nat
    BY <2>1
  <2> HIDE DEF T
  <2> QED
    BY <2>2, LeastElement
<1>2. PICK m \in x : d = n - m
  OBVIOUS
<1>3. \A y \in x : m >= y
  <2> SUFFICES ASSUME NEW y \in x PROVE m >= y
    OBVIOUS
  <2>1. n - m <= n - y
    BY <1>1, <1>2
  <2> QED
    BY <2>1
<1>4. Max(x) \in x /\ \A y \in x : Max(x) >= y
  BY <1>3 DEF Max
<1> QED
  BY <1>4

LEMMA AddedType ==
  ASSUME NEW sum \in Int, NEW e \in Entries
  PROVE  Added(sum, e) \in Int
BY Numbers DEF Added, Entries

\* Two entries are added in either order.
LEMMA AddedSwap ==
  ASSUME NEW sum \in Int, NEW a \in Entries, NEW b \in Entries
  PROVE  Added(Added(sum, a), b) = Added(Added(sum, b), a)
<1>1. a.amount \in Int /\ b.amount \in Int
  BY DEF Entries
<1>2. CASE a.direction = "CREDIT"
  BY <1>1, <1>2 DEF Added
<1>3. CASE a.direction # "CREDIT"
  BY <1>1, <1>3 DEF Added
<1> QED
  BY <1>2, <1>3

LEMMA FoldExists ==
  ASSUME NEW s \in Seq(Entries)
  PROVE  \E f \in [SUBSET (DOMAIN s) -> Int] : Folds(s, f)
<1> DEFINE Def(k, f) == [x \in SUBSET (1..k) |->
                           IF x = {} THEN 0 ELSE Added(f[x \ {Max(x)}], s[Max(x)])]
<1> DEFINE Upto(k) == \E f \in [SUBSET (1..k) -> Int] : f = Def(k, f)
<1> DEFINE T == {k \in Nat : k <= Len(s) => Upto(k)}
<1>1. 0 \in T
  <2> DEFINE f == [x \in SUBSET (1..0) |-> 0]
  <2>1. f \in [SUBSET (1..0) -> Int] /\ f = Def(0, f)
    OBVIOUS
  <2> QED
    BY <2>1
<1>2. ASSUME NEW k \in T PROVE k + 1 \in T
  <2> HIDE DEF Upto
  <2> SUFFICES ASSUME k + 1 <= Len(s) PROVE Upto(k + 1)
    OBVIOUS
  <2>1. k \in Nat /\ k <= Len(s) /\ k + 1 \in 1..Len(s)
    OBVIOUS
  <2>2. s[k + 1] \in Entries /\ \A j \in 1..(k + 1) : s[j] \in Entries
    BY <2>1
  <2>3. PICK f \in [SUBSET (1..k) -> Int] : f = Def(k, f)
    BY <2>1 DEF Upto
  <2> DEFINE g == [x \in SUBSET (1..(k + 1)) |->
                     IF k + 1 \in x THEN Added(f[x \ {k + 1}], s[k + 1]) ELSE f[x]]
  <2>4. g \in [SUBSET (1..(k + 1)) -> Int]
    <3> SUFFICES ASSUME NEW x \in SUBSET (1..(k + 1))
                 PROVE  (IF k + 1 \in x THEN Added(f[x \ {k + 1}], s[k + 1]) ELSE f[x]) \in Int
      OBVIOUS
    <3>1. x \ {k + 1} \in SUBSET (1..k)
      BY <2>1
    <3>2. k + 1 \notin x => x \in SUBSET (1..k)
      BY <3>1
    <3> QED
      BY <2>2, <3>1, <3>2, AddedType
  <2>5. ASSUME NEW x \in SUBSET (1..(k + 1)) PROVE g[x] = Def(k + 1, g)[x]
    <3>1. CASE x = {}
      <4>1. x \in SUBSET (1..k) /\ k + 1 \notin x
        BY <3>1
      <4>2. f[x] = 0
        BY <2>3, <3>1, <4>1
      <4> QED
        BY <3>1, <4>1, <4>2
    <3>2. CASE x # {}
      <4>1. Max(x) \in x /\ \A y \in x : y <= Max(x)
        <5>1. k + 1 \in Nat
          BY <2>1
        <5> HIDE DEF g
        <5> QED
          BY <3>2, <5>1, Greatest
      <4>2. Def(k + 1, g)[x] = Added(g[x \ {Max(x)}], s[Max(x)])
        <5> HIDE DEF g
        <5> QED
          BY <3>2
      <4>3. CASE k + 1 \in x
        <5>1. Max(x) = k + 1
          <6>1. k + 1 <= Max(x) /\ Max(x) \in 1..(k + 1)
            BY <4>1, <4>3
          <6> QED
            BY <2>1, <6>1
        <5>2. x \ {k + 1} \in SUBSET (1..(k + 1)) /\ k + 1 \notin x \ {k + 1}
          OBVIOUS
        <5>3. g[x \ {k + 1}] = f[x \ {k + 1}]
          BY <5>2
        <5>4. g[x] = Added(f[x \ {k + 1}], s[k + 1])
          BY <4>3
        <5> HIDE DEF g
        <5> QED
          BY <4>2, <5>1, <5>3, <5>4
      <4>4. CASE k + 1 \notin x
        <5>1. x \in SUBSET (1..k)
          BY <2>1, <4>4
        <5>2. x \ {Max(x)} \in SUBSET (1..k) /\ x \ {Max(x)} \in SUBSET (1..(k + 1))
              /\ k + 1 \notin x \ {Max(x)}
          BY <2>1, <4>4, <5>1
        <5>3. g[x \ {Max(x)}] = f[x \ {Max(x)}]
          BY <5>2
        <5>4. g[x] = f[x]
          BY <4>4
        <5>5. f[x] = Def(k, f)[x]
          BY <2>3
        <5>6. Def(k, f)[x] = Added(f[x \ {Max(x)}], s[Max(x)])
          BY <3>2, <5>1
        <5> HIDE DEF g
        <5> QED
          BY <4>2, <5>3, <5>4, <5>5, <5>6
      <4> QED
        BY <4>3, <4>4
    <3> QED
      BY <3>1, <3>2
  <2>6. g = Def(k + 1, g)
    <3>1. g = [x \in SUBSET (1..(k + 1)) |-> g[x]]
      OBVIOUS
    <3>2. \A x \in SUBSET (1..(k + 1)) :
            g[x] = IF x = {} THEN 0 ELSE Added(g[x \ {Max(x)}], s[Max(x)])
      BY <2>5
    <3> HIDE DEF g
    <3> QED
      BY <3>1, <3>2
  <2> QED
    BY <2>4, <2>6 DEF Upto
<1>3. T = Nat
  <2>1. T \subseteq Nat
    OBVIOUS
  <2> HIDE DEF T
  <2> QED
    BY <1>1, <1>2, <2>1, Induction
<1>4. Len(s) \in Nat /\ DOMAIN s = 1..Len(s)
  OBVIOUS
<1>5. Upto(Len(s))
  <2> HIDE DEF Upto
  <2>1. Len(s) \in T
    BY <1>3, <1>4
  <2> QED
    BY <1>4, <2>1
<1> QED
  BY <1>4, <1>5 DEF Folds

\* The value for a prefix comes from that for the next shorter one.
LEMMA FoldValues ==
  ASSUME NEW s \in Seq(Entries), NEW f, Folds(s, f)
  PROVE  /\ f[{}] = 0
         /\ \A k \in 1..Len(s) : f[1..k] = Added(f[1..(k - 1)], s[k])
<1>1. DOMAIN s = 1..Len(s) /\ Len(s) \in Nat
  OBVIOUS
<1>2. \A x \in SUBSET (1..Len(s)) :
        f[x] = IF x = {} THEN 0 ELSE Added(f[x \ {Max(x)}], s[Max(x)])
  BY <1>1 DEF Folds
<1>3. f[{}] = 0
  BY <1>2
<1>4. ASSUME NEW k \in 1..Len(s) PROVE f[1..k] = Added(f[1..(k - 1)], s[k])
  <2>1. k \in Nat /\ k >= 1 /\ k <= Len(s)
    BY <1>1
  <2>2. 1..k \in SUBSET (1..Len(s)) /\ 1..k # {}
    <3>1. k \in 1..k
      BY <2>1
    <3>2. \A j \in 1..k : j \in 1..Len(s)
      BY <1>1, <2>1
    <3> QED
      BY <3>1, <3>2
  <2>3. Max(1..k) \in 1..k /\ \A y \in 1..k : y <= Max(1..k)
    BY <1>1, <2>2, Greatest
  <2>4. Max(1..k) = k
    BY <2>1, <2>2, <2>3
  <2>5. (1..k) \ {k} = 1..(k - 1)
    BY <2>1
  <2> QED
    BY <1>2, <2>2, <2>4, <2>5
<1> QED
  BY <1>3, <1>4

LEMMA CalculatedEmpty == Calculated(<<>>) = 0
<1>3. DOMAIN <<>> = {} /\ <<>> \in Seq(Entries)
  OBVIOUS
<1>1. PICK f : Folds(<<>>, f)
  BY <1>3, FoldExists
<1> DEFINE g == CHOOSE f1 : Folds(<<>>, f1)
<1>2. Folds(<<>>, g)
  BY <1>1
<1> HIDE DEF g
<1>4. g[{}] = 0
  BY <1>2, <1>3, FoldValues
<1> QED
  BY <1>3, <1>4, CalculatedIsFold DEF g

\* An entry at the end of the ledger adds its amount, with its sign, to the sum.
LEMMA CalculatedAppend ==
  ASSUME NEW s \in Seq(Entries), NEW e \in Entries
  PROVE  Calculated(Append(s, e)) = Added(Calculated(s), e)
<1> DEFINE t == Append(s, e)
<1>1. /\ t \in Seq(Entries) /\ Len(t) = Len(s) + 1 /\ Len(s) \in Nat
      /\ t[Len(s) + 1] = e /\ \A k \in 1..Len(s) : t[k] = s[k]
      /\ DOMAIN s = 1..Len(s) /\ DOMAIN t = 1..(Len(s) + 1)
  OBVIOUS
<1> HIDE DEF t
<1> DEFINE f == CHOOSE h : Folds(s, h)
           g == CHOOSE h : Folds(t, h)
<1>2. Folds(s, f) /\ Folds(t, g)
  BY <1>1, FoldExists
<1>3. Calculated(s) = f[1..Len(s)] /\ Calculated(t) = g[1..(Len(s) + 1)]
  BY <1>1, CalculatedIsFold
<1> HIDE DEF f, g
<1> DEFINE T == {k \in Nat : k <= Len(s) => f[1..k] = g[1..k]}
<1>4. 0 \in T
  <2>1. f[{}] = 0 /\ g[{}] = 0 /\ 1..0 = {}
    BY <1>1, <1>2, FoldValues
  <2> QED
    BY <2>1
<1>5. ASSUME NEW k \in T PROVE k + 1 \in T
  <2> SUFFICES ASSUME k + 1 <= Len(s) PROVE f[1..(k + 1)] = g[1..(k + 1)]
    OBVIOUS
  <2>1. k + 1 \in 1..Len(s) /\ k + 1 \in 1..Len(t) /\ (k + 1) - 1 = k /\ k <= Len(s)
    BY <1>1
  <2>2. f[1..(k + 1)] = Added(f[1..k], s[k + 1])
    BY <1>2, <2>1, FoldValues
  <2>3. g[1..(k + 1)] = Added(g[1..k], t[k + 1])
    BY <1>1, <1>2, <2>1, FoldValues
  <2>4. f[1..k] = g[1..k] /\ t[k + 1] = s[k + 1]
    BY <1>1, <2>1
  <2> QED
    BY <2>2, <2>3, <2>4
<1>6. T = Nat
  <2>1. T \subseteq Nat
    OBVIOUS
  <2> HIDE DEF T
  <2> QED
    BY <1>4, <1>5, <2>1, Induction
<1>7. f[1..Len(s)] = g[1..Len(s)]
  <2>1. Len(s) \in T
    BY <1>1, <1>6
  <2> QED
    BY <1>1, <2>1
<1>8. g[1..(Len(s) + 1)] = Added(g[1..Len(s)], e)
  <2>1. Len(s) + 1 \in 1..Len(t) /\ (Len(s) + 1) - 1 = Len(s)
    BY <1>1
  <2> QED
    BY <1>1, <1>2, <2>1, FoldValues
<1> QED
  BY <1>3, <1>7, <1>8 DEF t

\* The sum of the first n entries.
Partial(s, n) == Calculated(SubSeq(s, 1, n))

LEMMA PartialSums ==
  ASSUME NEW s \in Seq(Entries)
  PROVE  /\ Partial(s, 0) = 0 /\ Partial(s, Len(s)) = Calculated(s)
         /\ \A k \in 1..Len(s) : Partial(s, k) = Added(Partial(s, k - 1), s[k])
         /\ \A k \in 0..Len(s) : Partial(s, k) \in Int
<1>1. Len(s) \in Nat /\ \A k \in 1..Len(s) : s[k] \in Entries
  OBVIOUS
<1>2. SubSeq(s, 1, 0) = <<>> /\ SubSeq(s, 1, Len(s)) = s
  OBVIOUS
<1>3. ASSUME NEW k \in 1..Len(s) PROVE Partial(s, k) = Added(Partial(s, k - 1), s[k])
  <2>1. /\ SubSeq(s, 1, k - 1) \in Seq(Entries)
        /\ SubSeq(s, 1, k) = Append(SubSeq(s, 1, k - 1), s[k])
    OBVIOUS
  <2> QED
    BY <1>1, <2>1, CalculatedAppend DEF Partial
<1>4. Partial(s, 0) = 0
  BY <1>2, CalculatedEmpty DEF Partial
<1> DEFINE T == {k \in Nat : k <= Len(s) => Partial(s, k) \in Int}
<1>5. 0 \in T
  BY <1>4
<1>6. ASSUME NEW k \in T PROVE k + 1 \in T
  <2> SUFFICES ASSUME k + 1 <= Len(s) PROVE Partial(s, k + 1) \in Int
    OBVIOUS
  <2>1. k + 1 \in 1..Len(s) /\ (k + 1) - 1 = k /\ Partial(s, k) \in Int
    BY <1>1
  <2>2. Partial(s, k + 1) = Added(Partial(s, k), s[k + 1])
    BY <1>3, <2>1
  <2> QED
    BY <1>1, <2>1, <2>2, AddedType
<1>7. T = Nat
  <2>1. T \subseteq Nat
    OBVIOUS
  <2> HIDE DEF T
  <2> QED
    BY <1>5, <1>6, <2>1, Induction
<1>8. \A k \in 0..Len(s) : Partial(s, k) \in Int
  BY <1>1, <1>7
<1> QED
  BY <1>2, <1>3, <1>4, <1>8 DEF Partial

\* s without its entry j.
Without(s, j) == [n \in 1..(Len(s) - 1) |-> IF n < j THEN s[n] ELSE s[n + 1]]

LEMMA WithoutOne ==
  ASSUME NEW s \in Seq(Entries), NEW j \in 1..Len(s)
  PROVE  /\ Without(s, j) \in Seq(Entries) /\ Len(Without(s, j)) = Len(s) - 1
         /\ \A n \in 1..(Len(s) - 1) :
              Without(s, j)[n] = IF n < j THEN s[n] ELSE s[n + 1]
<1>1. Len(s) - 1 \in Nat
  OBVIOUS
<1>2. \A n \in 1..(Len(s) - 1) : (IF n < j THEN s[n] ELSE s[n + 1]) \in Entries
  OBVIOUS
<1>3. Without(s, j) \in [1..(Len(s) - 1) -> Entries]
  BY <1>2 DEF Without
<1> QED
  BY <1>1, <1>3 DEF Without

\* Wherever an entry is in a sequence, it adds its amount to the sum of the others.
LEMMA CalculatedWithout ==
  ASSUME NEW s \in Seq(Entries), NEW j \in 1..Len(s)
  PROVE  Calculated(s) = Added(Calculated(Without(s, j)), s[j])
<1> DEFINE u == Without(s, j)
<1>1. /\ Len(s) \in Nat /\ u \in Seq(Entries) /\ Len(u) = Len(s) - 1 /\ Len(u) \in Nat
      /\ \A n \in 1..(Len(s) - 1) : u[n] = IF n < j THEN s[n] ELSE s[n + 1]
      /\ \A n \in 1..Len(s) : s[n] \in Entries
  <2>1. Len(s) \in Nat /\ Len(s) - 1 \in Nat /\ \A n \in 1..Len(s) : s[n] \in Entries
    OBVIOUS
  <2>2. /\ u \in Seq(Entries) /\ Len(u) = Len(s) - 1
        /\ \A n \in 1..(Len(s) - 1) : u[n] = IF n < j THEN s[n] ELSE s[n + 1]
    BY WithoutOne
  <2> HIDE DEF u
  <2> QED
    BY <2>1, <2>2
<1> HIDE DEF u
<1>2. /\ Partial(s, 0) = 0 /\ Partial(s, Len(s)) = Calculated(s)
      /\ \A k \in 1..Len(s) : Partial(s, k) = Added(Partial(s, k - 1), s[k])
  BY PartialSums
<1>3. /\ Partial(u, 0) = 0 /\ Partial(u, Len(u)) = Calculated(u)
      /\ \A k \in 1..Len(u) : Partial(u, k) = Added(Partial(u, k - 1), u[k])
      /\ \A k \in 0..Len(u) : Partial(u, k) \in Int
  BY <1>1, PartialSums
<1> DEFINE T == {k \in Nat : k <= Len(s) =>
                   IF k < j THEN Partial(s, k) = Partial(u, k)
                   ELSE Partial(s, k) = Added(Partial(u, k - 1), s[j])}
<1>4. 0 \in T
  BY <1>2, <1>3
<1>5. ASSUME NEW k \in T PROVE k + 1 \in T
  <2> SUFFICES ASSUME k + 1 <= Len(s)
               PROVE  IF k + 1 < j THEN Partial(s, k + 1) = Partial(u, k + 1)
                      ELSE Partial(s, k + 1) = Added(Partial(u, k), s[j])
    OBVIOUS
  <2>1. /\ k \in Nat /\ k + 1 \in 1..Len(s) /\ (k + 1) - 1 = k
        /\ IF k < j THEN Partial(s, k) = Partial(u, k)
           ELSE Partial(s, k) = Added(Partial(u, k - 1), s[j])
    BY <1>1
  <2> HIDE DEF T
  <2>2. Partial(s, k + 1) = Added(Partial(s, k), s[k + 1])
    BY <1>2, <2>1
  <2>3. CASE k + 1 < j
    <3>1. k + 1 \in 1..Len(u) /\ u[k + 1] = s[k + 1]
      BY <1>1, <2>1, <2>3
    <3>2. Partial(u, k + 1) = Added(Partial(u, k), u[k + 1])
      BY <1>3, <2>1, <3>1
    <3> QED
      BY <2>1, <2>2, <2>3, <3>1, <3>2
  <2>4. CASE k + 1 = j
    BY <2>1, <2>2, <2>4
  <2>5. CASE k + 1 > j
    <3>1. k \in 1..Len(u) /\ u[k] = s[k + 1] /\ k - 1 \in 0..Len(u) /\ ~(k < j)
      BY <1>1, <2>1, <2>5
    <3>2. Partial(u, k) = Added(Partial(u, k - 1), s[k + 1]) /\ Partial(u, k - 1) \in Int
      BY <1>3, <3>1
    <3>3. Partial(s, k + 1) = Added(Added(Partial(u, k - 1), s[j]), s[k + 1])
      BY <2>1, <2>2, <3>1
    <3>4. s[j] \in Entries /\ s[k + 1] \in Entries
      BY <1>1, <2>1
    <3>5. Added(Added(Partial(u, k - 1), s[j]), s[k + 1])
          = Added(Added(Partial(u, k - 1), s[k + 1]), s[j])
      BY <3>2, <3>4, AddedSwap
    <3> QED
      BY <2>1, <2>5, <3>2, <3>3, <3>5
  <2> QED
    BY <2>1, <2>3, <2>4, <2>5
<1>6. T = Nat
  <2>1. T \subseteq Nat
    OBVIOUS
  <2> HIDE DEF T
  <2> QED
    BY <1>4, <1>5, <2>1, Induction
<1>7. Partial(s, Len(s)) = Added(Partial(u, Len(s) - 1), s[j])
  <2>1. Len(s) \in T
    BY <1>1, <1>6
  <2>2. Len(s) \in Nat /\ j \in 1..Len(s) /\ ~(Len(s) < j)
    BY <1>1
  <2> QED
    BY <2>1, <2>2
<1> QED
  BY <1>1, <1>2, <1>3, <1>7 DEF u

\* The others of a sequence of different entries.
LEMMA WithoutSet ==
  ASSUME NEW s \in Seq(Entries), NEW j \in 1..Len(s), IsInjective(s)
  PROVE  IsInjective(Without(s, j)) /\ ToSet(Without(s, j)) = ToSet(s) \ {s[j]}
<1> DEFINE u == Without(s, j)
           l == Len(s) - 1
           at == [n \in 1..l |-> IF n < j THEN n ELSE n + 1]
<1>1. /\ l \in Nat /\ Len(s) = l + 1 /\ DOMAIN s = 1..(l + 1) /\ DOMAIN u = 1..l
      /\ \A n \in 1..l : u[n] = IF n < j THEN s[n] ELSE s[n + 1]
  BY WithoutOne DEF Without
<1> HIDE DEF u, l
<1>2. \A n \in 1..l : at[n] \in 1..(l + 1) /\ at[n] # j /\ u[n] = s[at[n]]
  BY <1>1
<1>3. \A m, n \in 1..l : at[m] = at[n] => m = n
  BY <1>1
<1>4. \A k \in 1..(l + 1) : k # j => \E n \in 1..l : at[n] = k
  <2> SUFFICES ASSUME NEW k \in 1..(l + 1), k # j PROVE \E n \in 1..l : at[n] = k
    OBVIOUS
  <2>1. CASE k < j
    <3>1. k \in 1..l /\ at[k] = k
      BY <1>1, <2>1
    <3> HIDE DEF at
    <3> QED
      BY <3>1
  <2>2. CASE k > j
    <3>1. k - 1 \in 1..l /\ at[k - 1] = k
      BY <1>1, <2>2
    <3> HIDE DEF at
    <3> QED
      BY <3>1
  <2> QED
    BY <1>1, <2>1, <2>2
<1> HIDE DEF at
<1>5. \A m, n \in 1..(l + 1) : s[m] = s[n] => m = n
  BY <1>1 DEF IsInjective
<1>6. IsInjective(u)
  BY <1>1, <1>2, <1>3, <1>5 DEF IsInjective
<1>7. ToSet(u) \subseteq ToSet(s) \ {s[j]}
  <2> SUFFICES ASSUME NEW n \in 1..l PROVE u[n] \in ToSet(s) /\ u[n] # s[j]
    BY <1>1 DEF ToSet
  <2> QED
    BY <1>1, <1>2, <1>5 DEF ToSet
<1>8. ToSet(s) \ {s[j]} \subseteq ToSet(u)
  <2> SUFFICES ASSUME NEW k \in 1..(l + 1), k # j PROVE s[k] \in ToSet(u)
    BY <1>1 DEF ToSet
  <2>1. PICK n \in 1..l : at[n] = k
    BY <1>4
  <2> QED
    BY <1>1, <1>2, <2>1 DEF ToSet
<1> QED
  BY <1>6, <1>7, <1>8 DEF u

\* The sum does not depend on the order of the entries.
LEMMA CalculatedAnyOrder ==
  ASSUME NEW s \in Seq(Entries), NEW t \in Seq(Entries),
         IsInjective(s), IsInjective(t), ToSet(s) = ToSet(t)
  PROVE  Calculated(s) = Calculated(t)
<1> DEFINE T == {n \in Nat : \A a, b \in Seq(Entries) :
                   /\ Len(a) = n /\ IsInjective(a) /\ IsInjective(b)
                   /\ ToSet(a) = ToSet(b)
                   => Calculated(a) = Calculated(b)}
<1>1. 0 \in T
  <2> SUFFICES ASSUME NEW a \in Seq(Entries), NEW b \in Seq(Entries), Len(a) = 0,
                      ToSet(a) = ToSet(b)
               PROVE  Calculated(a) = Calculated(b)
    OBVIOUS
  <2>1. a = <<>> /\ ToSet(a) = {}
    BY DEF ToSet
  <2>2. Len(b) = 0
    <3> SUFFICES ASSUME Len(b) # 0 PROVE FALSE
      OBVIOUS
    <3>1. b[1] \in ToSet(b)
      BY DEF ToSet
    <3> QED
      BY <2>1, <3>1
  <2>3. b = <<>>
    BY <2>2
  <2> QED
    BY <2>1, <2>3
<1>2. ASSUME NEW n \in T PROVE n + 1 \in T
  <2> SUFFICES ASSUME NEW a \in Seq(Entries), NEW b \in Seq(Entries), Len(a) = n + 1,
                      IsInjective(a), IsInjective(b), ToSet(a) = ToSet(b)
               PROVE  Calculated(a) = Calculated(b)
    OBVIOUS
  <2>1. n \in Nat /\ \A c, d \in Seq(Entries) :
                       /\ Len(c) = n /\ IsInjective(c) /\ IsInjective(d)
                       /\ ToSet(c) = ToSet(d)
                       => Calculated(c) = Calculated(d)
    OBVIOUS
  <2> HIDE DEF T
  <2> DEFINE l == n + 1
  <2>2. l \in 1..Len(a) /\ DOMAIN a = 1..l /\ a[l] \in ToSet(b)
    <3>1. l \in 1..Len(a) /\ DOMAIN a = 1..l
      BY <2>1
    <3>2. a[l] \in ToSet(a)
      BY <3>1 DEF ToSet
    <3> QED
      BY <3>1, <3>2
  <2>3. PICK j \in 1..Len(b) : b[j] = a[l]
    BY <2>2 DEF ToSet
  <2>4. IsInjective(Without(a, l)) /\ ToSet(Without(a, l)) = ToSet(a) \ {a[l]}
        /\ Without(a, l) \in Seq(Entries) /\ Len(Without(a, l)) = n
    <3>1. IsInjective(Without(a, l)) /\ ToSet(Without(a, l)) = ToSet(a) \ {a[l]}
      BY <2>2, WithoutSet
    <3>2. Without(a, l) \in Seq(Entries) /\ Len(Without(a, l)) = Len(a) - 1
      BY <2>2, WithoutOne
    <3>3. Len(a) - 1 = n
      BY <2>1
    <3> QED
      BY <3>1, <3>2, <3>3
  <2>5. IsInjective(Without(b, j)) /\ ToSet(Without(b, j)) = ToSet(b) \ {b[j]}
        /\ Without(b, j) \in Seq(Entries)
    BY <2>3, WithoutSet, WithoutOne
  <2>6. Calculated(Without(a, l)) = Calculated(Without(b, j))
    BY <2>1, <2>3, <2>4, <2>5
  <2>7. Calculated(a) = Added(Calculated(Without(a, l)), a[l])
    BY <2>2, CalculatedWithout
  <2>8. Calculated(b) = Added(Calculated(Without(b, j)), b[j])
    BY <2>3, CalculatedWithout
  <2> QED
    BY <2>3, <2>6, <2>7, <2>8
<1>3. T = Nat
  <2>1. T \subseteq Nat
    OBVIOUS
  <2> HIDE DEF T
  <2> QED
    BY <1>1, <1>2, <2>1, Induction
<1>4. Len(s) \in T
  BY <1>3
<1> QED
  BY <1>4

-------------------------------------------------------------------------------
(* The rows of a page.                                                     *)

\* Two different entries of S come one before the other.
Comparable(S) == \A d, e \in S : d = e \/ Before(d, e) \/ Before(e, d)

\* The first k rows are those of S, each before the next.
Lists(rows, k, S) ==
  /\ rows \in [1..k -> S]
  /\ \A m, n \in 1..k : m < n => Before(rows[m], rows[n])
  /\ \A e \in S : \E n \in 1..k : rows[n] = e

LEMMA BeforeIsStrict ==
  ASSUME NEW d \in Entries, NEW e \in Entries, NEW f \in Entries
  PROVE  /\ ~Before(d, d)
         /\ Before(d, e) /\ Before(e, f) => Before(d, f)
<1>1. Instances \subseteq Nat
  BY HistoryAssumptions
<1>2. /\ d.createdAt \in Nat /\ e.createdAt \in Nat /\ f.createdAt \in Nat
      /\ d.by \in Nat /\ e.by \in Nat /\ f.by \in Nat
  BY <1>1 DEF Entries
<1> QED
  BY <1>2 DEF Before

LEMMA LastOfSet ==
  ASSUME NEW S, S \subseteq Entries, IsFiniteSet(S), S # {}, Comparable(S)
  PROVE  \E g \in S : \A e \in S : e = g \/ Before(e, g)
<1> DEFINE HasLast(X) == \E g \in X : \A e \in X : e = g \/ Before(e, g)
<1> DEFINE T == {n \in Nat : \A X \in SUBSET S :
                   IsFiniteSet(X) /\ Cardinality(X) = n + 1 => HasLast(X)}
<1>1. 0 \in T
  <2> SUFFICES ASSUME NEW X \in SUBSET S, IsFiniteSet(X), Cardinality(X) = 1
               PROVE  HasLast(X)
    OBVIOUS
  <2>1. PICK x : X = {x}
    BY FS_Singleton
  <2> QED
    BY <2>1
<1>2. ASSUME NEW n \in T PROVE n + 1 \in T
  <2> HIDE DEF HasLast
  <2> SUFFICES ASSUME NEW X \in SUBSET S, IsFiniteSet(X), Cardinality(X) = (n + 1) + 1
               PROVE  HasLast(X)
    OBVIOUS
  <2>1. n \in Nat /\ X # {}
    BY FS_EmptySet
  <2>2. PICK x \in X : TRUE
    BY <2>1
  <2> DEFINE Y == X \ {x}
  <2>3. Y \in SUBSET S /\ IsFiniteSet(Y) /\ Cardinality(Y) = n + 1
    BY <2>1, <2>2, FS_RemoveElement
  <2>4. HasLast(Y)
    BY <2>3
  <2>5. PICK g \in Y : \A e \in Y : e = g \/ Before(e, g)
    BY <2>4 DEF HasLast
  <2>6. g # x /\ g \in S /\ x \in S /\ \A e \in X : e = x \/ e \in Y
    OBVIOUS
  <2> HIDE DEF Y
  <2>7. CASE Before(x, g)
    BY <2>5, <2>6, <2>7, g \in X DEF HasLast, Y
  <2>8. CASE Before(g, x)
    <3>1. \A e \in Y : Before(e, x)
      <4> SUFFICES ASSUME NEW e \in Y PROVE Before(e, x)
        OBVIOUS
      <4>1. e \in Entries /\ g \in Entries /\ x \in Entries
        BY <2>3, <2>6
      <4> QED
        BY <2>5, <2>8, <4>1, BeforeIsStrict
    <3> QED
      BY <2>6, <3>1 DEF HasLast
  <2> QED
    BY <2>6, <2>7, <2>8 DEF Comparable
<1>3. T = Nat
  <2>1. T \subseteq Nat
    OBVIOUS
  <2> HIDE DEF T
  <2> QED
    BY <1>1, <1>2, <2>1, Induction
<1>4. Cardinality(S) \in Nat /\ Cardinality(S) # 0
  BY FS_CardinalityType, FS_EmptySet
<1>5. Cardinality(S) - 1 \in T /\ (Cardinality(S) - 1) + 1 = Cardinality(S)
  BY <1>3, <1>4
<1> HIDE DEF HasLast
<1>6. HasLast(S)
  BY <1>5
<1> QED
  BY <1>6 DEF HasLast

\* A finite set of entries that compare has a list.
LEMMA ListExists ==
  ASSUME NEW S, S \subseteq Entries, IsFiniteSet(S), Comparable(S)
  PROVE  \E rows : Lists(rows, Cardinality(S), S)
<1> DEFINE T == {n \in Nat : \A X \in SUBSET S :
                   IsFiniteSet(X) /\ Cardinality(X) = n => \E rows : Lists(rows, n, X)}
<1>1. 0 \in T
  <2> SUFFICES ASSUME NEW X \in SUBSET S, IsFiniteSet(X), Cardinality(X) = 0
               PROVE  \E rows : Lists(rows, 0, X)
    OBVIOUS
  <2>1. X = {}
    BY FS_EmptySet
  <2>2. 1..0 = {} /\ [n \in 1..0 |-> n] \in [1..0 -> X]
    BY <2>1
  <2>3. Lists([n \in 1..0 |-> n], 0, X)
    BY <2>1, <2>2 DEF Lists
  <2> QED
    BY <2>3
<1>2. ASSUME NEW n \in T PROVE n + 1 \in T
  <2> SUFFICES ASSUME NEW X \in SUBSET S, IsFiniteSet(X), Cardinality(X) = n + 1
               PROVE  \E rows : Lists(rows, n + 1, X)
    OBVIOUS
  <2>1. n \in Nat /\ X # {} /\ X \subseteq Entries /\ Comparable(X)
    BY FS_EmptySet DEF Comparable
  <2>2. PICK g \in X : \A e \in X : e = g \/ Before(e, g)
    BY <2>1, LastOfSet
  <2>3. IsFiniteSet(X \ {g}) /\ Cardinality(X \ {g}) = n /\ X \ {g} \in SUBSET S
    <3>1. IsFiniteSet(X \ {g}) /\ Cardinality(X \ {g}) = Cardinality(X) - 1
      BY FS_RemoveElement
    <3> QED
      BY <2>1, <3>1
  <2>4. PICK r : Lists(r, n, X \ {g})
    BY <2>3
  <2> DEFINE q == [j \in 1..(n + 1) |-> IF j = n + 1 THEN g ELSE r[j]]
  <2>5. q[n + 1] = g /\ \A j \in 1..n : q[j] = r[j] /\ r[j] \in X /\ r[j] # g
    BY <2>1, <2>4 DEF Lists
  <2>6. \A j \in 1..(n + 1) : j = n + 1 \/ j \in 1..n
    BY <2>1
  <2>7. q \in [1..(n + 1) -> X]
    BY <2>5, <2>6
  <2> HIDE DEF q
  <2>8. \A m, k \in 1..(n + 1) : m < k => Before(q[m], q[k])
    <3> SUFFICES ASSUME NEW m \in 1..(n + 1), NEW k \in 1..(n + 1), m < k
                 PROVE  Before(q[m], q[k])
      OBVIOUS
    <3>1. m \in 1..n
      BY <2>1
    <3>2. CASE k = n + 1
      BY <2>2, <2>5, <3>1, <3>2
    <3>3. CASE k \in 1..n
      BY <2>4, <2>5, <3>1, <3>3 DEF Lists
    <3> QED
      BY <2>6, <3>2, <3>3
  <2>9. \A e \in X : \E j \in 1..(n + 1) : q[j] = e
    <3> SUFFICES ASSUME NEW e \in X PROVE \E j \in 1..(n + 1) : q[j] = e
      OBVIOUS
    <3>1. CASE e = g
      <4>1. n + 1 \in 1..(n + 1)
        BY <2>1
      <4> QED
        BY <2>5, <3>1, <4>1
    <3>2. CASE e # g
      <4>1. PICK j \in 1..n : r[j] = e
        BY <2>4, <3>2 DEF Lists
      <4>2. j \in 1..(n + 1)
        BY <2>1
      <4> QED
        BY <2>5, <4>1, <4>2
    <3> QED
      BY <3>1, <3>2
  <2> QED
    BY <2>7, <2>8, <2>9 DEF Lists
<1>3. T = Nat
  <2>1. T \subseteq Nat
    OBVIOUS
  <2> HIDE DEF T
  <2> QED
    BY <1>1, <1>2, <2>1, Induction
<1> QED
  BY <1>3, FS_CardinalityType

\* ORDER BY lists them: as many rows as entries, none twice, so all of them.
LEMMA OrderedLists ==
  ASSUME NEW S, S \subseteq Entries, IsFiniteSet(S), Comparable(S)
  PROVE  Lists(Ordered(S), Cardinality(S), S) /\ Cardinality(S) \in Nat
<1> DEFINE c == Cardinality(S)
           q == Ordered(S)
<1>1. c \in Nat
  BY FS_CardinalityType
<1> HIDE DEF c
<1>2. /\ q \in [1..c -> S]
      /\ \A m, n \in DOMAIN q : m < n => Before(q[m], q[n])
  <2>1. PICK rows : Lists(rows, c, S)
    BY ListExists DEF c
  <2>2. /\ rows \in [1..c -> S]
        /\ \A m, n \in DOMAIN rows : m < n => Before(rows[m], rows[n])
    BY <2>1 DEF Lists
  <2> QED
    BY <2>2 DEF Ordered, c
<1> HIDE DEF q
<1>3. IsInjective(q)
  <2> SUFFICES ASSUME NEW m \in 1..c, NEW n \in 1..c, q[m] = q[n], m # n PROVE FALSE
    BY <1>2 DEF IsInjective
  <2>1. q[m] \in Entries /\ q[n] \in Entries
    BY <1>2
  <2>2. m < n \/ n < m
    BY <1>1
  <2>3. Before(q[m], q[n]) \/ Before(q[n], q[m])
    BY <1>2, <2>2
  <2> QED
    BY <2>1, <2>3, BeforeIsStrict
<1>4. Cardinality(1..c) = c
  BY <1>1, FS_Interval
<1>5. q \in Injection(1..c, S)
  BY <1>2, <1>3 DEF Injection
<1>6. q \in Surjection(1..c, S)
  BY <1>4, <1>5, FS_Injection DEF c
<1>7. \A e \in S : \E n \in 1..c : q[n] = e
  BY <1>6 DEF Surjection
<1> QED
  BY <1>1, <1>2, <1>7 DEF Lists, c, q

\* There is one list of a set.
LEMMA OneList ==
  ASSUME NEW S, S \subseteq Entries, NEW k \in Nat, NEW l \in Nat,
         NEW a, Lists(a, k, S), NEW b, Lists(b, l, S), NEW n \in 1..k
  PROVE  n \in 1..l /\ a[n] = b[n]
<1> DEFINE T == {i \in 1..k : ~(i \in 1..l /\ a[i] = b[i])}
<1> SUFFICES ASSUME T # {} PROVE FALSE
  OBVIOUS
<1>1. PICK j \in T : \A i \in T : j <= i
  <2>1. T \subseteq Nat
    OBVIOUS
  <2> HIDE DEF T
  <2> QED
    BY <2>1, LeastElement
<1>2. j \in 1..k /\ ~(j \in 1..l /\ a[j] = b[j])
  OBVIOUS
<1>3. \A i \in 1..k : i < j => i \in 1..l /\ a[i] = b[i]
  <2> SUFFICES ASSUME NEW i \in 1..k, i < j, i \in T PROVE FALSE
    OBVIOUS
  <2>1. j <= i
    BY <1>1
  <2> QED
    BY <1>2, <2>1
<1> HIDE DEF T
<1>4. \A i \in 1..k : a[i] \in Entries
  BY DEF Lists
<1>5. \A i \in 1..l : b[i] \in Entries
  BY DEF Lists
<1>6. PICK m \in 1..l : b[m] = a[j]
  BY <1>2 DEF Lists
<1>7. m >= j
  <2> SUFFICES ASSUME m < j PROVE FALSE
    BY <1>2
  <2>1. m \in 1..k /\ a[m] = b[m]
    BY <1>2, <1>3
  <2>2. Before(a[m], a[j])
    BY <1>2, <2>1 DEF Lists
  <2> QED
    BY <1>2, <1>4, <1>6, <2>1, <2>2, BeforeIsStrict
<1>8. m # j /\ j \in 1..l
  BY <1>2, <1>6, <1>7
<1>9. Before(b[j], a[j])
  BY <1>2, <1>6, <1>7, <1>8 DEF Lists
<1>10. PICK i \in 1..k : a[i] = b[j]
  BY <1>8 DEF Lists
<1>11. i # j
  BY <1>2, <1>8, <1>10
<1>12. CASE i < j
  <2>1. i \in 1..l /\ b[i] = b[j]
    BY <1>3, <1>10, <1>12
  <2>2. Before(b[i], b[j])
    BY <1>8, <1>12, <2>1 DEF Lists
  <2> QED
    BY <1>5, <1>8, <2>1, <2>2, BeforeIsStrict
<1>13. CASE j < i
  <2>1. Before(a[j], b[j])
    BY <1>2, <1>10, <1>13 DEF Lists
  <2> QED
    BY <1>2, <1>4, <1>5, <1>8, <1>9, <2>1, BeforeIsStrict
<1> QED
  BY <1>2, <1>11, <1>12, <1>13

-------------------------------------------------------------------------------
(* The ledger, its audits and the walks over it.                           *)

\* Entries are added to the end, and only to a wallet's ledger.
LedgerTypes ==
  /\ ledger \in Seq(Entries) /\ Len(ledger) <= MaxEntries
  /\ wallet = None => ledger = <<>>

\* The balance is the sum of the entries, and each sum on the way was a balance,
Summed(balance, entries) ==
  /\ entries \in Seq(Entries) /\ balance = Calculated(entries)
  /\ \A n \in 0..Len(entries) : Partial(entries, n) \in 0..MaxMoney

InOwnOrder(entries) ==
  \A m, n \in DOMAIN entries :
    m < n /\ entries[m].by = entries[n].by => entries[m].createdAt < entries[n].createdAt

InOneOrder(entries) ==
  \A m, n \in DOMAIN entries : m < n => entries[m].createdAt < entries[n].createdAt

\* in the rows,
Balanced == wallet # None => Summed(wallet.balance, ledger)

\* and in the snapshot of them.
Audited ==
  /\ audit # None =>
       /\ Summed(audit.balance, audit.entries) /\ InOwnOrder(audit.entries)
       /\ ClocksAgree => InOneOrder(audit.entries)
  /\ Reconciles

\* An instance's clock, and the instant of a call it makes, are past its entries.
Stamped ==
  \A n \in DOMAIN ledger :
    /\ ledger[n].createdAt < Clock(ledger[n].by)
    /\ pc[ledger[n].by] # "idle" => ledger[n].createdAt < stamp[ledger[n].by]

\* So the entries of one instance are in the order of their instants,
OwnOrder == InOwnOrder(ledger)

\* and all of them are in the order of the times at which the clocks showed them.
Made(e) == TimeOf(e.createdAt, e.by)

TrueOrder ==
  /\ \A m, n \in DOMAIN ledger : m < n => Made(ledger[m]) < Made(ledger[n])
  /\ \A n \in DOMAIN ledger, i \in Instances :
       pc[i] = "locked" => Made(ledger[n]) < TimeOf(stamp[i], i)

\* A walk sees entries of the ledger in the order of its pages; what it will
\* still see of those it has known comes after its cursor.
WalkOrder ==
  /\ walk.state \in {"idle", "walking", "ended"} /\ walk.known \in 0..Len(ledger)
  /\ walk.seen \in Seq(Entries) /\ ToSet(walk.seen) \subseteq ToSet(ledger)
  /\ \A m, n \in DOMAIN walk.seen : m < n => Before(walk.seen[m], walk.seen[n])
  /\ walk.state = "walking" => walk.seen # <<>> /\ walk.cursor = Last(walk.seen)
  /\ \A n \in 1..walk.known :
       \/ ledger[n] \in ToSet(walk.seen)
       \/ walk.state = "walking" /\ Before(walk.cursor, ledger[n])

\* In a ledger in the order of its instants it sees the first entries, in their order.
WalkPrefix ==
  InOneOrder(ledger) =>
    \A n \in DOMAIN walk.seen : n \in DOMAIN ledger /\ walk.seen[n] = ledger[n]

Money    == LedgerTypes /\ Balanced /\ Audited
Instants == Stamped /\ OwnOrder /\ TrueOrder
Walks    == WalkOrder /\ WalkPrefix
History  == IInv /\ Money /\ Instants /\ Walks

-------------------------------------------------------------------------------
\* Entries that no clock has put behind others are in the order of their instants.
LEMMA UndisturbedOrder ==
  ASSUME Types, LedgerTypes, TrueOrder, \A d, e \in ToSet(ledger) : ~Disordered(d, e)
  PROVE  InOneOrder(ledger)
<1> SUFFICES ASSUME NEW m \in DOMAIN ledger, NEW n \in DOMAIN ledger, m < n
             PROVE  ledger[m].createdAt < ledger[n].createdAt
  BY DEF InOneOrder
<1> DEFINE d == ledger[m]
           e == ledger[n]
<1>1. /\ d \in Entries /\ e \in Entries /\ ~Disordered(d, e)
      /\ Made(d) < Made(e)
  BY DEF LedgerTypes, TrueOrder, ToSet
<1> HIDE DEF d, e
<1>2. /\ d.createdAt \in Nat /\ e.createdAt \in Nat
      /\ skew[d.by] \in Nat /\ skew[e.by] \in Nat
  BY <1>1, ClockType DEF Entries
<1>3. d.createdAt < e.createdAt
  BY <1>1, <1>2 DEF Disordered, Made, TimeOf
<1> QED
  BY <1>3 DEF d, e

\* Clocks that agree put none behind another.
LEMMA AgreedOrder ==
  ASSUME Types, LedgerTypes, TrueOrder, ClocksAgree
  PROVE  InOneOrder(ledger)
<1>1. \A d, e \in ToSet(ledger) : ~Disordered(d, e)
  <2> SUFFICES ASSUME NEW d \in Entries, NEW e \in Entries, Disordered(d, e) PROVE FALSE
    BY DEF LedgerTypes, ToSet
  <2>1. /\ d.createdAt \in Nat /\ e.createdAt \in Nat
        /\ skew[d.by] = skew[e.by] /\ skew[d.by] \in Nat
    BY ClockType DEF Entries, ClocksAgree
  <2> QED
    BY <2>1 DEF Disordered
<1> QED
  BY <1>1, UndisturbedOrder

-------------------------------------------------------------------------------
\* What a step does to the calls.
LEMMA CallStep ==
  ASSUME IInv, [Next]_vars
  PROVE  /\ skew' = skew /\ now' \in Nat /\ now' >= now
         /\ \A i \in Instances : \/ pc'[i] = "idle"
                                 \/ pc'[i] = pc[i] /\ stamp'[i] = stamp[i]
                                 \/ pc[i] = "idle" /\ stamp'[i] = Clock(i)
<1> DEFINE Goal == /\ skew' = skew /\ now' \in Nat /\ now' >= now
                   /\ \A i \in Instances : \/ pc'[i] = "idle"
                                           \/ pc'[i] = pc[i] /\ stamp'[i] = stamp[i]
                                           \/ pc[i] = "idle" /\ stamp'[i] = Clock(i)
<1>1. ASSUME NEW i \in Instances, Open(i) \/ Lock(i) PROVE Goal
  BY <1>1 DEF Open, Lock, clocks, IInv, Types
<1>2. ASSUME NEW i \in Instances, CommitOpen(i) \/ CommitMove(i) \/ Abort(i) PROVE Goal
  <2>1. skew' = skew /\ now' \in Nat /\ now' >= now /\ Done(i)
    BY <1>2 DEF CommitOpen, CommitMove, Abort, clocks, IInv, Types
  <2>2. \A j \in Instances : pc'[j] = "idle" \/ (pc'[j] = pc[j] /\ stamp'[j] = stamp[j])
    BY <2>1, CallEnds DEF IInv
  <2> QED
    BY <2>1, <2>2
<1>3. CASE Tick \/ ReadBalance \/ ReadEntries \/ FirstPage \/ NextPage \/ UNCHANGED vars
  BY <1>3 DEF Tick, ReadBalance, ReadEntries, FirstPage, NextPage, vars, clocks, calls,
              IInv, Types
<1> QED
  BY <1>1, <1>2, <1>3 DEF Next

\* Only a commit changes the ledger: it adds one entry, of its instance and
\* its instant.
Commits(i, e) ==
  /\ pc[i] # "idle" /\ pc'[i] = "idle" /\ \A j \in Instances \ {i} : pc'[j] = pc[j]
  /\ e.by = i /\ e.createdAt = stamp[i]
  /\ ledger' = Append(ledger, e) /\ Len(ledger) < MaxEntries
  /\ now' = now + 1 /\ wallet' # None
  /\ pc[i] = "locked" \/ wallet = None
  /\ UNCHANGED <<skew, checks, walk>>
  /\ wallet'.balance = Added(Calculated(ledger), e)

LEMMA OpenAdds ==
  ASSUME IInv, Money, NEW i \in Instances, CommitOpen(i)
  PROVE  \/ \E e \in Entries : Commits(i, e)
         \/ UNCHANGED <<wallet, ledger>>
         \/ wallet' # None /\ wallet'.balance = 0 /\ UNCHANGED ledger /\ ledger = <<>>
<1> SUFFICES ASSUME wallet' # wallet \/ ledger' # ledger
             PROVE  \/ \E e \in Entries : Commits(i, e)
                    \/ wallet' # None /\ wallet'.balance = 0 /\ UNCHANGED ledger
                       /\ ledger = <<>>
  OBVIOUS
<1>1. PICK b \in OpeningBalances :
        /\ wallet = None /\ wallet' = NewWallet(b, stamp[i]) /\ now' = now + 1
        /\ ledger' = IF b > 0 THEN <<Entry(i, "CREDIT", b)>> ELSE <<>>
  BY DEF CommitOpen
<1>2. b \in 0..MaxMoney /\ MaxMoney \in Nat /\ stamp[i] \in Nat /\ ledger = <<>>
  BY <1>1, Numbers DEF IInv, Types, Money, LedgerTypes
<1>3. wallet' \in Rows /\ wallet' # None /\ wallet'.balance = b
  BY <1>1, <1>2, HistoryAssumptions DEF Rows, NewWallet
<1>4. CASE b = 0
  BY <1>1, <1>2, <1>3, <1>4
<1>5. CASE b # 0
  <2> DEFINE e == Entry(i, "CREDIT", b)
  <2>1. e \in Entries /\ e.by = i /\ e.createdAt = stamp[i]
    BY <1>2, <1>5 DEF Entries, Entry
  <2>2. ledger' = Append(ledger, e) /\ Len(ledger) < MaxEntries
    BY <1>1, <1>2, <1>5, HistoryAssumptions
  <2>3. Added(Calculated(ledger), e) = b
    BY <1>2, CalculatedEmpty DEF Added, Entry
  <2>4. /\ pc[i] # "idle" /\ pc'[i] = "idle" /\ \A j \in Instances \ {i} : pc'[j] = pc[j]
        /\ UNCHANGED <<skew, checks, walk>>
    BY CallEnds DEF CommitOpen, IInv
  <2> HIDE DEF e
  <2>5. Commits(i, e)
    BY <1>1, <1>3, <2>1, <2>2, <2>3, <2>4 DEF Commits
  <2> QED
    BY <2>1, <2>5
<1> QED
  BY <1>4, <1>5

LEMMA MoveAdds ==
  ASSUME IInv, Money, NEW i \in Instances, CommitMove(i)
  PROVE  \E e \in Entries : Commits(i, e)
<1>1. PICK amount \in Amounts, direction \in {"CREDIT", "DEBIT"} :
        /\ ledger' = Append(ledger, Entry(i, direction, amount))
        /\ wallet' = Moved(view[i], direction, amount, stamp[i])
  BY DEF CommitMove
<1> DEFINE e == Entry(i, direction, amount)
<1>2. /\ wallet # None /\ view[i] = wallet /\ wallet \in Rows
      /\ stamp[i] \in Nat /\ amount \in 1..MaxMoney
  BY HistoryAssumptions DEF CommitMove, IInv, OneLocked, Types
<1>3. e \in Entries /\ e.by = i /\ e.createdAt = stamp[i]
  BY <1>2 DEF Entries, Entry
<1>4. wallet.balance = Calculated(ledger)
  BY <1>2 DEF Money, Balanced, Summed
<1>5. wallet'.balance = Added(wallet.balance, e)
  BY <1>1, <1>2 DEF Moved, Rows, Added, Entry
<1>6. wallet' # None
  BY MoveWrites, HistoryAssumptions
<1>7. /\ pc[i] = "locked" /\ pc'[i] = "idle" /\ now' = now + 1 /\ Len(ledger) < MaxEntries
      /\ \A j \in Instances \ {i} : pc'[j] = pc[j]
      /\ UNCHANGED <<skew, checks, walk>>
  BY CallEnds DEF CommitMove, IInv
<1> HIDE DEF e
<1>8. Commits(i, e)
  BY <1>1, <1>3, <1>4, <1>5, <1>6, <1>7 DEF Commits, e
<1> QED
  BY <1>3, <1>8

\* Any other step leaves the wallet and its ledger alone.
LEMMA LedgerStep ==
  ASSUME IInv, Money, [Next]_vars
  PROVE  \/ \E i \in Instances, e \in Entries : Commits(i, e)
         \/ UNCHANGED <<wallet, ledger>>
         \/ /\ \E i \in Instances : CommitOpen(i)
            /\ wallet' # None /\ wallet'.balance = 0 /\ UNCHANGED ledger /\ ledger = <<>>
<1>1. CASE \E i \in Instances : Open(i) \/ Lock(i) \/ Abort(i)
  BY <1>1 DEF Open, Lock, Abort
<1>2. CASE \E i \in Instances : CommitOpen(i)
  BY <1>2, OpenAdds
<1>3. CASE \E i \in Instances : CommitMove(i)
  BY <1>3, MoveAdds
<1>4. CASE Tick \/ ReadBalance \/ ReadEntries \/ FirstPage \/ NextPage \/ UNCHANGED vars
  BY <1>4 DEF Tick, ReadBalance, ReadEntries, FirstPage, NextPage, vars
<1> QED
  BY <1>1, <1>2, <1>3, <1>4 DEF Next

\* A movement adds its balance to those that were.
LEMMA SummedAppend ==
  ASSUME NEW balance, NEW s, Summed(balance, s), NEW e \in Entries,
         Added(balance, e) \in 0..MaxMoney
  PROVE  Summed(Added(balance, e), Append(s, e))
<1> DEFINE t == Append(s, e)
<1>1. /\ s \in Seq(Entries) /\ Len(s) \in Nat /\ t \in Seq(Entries) /\ Len(t) = Len(s) + 1
      /\ \A n \in 0..Len(s) : SubSeq(t, 1, n) = SubSeq(s, 1, n)
  BY DEF Summed
<1>2. Calculated(t) = Added(balance, e)
  BY <1>1, CalculatedAppend DEF Summed
<1> HIDE DEF t
<1>3. Partial(t, Len(s) + 1) = Added(balance, e)
  BY <1>1, <1>2, PartialSums
<1>4. \A n \in 0..Len(s) : Partial(t, n) = Partial(s, n)
  BY <1>1 DEF Partial
<1>5. ASSUME NEW n \in 0..Len(t) PROVE Partial(t, n) \in 0..MaxMoney
  <2>1. n \in 0..Len(s) \/ n = Len(s) + 1
    BY <1>1
  <2> QED
    BY <1>3, <1>4, <2>1 DEF Summed
<1> QED
  BY <1>1, <1>2, <1>5 DEF Summed, t

LEMMA SummedEmpty == Summed(0, <<>>)
<1>1. <<>> \in Seq(Entries) /\ Len(<<>>) = 0
  OBVIOUS
<1>2. Partial(<<>>, 0) = 0
  BY <1>1, PartialSums
<1> QED
  BY <1>1, <1>2, CalculatedEmpty, Numbers DEF Summed

\* Entries of which those of one instance are in order can be put into one.
LEMMA EntriesCompare ==
  ASSUME NEW s \in Seq(Entries), InOwnOrder(s)
  PROVE  Comparable(ToSet(s)) /\ IsFiniteSet(ToSet(s)) /\ ToSet(s) \subseteq Entries
<1>1. s \in [1..Len(s) -> Entries] /\ Len(s) \in Nat
  OBVIOUS
<1>2. ToSet(s) \subseteq Entries
  BY <1>1 DEF ToSet
<1>3. IsFiniteSet(ToSet(s))
  <2>1. s \in Surjection(1..Len(s), ToSet(s))
    BY <1>1 DEF Surjection, ToSet
  <2>2. IsFiniteSet(1..Len(s))
    BY <1>1, FS_Interval
  <2> QED
    BY <2>1, <2>2, FS_Surjection
<1>4. Comparable(ToSet(s))
  <2> SUFFICES ASSUME NEW m \in DOMAIN s, NEW n \in DOMAIN s, m < n
               PROVE  Before(s[m], s[n]) \/ Before(s[n], s[m])
    BY <1>1 DEF Comparable, ToSet
  <2>1. s[m] \in Entries /\ s[n] \in Entries
    BY <1>1
  <2>2. /\ s[m].by \in Nat /\ s[n].by \in Nat
        /\ s[m].createdAt \in Nat /\ s[n].createdAt \in Nat
    BY <2>1, Numbers DEF Entries
  <2>3. s[m].by = s[n].by => s[m].createdAt < s[n].createdAt
    BY DEF InOwnOrder
  <2> QED
    BY <2>2, <2>3 DEF Before
<1> QED
  BY <1>2, <1>3, <1>4

\* ORDER BY puts the entries of a snapshot into a sequence with the same sum; if the
\* clocks agree, into the one they are in.
LEMMA OrderedSum ==
  ASSUME NEW s \in Seq(Entries), InOwnOrder(s)
  PROVE  /\ Ordered(ToSet(s)) \in Seq(Entries)
         /\ Calculated(Ordered(ToSet(s))) = Calculated(s)
         /\ InOneOrder(s) => Ordered(ToSet(s)) = s
<1> DEFINE S == ToSet(s)
           q == Ordered(S)
           k == Cardinality(S)
<1>1. Comparable(S) /\ IsFiniteSet(S) /\ S \subseteq Entries
  BY EntriesCompare
<1>2. Lists(q, k, S) /\ k \in Nat
  BY <1>1, OrderedLists
<1>3. DOMAIN s = 1..Len(s) /\ Len(s) \in Nat /\ \A n \in 1..Len(s) : s[n] \in Entries /\ s[n] \in S
  BY DEF ToSet
<1> HIDE DEF q, k
<1>4. q \in Seq(Entries) /\ q \in [1..k -> S] /\ Len(q) = k
  BY <1>1, <1>2 DEF Lists
<1>5. ToSet(q) = ToSet(s)
  <2>1. \A e \in S : \E n \in 1..k : q[n] = e
    BY <1>2 DEF Lists
  <2> QED
    BY <1>4, <2>1 DEF ToSet
<1>6. IsInjective(q)
  <2> SUFFICES ASSUME NEW m \in 1..k, NEW n \in 1..k, m < n, q[m] = q[n] PROVE FALSE
    BY <1>2, <1>4 DEF IsInjective
  <2>1. Before(q[m], q[m]) /\ q[m] \in Entries
    BY <1>1, <1>2, <1>4 DEF Lists
  <2> QED
    BY <2>1, BeforeIsStrict
<1>7. IsInjective(s)
  <2> SUFFICES ASSUME NEW m \in 1..Len(s), NEW n \in 1..Len(s), m < n, s[m] = s[n] PROVE FALSE
    BY <1>3 DEF IsInjective
  <2>1. s[m].createdAt < s[m].createdAt /\ s[m].createdAt \in Nat
    BY <1>3 DEF InOwnOrder, Entries
  <2> QED
    BY <2>1
<1>8. Calculated(q) = Calculated(s)
  BY <1>4, <1>5, <1>6, <1>7, CalculatedAnyOrder
<1>9. ASSUME InOneOrder(s) PROVE q = s
  <2>1. Lists(s, Len(s), S)
    <3>1. \A m, n \in 1..Len(s) : m < n => Before(s[m], s[n])
      BY <1>3, <1>9 DEF InOneOrder, Before
    <3>2. \A e \in S : \E n \in 1..Len(s) : s[n] = e
      BY <1>3 DEF ToSet
    <3>3. s \in [1..Len(s) -> S]
      BY <1>3
    <3> QED
      BY <3>1, <3>2, <3>3 DEF Lists
  <2>2. \A n \in 1..k : n \in 1..Len(s) /\ q[n] = s[n]
    BY <1>1, <1>2, <1>3, <2>1, OneList
  <2>3. \A n \in 1..Len(s) : n \in 1..k
    BY <1>1, <1>2, <1>3, <2>1, OneList
  <2>4. Len(s) = k
    <3>1. k \in Nat /\ Len(s) \in Nat
      BY <1>2, <1>3
    <3>2. Len(s) # 0 => Len(s) <= k
      BY <2>3, <3>1
    <3>3. k # 0 => k <= Len(s)
      BY <2>2, <3>1
    <3> QED
      BY <3>1, <3>2, <3>3
  <2> QED
    BY <1>3, <1>4, <2>2, <2>4
<1> QED
  BY <1>4, <1>8, <1>9 DEF q

\* A snapshot's report is no difference, or that a sum does not fit.
LEMMA ReportOf ==
  ASSUME NEW balance, NEW s, Summed(balance, s), InOwnOrder(s)
  PROVE  /\ Report(balance, Ordered(ToSet(s))) \in {0, None}
         /\ InOneOrder(s) => Report(balance, Ordered(ToSet(s))) = 0
<1> DEFINE q == Ordered(ToSet(s))
<1>1. q \in Seq(Entries) /\ Calculated(q) = balance /\ (InOneOrder(s) => q = s)
  BY OrderedSum DEF Summed
<1>2. balance \in 0..MaxMoney /\ MaxMoney \in Nat
  <2>1. s \in Seq(Entries) /\ Len(s) \in 0..Len(s) /\ Partial(s, Len(s)) = balance
    BY PartialSums DEF Summed
  <2> QED
    BY <2>1, Numbers DEF Summed
<1> HIDE DEF q
<1>3. balance - Calculated(q) = 0
  BY <1>1, <1>2
<1>4. ASSUME InOneOrder(s), NEW sum \in Sums(q) \cup {0} PROVE Fits(sum)
  <2>1. sum \in 0..MaxMoney
    BY <1>1, <1>2, <1>4 DEF Sums, Summed, Partial
  <2> QED
    BY <1>2, <2>1 DEF Fits
<1> QED
  BY <1>3, <1>4 DEF Report, q

LEMMA MoneyStep ==
  ASSUME IInv, Money, Instants, [Next]_vars
  PROVE  Money'
<1>1. LedgerTypes' /\ Balanced'
  <2>1. ASSUME NEW i \in Instances, NEW e \in Entries, Commits(i, e)
        PROVE  LedgerTypes' /\ Balanced'
    <3>1. ledger' = Append(ledger, e) /\ ledger \in Seq(Entries) /\ wallet' # None
      BY <2>1 DEF Commits, Money, LedgerTypes
    <3>2. ledger' \in Seq(Entries) /\ Len(ledger') <= MaxEntries
      BY <2>1, <3>1, HistoryAssumptions DEF Commits
    <3>3. Summed(Calculated(ledger), ledger)
      <4>1. CASE wallet # None
        BY <4>1 DEF Money, Balanced, Summed
      <4>2. CASE wallet = None
        BY <4>2, SummedEmpty, CalculatedEmpty DEF Money, LedgerTypes
      <4> QED
        BY <4>1, <4>2
    <3>4. wallet'.balance = Added(Calculated(ledger), e) /\ wallet'.balance \in 0..MaxMoney
      BY <2>1, <3>1, StepHolds DEF Commits, IInv, Types, Rows
    <3>5. Summed(wallet'.balance, ledger')
      BY <3>1, <3>3, <3>4, SummedAppend
    <3> QED
      BY <3>1, <3>2, <3>5 DEF LedgerTypes, Balanced
  <2>2. CASE UNCHANGED <<wallet, ledger>>
    BY <2>2 DEF Money, LedgerTypes, Balanced
  <2>3. CASE wallet' # None /\ wallet'.balance = 0 /\ UNCHANGED ledger /\ ledger = <<>>
    BY <2>3, SummedEmpty DEF Money, LedgerTypes, Balanced
  <2> QED
    BY <2>1, <2>2, <2>3, LedgerStep
<1>2. Audited'
  <2>5. ClocksAgree' <=> ClocksAgree
    BY CallStep DEF ClocksAgree
  <2>1. CASE ReadBalance
    <3>1. Summed(wallet.balance, ledger)
      BY <2>1 DEF ReadBalance, Money, Balanced
    <3>2. /\ audit' = [balance |-> wallet.balance, entries |-> ledger]
          /\ difference' = difference
      BY <2>1 DEF ReadBalance
    <3>3. InOwnOrder(ledger) /\ (ClocksAgree => InOneOrder(ledger))
      BY AgreedOrder DEF IInv, Money, Instants, OwnOrder
    <3> QED
      BY <2>5, <3>1, <3>2, <3>3 DEF Money, Audited, Reconciles
  <2>2. CASE ReadEntries
    <3>1. /\ Summed(audit.balance, audit.entries) /\ InOwnOrder(audit.entries)
          /\ ClocksAgree => InOneOrder(audit.entries)
      BY <2>2 DEF ReadEntries, Money, Audited
    <3>2. audit' = None /\ difference' = Report(audit.balance, Ordered(ToSet(audit.entries)))
      BY <2>2 DEF ReadEntries, EntriesRead
    <3>3. difference' \in {0, None} /\ (ClocksAgree => difference' = 0)
      BY <3>1, <3>2, ReportOf
    <3> QED
      BY <2>5, <3>2, <3>3 DEF Audited, Reconciles
  <2>3. CASE UNCHANGED checks
    BY <2>3, <2>5 DEF checks, Money, Audited, Reconciles
  <2>4. CASE \E i \in Instances :
               Open(i) \/ CommitOpen(i) \/ Lock(i) \/ CommitMove(i) \/ Abort(i)
    BY <2>3, <2>4 DEF Open, CommitOpen, Lock, CommitMove, Abort
  <2>6. CASE Tick \/ FirstPage \/ NextPage \/ UNCHANGED vars
    BY <2>3, <2>6 DEF Tick, FirstPage, NextPage, vars
  <2> QED
    BY <2>1, <2>2, <2>4, <2>6 DEF Next
<1> QED
  BY <1>1, <1>2 DEF Money

LEMMA InstantsStep ==
  ASSUME IInv, Money, Instants, [Next]_vars
  PROVE  Instants'
<1>1. /\ skew' = skew /\ now' \in Nat /\ now' >= now
      /\ \A i \in Instances : \/ pc'[i] = "idle"
                              \/ pc'[i] = pc[i] /\ stamp'[i] = stamp[i]
                              \/ pc[i] = "idle" /\ stamp'[i] = Clock(i)
  BY CallStep
<1>2. \A i \in Instances : /\ Clock(i) \in Nat /\ Clock(i)' \in Nat /\ Clock(i)' >= Clock(i)
                           /\ now' = now + 1 => Clock(i)' = Clock(i) + 1
                           /\ Clock(i)' = now' + skew'[i]
  BY <1>1, ClockType, Numbers DEF IInv, Types, Clock
<1>3. \A n \in DOMAIN ledger : /\ ledger[n] \in Entries /\ ledger[n].by \in Instances
                               /\ ledger[n].createdAt \in Nat
  <2>1. \A n \in DOMAIN ledger : ledger[n] \in Entries
    BY DEF Money, LedgerTypes
  <2> QED
    BY <2>1 DEF Entries
<1>4. \A i \in Instances : skew[i] \in Nat
  BY ClockType DEF IInv
<1>5. \A i \in Instances : stamp[i] \in Nat
  BY DEF IInv, Types
<1>6. CASE UNCHANGED ledger
  <2>1. Stamped'
    <3> SUFFICES ASSUME NEW n \in DOMAIN ledger
                 PROVE  /\ ledger[n].createdAt < now' + skew'[ledger[n].by]
                        /\ pc'[ledger[n].by] # "idle"
                             => ledger[n].createdAt < stamp'[ledger[n].by]
      BY <1>6 DEF Stamped, Clock
    <3>1. PICK i \in Instances : i = ledger[n].by
      BY <1>3
    <3>2. /\ ledger[n].createdAt < Clock(i)
          /\ pc[i] # "idle" => ledger[n].createdAt < stamp[i]
      BY <3>1 DEF Instants, Stamped
    <3>3. /\ ledger[n].createdAt < Clock(i)'
          /\ pc'[i] # "idle" => ledger[n].createdAt < stamp'[i]
      BY <1>1, <1>2, <1>3, <3>2
    <3> QED
      BY <1>2, <3>1, <3>3
  <2>2. OwnOrder'
    BY <1>6 DEF Instants, OwnOrder, InOwnOrder
  <2>3. TrueOrder'
    <3>1. ASSUME NEW n \in DOMAIN ledger, NEW i \in Instances, pc'[i] = "locked"
          PROVE  Made(ledger[n]) < TimeOf(stamp'[i], i)
      <4>1. CASE pc[i] = "locked" /\ stamp'[i] = stamp[i]
        BY <4>1 DEF Instants, TrueOrder
      <4>2. CASE stamp'[i] = Clock(i)
        <5>1. PICK j \in Instances : j = ledger[n].by
          BY <1>3
        <5>2. ledger[n].createdAt < Clock(j)
          BY <5>1 DEF Instants, Stamped
        <5> QED
          BY <1>3, <1>4, <4>2, <5>1, <5>2 DEF Made, TimeOf, Clock, IInv, Types
      <4> QED
        BY <1>1, <3>1, <4>1, <4>2
    <3> QED
      BY <1>1, <1>6, <3>1 DEF Instants, TrueOrder, Made, TimeOf
  <2> QED
    BY <2>1, <2>2, <2>3 DEF Instants
<1>7. ASSUME NEW i \in Instances, NEW e \in Entries, Commits(i, e)
      PROVE  Instants'
  <2>1. /\ ledger \in Seq(Entries) /\ ledger' = Append(ledger, e) /\ pc[i] # "idle"
        /\ pc'[i] = "idle" /\ e.by = i /\ e.createdAt = stamp[i] /\ now' = now + 1
    BY <1>7 DEF Commits, Money, LedgerTypes
  <2>2. /\ DOMAIN ledger' = 1..(Len(ledger) + 1) /\ Len(ledger) \in Nat
        /\ DOMAIN ledger = 1..Len(ledger)
        /\ ledger'[Len(ledger) + 1] = e
        /\ \A n \in 1..Len(ledger) : ledger'[n] = ledger[n]
        /\ \A n \in 1..(Len(ledger) + 1) : n \in 1..Len(ledger) \/ n = Len(ledger) + 1
    BY <2>1
  <2>3. stamp[i] \in Nat /\ stamp[i] <= Clock(i)
    BY <1>5, <2>1 DEF IInv, ReadBefore
  <2>4. Stamped'
    <3> SUFFICES ASSUME NEW n \in 1..(Len(ledger) + 1)
                 PROVE  /\ ledger'[n].createdAt < now' + skew'[ledger'[n].by]
                        /\ pc'[ledger'[n].by] # "idle"
                             => ledger'[n].createdAt < stamp'[ledger'[n].by]
      BY <2>2 DEF Stamped, Clock
    <3>1. CASE n = Len(ledger) + 1
      <4>1. ledger'[n].createdAt = stamp[i] /\ ledger'[n].by = i
        BY <2>1, <2>2, <3>1
      <4>2. stamp[i] < Clock(i)' /\ pc'[i] = "idle"
        BY <1>2, <2>1, <2>3
      <4> QED
        BY <1>2, <4>1, <4>2
    <3>2. CASE n \in 1..Len(ledger)
      <4>1. PICK j \in Instances : j = ledger[n].by
        BY <1>3, <2>2, <3>2
      <4>2. /\ ledger[n].createdAt < Clock(j)
            /\ pc[j] # "idle" => ledger[n].createdAt < stamp[j]
        BY <2>2, <3>2, <4>1 DEF Instants, Stamped
      <4>3. /\ ledger[n].createdAt < Clock(j)'
            /\ pc'[j] # "idle" => ledger[n].createdAt < stamp'[j]
        BY <1>1, <1>2, <1>3, <2>2, <3>2, <4>2
      <4> QED
        BY <1>2, <2>2, <3>2, <4>1, <4>3
    <3> QED
      BY <2>2, <3>1, <3>2
  <2>5. OwnOrder'
    <3> SUFFICES ASSUME NEW m \in 1..(Len(ledger) + 1), NEW n \in 1..(Len(ledger) + 1),
                        m < n, ledger'[m].by = ledger'[n].by
                 PROVE  ledger'[m].createdAt < ledger'[n].createdAt
      BY <2>2 DEF OwnOrder, InOwnOrder
    <3>1. m \in 1..Len(ledger) /\ ledger'[m] = ledger[m]
      BY <2>2
    <3>2. CASE n = Len(ledger) + 1
      <4>1. ledger[m].by = i
        BY <2>1, <2>2, <3>1, <3>2
      <4>2. ledger[m].createdAt < stamp[i]
        BY <2>1, <2>2, <3>1, <4>1 DEF Instants, Stamped
      <4> QED
        BY <2>1, <2>2, <3>1, <3>2, <4>2
    <3>3. CASE n \in 1..Len(ledger)
      BY <2>2, <3>1, <3>3 DEF Instants, OwnOrder, InOwnOrder
    <3> QED
      BY <2>2, <3>2, <3>3
  <2>6. TrueOrder'
    \* A movement is past the entries before it; an opening has none.
    <3>1. \A n \in 1..Len(ledger) : Made(ledger[n]) < TimeOf(stamp[i], i)
      <4>1. CASE pc[i] = "locked"
        BY <2>2, <4>1 DEF Instants, TrueOrder
      <4>2. CASE wallet = None
        <5>1. Len(ledger) = 0
          BY <4>2 DEF Money, LedgerTypes
        <5> QED
          BY <5>1
      <4> QED
        BY <1>7, <4>1, <4>2 DEF Commits
    <3>2. \A j \in Instances : pc'[j] # "locked"
      <4>1. \A j \in Instances \ {i} : pc[j] # "locked"
        BY <1>7 DEF Commits, IInv, OneLocked
      <4> QED
        BY <1>7, <4>1 DEF Commits
    <3>3. ASSUME NEW m \in 1..(Len(ledger) + 1), NEW n \in 1..(Len(ledger) + 1), m < n
          PROVE  Made(ledger'[m]) < Made(ledger'[n])
      <4>1. m \in 1..Len(ledger) /\ ledger'[m] = ledger[m]
        BY <2>2, <3>3
      <4>2. CASE n = Len(ledger) + 1
        <5>1. Made(ledger'[n]) = TimeOf(stamp[i], i)
          BY <2>1, <2>2, <4>2 DEF Made
        <5> QED
          BY <3>1, <4>1, <5>1
      <4>3. CASE n \in 1..Len(ledger)
        BY <2>2, <3>3, <4>1, <4>3 DEF Instants, TrueOrder
      <4> QED
        BY <2>2, <4>2, <4>3
    <3> QED
      BY <1>1, <2>2, <3>2, <3>3 DEF TrueOrder, Made, TimeOf
  <2> QED
    BY <2>4, <2>5, <2>6 DEF Instants
<1> QED
  BY <1>6, <1>7, LedgerStep

-------------------------------------------------------------------------------
\* The entries that a page reads from.
RowsFrom(cursor) == {e \in ToSet(ledger) : Follows(e, cursor)}

LEMMA RowsList ==
  ASSUME LedgerTypes, OwnOrder, NEW cursor
  PROVE  /\ Lists(Ordered(RowsFrom(cursor)), Cardinality(RowsFrom(cursor)), RowsFrom(cursor))
         /\ Cardinality(RowsFrom(cursor)) \in Nat
         /\ RowsFrom(cursor) \subseteq Entries
<1>1. Comparable(ToSet(ledger)) /\ IsFiniteSet(ToSet(ledger)) /\ ToSet(ledger) \subseteq Entries
  BY EntriesCompare DEF LedgerTypes, OwnOrder
<1>2. RowsFrom(cursor) \in SUBSET ToSet(ledger)
  BY DEF RowsFrom
<1>3. /\ Comparable(RowsFrom(cursor)) /\ IsFiniteSet(RowsFrom(cursor))
      /\ RowsFrom(cursor) \subseteq Entries
  BY <1>1, <1>2, FS_Subset DEF Comparable
<1> HIDE DEF RowsFrom
<1> QED
  BY <1>3, OrderedLists

\* A page is the beginning of the list of those rows; without more, all of it.
Turned(seen, known, S, rows, k, c) ==
  /\ Lists(rows, k, S) /\ k \in Nat /\ c \in 0..k
  /\ walk'.known = known
  /\ walk'.seen \in Seq(Entries) /\ Len(walk'.seen) = Len(seen) + c
  /\ \A n \in 1..Len(seen) : walk'.seen[n] = seen[n]
  /\ \A n \in 1..c : walk'.seen[Len(seen) + n] = rows[n]
  /\ \/ walk'.state = "walking" /\ c > 0 /\ walk'.cursor = rows[c]
     \/ walk'.state = "ended" /\ c = k

LEMMA PageTurned ==
  ASSUME LedgerTypes, OwnOrder,
         NEW seen \in Seq(Entries), NEW cursor, NEW known, TurnPage(seen, cursor, known)
  PROVE  \E rows, k, c : Turned(seen, known, RowsFrom(cursor), rows, k, c)
<1> DEFINE S == RowsFrom(cursor)
           k == Cardinality(S)
           all == Ordered(S)
           c == IF k > PageSize THEN PageSize ELSE k
           rows == RowsAfter(cursor)
           more == Len(rows) > PageSize
           items == IF more THEN SubSeq(rows, 1, PageSize) ELSE rows
<1>1. Lists(all, k, S) /\ k \in Nat /\ S \subseteq Entries
  BY RowsList
<1>2. PageSize \in Nat \ {0}
  BY HistoryAssumptions
<1>3. walk' = [state  |-> IF more THEN "walking" ELSE "ended",
               cursor |-> IF more THEN Last(items) ELSE None,
               seen   |-> seen \o items,
               known  |-> known]
  BY DEF TurnPage
<1>4. rows = SubSeq(all, 1, IF Len(all) > PageSize THEN PageSize + 1 ELSE Len(all))
  BY DEF RowsAfter, RowsFrom
<1> HIDE DEF S, k, all, rows
<1>5. all \in Seq(Entries) /\ Len(all) = k
  BY <1>1 DEF Lists
<1>6. /\ rows \in Seq(Entries)
      /\ Len(rows) = IF k > PageSize THEN PageSize + 1 ELSE k
      /\ \A n \in 1..Len(rows) : rows[n] = all[n]
  <2> DEFINE l == IF k > PageSize THEN PageSize + 1 ELSE k
  <2>1. l \in Nat /\ l <= k
    BY <1>1, <1>2
  <2>2. rows = SubSeq(all, 1, l)
    BY <1>4, <1>5
  <2> HIDE DEF l
  <2>3. rows \in Seq(Entries) /\ Len(rows) = l /\ \A n \in 1..l : rows[n] = all[n]
    BY <1>5, <2>1, <2>2
  <2> QED
    BY <2>3 DEF l
<1>7. more <=> k > PageSize
  BY <1>1, <1>2, <1>6
<1>8. /\ items \in Seq(Entries) /\ Len(items) = c /\ c \in 0..k
      /\ \A n \in 1..c : items[n] = all[n]
  <2>1. CASE more
    <3>1. c = PageSize /\ Len(rows) = PageSize + 1 /\ k > PageSize
      BY <1>6, <1>7, <2>1
    <3>2. items = SubSeq(rows, 1, PageSize)
      BY <2>1
    <3> HIDE DEF items, c, more
    <3>3. items \in Seq(Entries) /\ Len(items) = PageSize
          /\ \A n \in 1..PageSize : items[n] = rows[n]
      BY <1>2, <1>6, <3>1, <3>2
    <3> QED
      BY <1>1, <1>2, <1>6, <3>1, <3>3
  <2>2. CASE ~more
    BY <1>1, <1>6, <1>7, <2>2
  <2> QED
    BY <2>1, <2>2
<1>9. more => c = PageSize /\ c > 0 /\ Last(items) = all[c]
  BY <1>2, <1>7, <1>8 DEF Last
<1>10. ~more => c = k
  BY <1>7
<1> HIDE DEF items, c, more
<1>11. Turned(seen, known, S, all, k, c)
  <2>1. /\ seen \o items \in Seq(Entries) /\ Len(seen \o items) = Len(seen) + c
        /\ \A n \in 1..Len(seen) : (seen \o items)[n] = seen[n]
        /\ \A n \in 1..c : (seen \o items)[Len(seen) + n] = items[n]
    BY <1>8
  <2> QED
    BY <1>1, <1>3, <1>8, <1>9, <1>10, <2>1 DEF Turned
<1> QED
  BY <1>11 DEF S

\* A page turned from a walk whose rows so far all come before those it reads.
LEMMA PageOrder ==
  ASSUME LedgerTypes, UNCHANGED ledger, NEW seen \in Seq(Entries), NEW known \in 0..Len(ledger),
         NEW S, S \subseteq ToSet(ledger), NEW rows, NEW k, NEW c,
         Turned(seen, known, S, rows, k, c),
         ToSet(seen) \subseteq ToSet(ledger),
         \A m, n \in DOMAIN seen : m < n => Before(seen[m], seen[n]),
         \A m \in DOMAIN seen : \A e \in S : Before(seen[m], e),
         \A n \in 1..known : ledger[n] \in ToSet(seen) \/ ledger[n] \in S
  PROVE  WalkOrder'
<1> DEFINE new == walk'.seen
           l == Len(seen)
<1>1. /\ l \in Nat /\ k \in Nat /\ c \in Nat /\ c <= k
      /\ new \in Seq(Entries) /\ Len(new) = l + c /\ DOMAIN new = 1..(l + c)
      /\ \A n \in 1..l : new[n] = seen[n]
      /\ \A n \in 1..c : new[l + n] = rows[n]
      /\ DOMAIN seen = 1..l
  BY DEF Turned
<1>2. /\ \A n \in 1..k : rows[n] \in S
      /\ \A m, n \in 1..k : m < n => Before(rows[m], rows[n])
      /\ \A e \in S : \E n \in 1..k : rows[n] = e
  BY DEF Turned, Lists
<1>3. walk'.known = known
  BY DEF Turned
<1>4. \/ walk'.state = "walking" /\ c > 0 /\ walk'.cursor = rows[c]
      \/ walk'.state = "ended" /\ c = k
  BY DEF Turned
<1> HIDE DEF new, l
\* Where a row of the walk comes from.
<1>5. ASSUME NEW n \in 1..(l + c)
      PROVE  \/ n \in 1..l /\ new[n] = seen[n]
             \/ n > l /\ n - l \in 1..c /\ n - l \in 1..k /\ new[n] = rows[n - l]
  <2>1. CASE n <= l
    BY <1>1, <2>1
  <2>2. CASE n > l
    <3>1. n - l \in 1..c /\ n - l \in 1..k /\ l + (n - l) = n
      BY <1>1, <2>2
    <3> QED
      BY <1>1, <2>2, <3>1
  <2> QED
    BY <1>1, <2>1, <2>2
<1>6. ToSet(new) \subseteq ToSet(ledger)
  <2> SUFFICES ASSUME NEW n \in 1..(l + c) PROVE new[n] \in ToSet(ledger)
    BY <1>1 DEF ToSet
  <2>1. n \in 1..l => seen[n] \in ToSet(seen)
    BY <1>1 DEF ToSet
  <2> QED
    BY <1>2, <1>5, <2>1
<1>7. \A m, n \in 1..(l + c) : m < n => Before(new[m], new[n])
  <2> SUFFICES ASSUME NEW m \in 1..(l + c), NEW n \in 1..(l + c), m < n
               PROVE  Before(new[m], new[n])
    OBVIOUS
  <2>1. CASE n \in 1..l
    <3>1. m \in 1..l
      BY <1>1, <2>1
    <3> QED
      BY <1>1, <2>1, <3>1
  <2>2. CASE n > l /\ n - l \in 1..c /\ n - l \in 1..k /\ new[n] = rows[n - l]
    <3>1. CASE m \in 1..l
      BY <1>1, <1>2, <2>2, <3>1
    <3>2. CASE m > l /\ m - l \in 1..k /\ new[m] = rows[m - l]
      <4>1. m - l < n - l
        BY <1>1
      <4> QED
        BY <1>2, <2>2, <3>2, <4>1
    <3> QED
      BY <1>5, <3>1, <3>2
  <2> QED
    BY <1>5, <2>1, <2>2
<1>8. walk'.state = "walking" => new # <<>> /\ walk'.cursor = Last(new)
  <2> SUFFICES ASSUME walk'.state = "walking" PROVE new # <<>> /\ walk'.cursor = Last(new)
    OBVIOUS
  <2>1. c > 0 /\ walk'.cursor = rows[c]
    BY <1>4
  <2>2. c \in 1..c /\ new[l + c] = rows[c] /\ Len(new) # 0
    BY <1>1, <2>1
  <2> QED
    BY <1>1, <2>1, <2>2 DEF Last
<1>9. ASSUME NEW n \in 1..known
      PROVE  \/ ledger[n] \in ToSet(new)
             \/ walk'.state = "walking" /\ Before(walk'.cursor, ledger[n])
  <2>1. CASE ledger[n] \in ToSet(seen)
    <3>1. PICK m \in 1..l : seen[m] = ledger[n]
      BY <1>1, <2>1 DEF ToSet
    <3>2. m \in 1..(l + c) /\ new[m] = ledger[n]
      BY <1>1, <3>1
    <3> QED
      BY <1>1, <3>2 DEF ToSet
  <2>2. CASE ledger[n] \in S
    <3>1. PICK m \in 1..k : rows[m] = ledger[n]
      BY <1>2, <2>2
    <3>2. CASE m <= c
      <4>1. m \in 1..c /\ l + m \in 1..(l + c)
        BY <1>1, <3>2
      <4> QED
        BY <1>1, <3>1, <4>1 DEF ToSet
    <3>3. CASE m > c
      <4>1. walk'.state = "walking" /\ c > 0 /\ walk'.cursor = rows[c]
        BY <1>1, <1>4, <3>3
      <4>2. c \in 1..k
        BY <1>1, <4>1
      <4> QED
        BY <1>2, <3>1, <3>3, <4>1, <4>2
    <3> QED
      BY <1>1, <3>2, <3>3
  <2> QED
    BY <2>1, <2>2
<1>10. walk'.state \in {"idle", "walking", "ended"}
  BY <1>4
<1> QED
  BY <1>1, <1>3, <1>6, <1>7, <1>8, <1>9, <1>10 DEF WalkOrder, new

\* In a ledger in the order of its instants, a walk that has seen the first entries
\* reads on from there.
LEMMA PagePrefix ==
  ASSUME LedgerTypes, InOneOrder(ledger), UNCHANGED ledger,
         NEW seen \in Seq(Entries), NEW known,
         NEW S, NEW rows, NEW k, NEW c, Turned(seen, known, S, rows, k, c),
         Len(seen) <= Len(ledger),
         \A n \in DOMAIN seen : seen[n] = ledger[n],
         S = {ledger[n] : n \in (Len(seen) + 1)..Len(ledger)}
  PROVE  \A n \in DOMAIN walk'.seen : n \in DOMAIN ledger /\ walk'.seen[n] = ledger[n]
<1> DEFINE new == walk'.seen
           l == Len(seen)
           r == Len(ledger) - l
           rest == [n \in 1..r |-> ledger[l + n]]
<1>1. /\ l \in Nat /\ k \in Nat /\ c \in Nat /\ c <= k
      /\ DOMAIN new = 1..(l + c) /\ DOMAIN seen = 1..l
      /\ \A n \in 1..l : new[n] = seen[n]
      /\ \A n \in 1..c : new[l + n] = rows[n]
  BY DEF Turned
<1>2. /\ r \in Nat /\ ledger \in Seq(Entries) /\ Len(ledger) \in Nat
      /\ DOMAIN ledger = 1..Len(ledger) /\ Len(ledger) = l + r /\ l <= Len(ledger)
  BY <1>1 DEF LedgerTypes
<1>3. S = {ledger[n] : n \in (l + 1)..Len(ledger)}
  OBVIOUS
<1> HIDE DEF new, l, r
<1>4. \A n \in 1..r : l + n \in (l + 1)..Len(ledger) /\ l + n \in DOMAIN ledger
  BY <1>1, <1>2
<1>5. S \subseteq Entries
  <2>1. \A n \in (l + 1)..Len(ledger) : ledger[n] \in Entries
    BY <1>1, <1>2
  <2> QED
    BY <1>3, <2>1
<1>6. Lists(rest, r, S)
  <2>1. rest \in [1..r -> S]
    BY <1>3, <1>4
  <2>2. \A m, n \in 1..r : m < n => Before(rest[m], rest[n])
    <3> SUFFICES ASSUME NEW m \in 1..r, NEW n \in 1..r, m < n
                 PROVE  Before(ledger[l + m], ledger[l + n])
      OBVIOUS
    <3>1. l + m < l + n
      BY <1>1, <1>2
    <3>2. ledger[l + m].createdAt < ledger[l + n].createdAt
      BY <1>4, <3>1 DEF InOneOrder
    <3> QED
      BY <3>2 DEF Before
  <2>3. \A e \in S : \E n \in 1..r : rest[n] = e
    <3> SUFFICES ASSUME NEW e \in S PROVE \E m \in 1..r : rest[m] = e
      OBVIOUS
    <3>1. PICK n \in (l + 1)..Len(ledger) : e = ledger[n]
      BY <1>3
    <3>2. n - l \in 1..r /\ l + (n - l) = n
      BY <1>1, <1>2
    <3>3. rest[n - l] = e
      BY <3>1, <3>2
    <3> HIDE DEF rest
    <3> QED
      BY <3>2, <3>3
  <2> QED
    BY <2>1, <2>2, <2>3 DEF Lists
<1> HIDE DEF rest
<1>7. Lists(rows, k, S)
  BY DEF Turned
<1>8. ASSUME NEW n \in 1..k PROVE n \in 1..r /\ rows[n] = rest[n]
  <2>1. k \in Nat /\ r \in Nat
    BY <1>1, <1>2
  <2> QED
    BY <1>5, <1>6, <1>7, <2>1, OneList
<1> SUFFICES ASSUME NEW n \in 1..(l + c) PROVE n \in DOMAIN ledger /\ new[n] = ledger[n]
  BY <1>1 DEF new
<1>9. CASE n <= l
  BY <1>1, <1>2, <1>9
<1>10. CASE n > l
  <2>1. n - l \in 1..c /\ n - l \in 1..k /\ l + (n - l) = n
    BY <1>1, <1>10
  <2>2. new[n] = rows[n - l] /\ n - l \in 1..r /\ rows[n - l] = rest[n - l]
    BY <1>1, <1>8, <2>1
  <2>3. rest[n - l] = ledger[n]
    BY <2>1, <2>2 DEF rest
  <2> QED
    BY <1>4, <2>1, <2>2, <2>3
<1> QED
  BY <1>1, <1>9, <1>10

LEMMA FirstPageWalks ==
  ASSUME Money, Instants, FirstPage
  PROVE  WalkOrder' /\ (InOneOrder(ledger) => WalkPrefix')
<1>1. UNCHANGED ledger /\ TurnPage(<<>>, None, Len(ledger)) /\ Len(ledger) \in 0..Len(ledger)
  BY DEF FirstPage, Money, LedgerTypes
<1>2. <<>> \in Seq(Entries) /\ Len(<<>>) = 0 /\ DOMAIN <<>> = {} /\ ToSet(<<>>) = {}
  BY DEF ToSet
<1>3. PICK rows, k, c : Turned(<<>>, Len(ledger), RowsFrom(None), rows, k, c)
  BY <1>1, <1>2, PageTurned DEF Money, Instants
<1>4. DOMAIN ledger = 1..Len(ledger) /\ RowsFrom(None) = {ledger[n] : n \in 1..Len(ledger)}
  BY DEF RowsFrom, Follows, ToSet, Money, LedgerTypes
<1>5. WalkOrder'
  <2>1. RowsFrom(None) \subseteq ToSet(ledger)
    BY DEF RowsFrom
  <2>2. \A n \in 1..Len(ledger) : ledger[n] \in RowsFrom(None)
    BY <1>4
  <2> QED
    BY <1>1, <1>2, <1>3, <2>1, <2>2, PageOrder DEF Money
<1>6. ASSUME InOneOrder(ledger) PROVE WalkPrefix'
  <2>1. RowsFrom(None) = {ledger[n] : n \in (Len(<<>>) + 1)..Len(ledger)}
    BY <1>2, <1>4
  <2>2. \A n \in DOMAIN walk'.seen : n \in DOMAIN ledger /\ walk'.seen[n] = ledger[n]
    <3>1. Len(<<>>) <= Len(ledger) /\ \A n \in DOMAIN <<>> : <<>>[n] = ledger[n]
      BY <1>2 DEF Money, LedgerTypes
    <3> QED
      BY <1>1, <1>2, <1>3, <1>6, <2>1, <3>1, PagePrefix DEF Money, Instants
  <2> QED
    BY <1>1, <2>2 DEF WalkPrefix
<1> QED
  BY <1>5, <1>6

LEMMA NextPageWalks ==
  ASSUME Money, Instants, Walks, NextPage
  PROVE  WalkOrder' /\ (InOneOrder(ledger) => WalkPrefix')
<1> DEFINE seen == walk.seen
           g == walk.cursor
           l == Len(seen)
<1>1. UNCHANGED ledger /\ TurnPage(seen, g, walk.known) /\ walk.known \in 0..Len(ledger)
  BY DEF NextPage, Walks, WalkOrder
<1>2. /\ seen \in Seq(Entries) /\ ToSet(seen) \subseteq ToSet(ledger)
      /\ \A m, n \in DOMAIN seen : m < n => Before(seen[m], seen[n])
      /\ seen # <<>> /\ g = Last(seen)
      /\ \A n \in 1..walk.known : ledger[n] \in ToSet(seen) \/ Before(g, ledger[n])
  BY DEF NextPage, Walks, WalkOrder
<1> HIDE DEF seen, g, l
<1>3. /\ l \in Nat \ {0} /\ DOMAIN seen = 1..l /\ g = seen[l] /\ g \in Entries
      /\ \A n \in 1..l : seen[n] \in Entries
  BY <1>2 DEF Last, l
<1>4. /\ ledger \in Seq(Entries) /\ Len(ledger) \in Nat /\ DOMAIN ledger = 1..Len(ledger)
      /\ \A n \in 1..Len(ledger) : ledger[n] \in Entries
  BY DEF Money, LedgerTypes
<1>5. RowsFrom(g) = {e \in ToSet(ledger) : Before(g, e)}
  BY <1>3, HistoryAssumptions DEF RowsFrom, Follows
<1>6. PICK rows, k, c : Turned(seen, walk.known, RowsFrom(g), rows, k, c)
  BY <1>1, <1>2, PageTurned DEF Money, Instants
<1>7. WalkOrder'
  <2>1. RowsFrom(g) \subseteq ToSet(ledger)
    BY DEF RowsFrom
  <2>2. \A m \in DOMAIN seen : \A e \in RowsFrom(g) : Before(seen[m], e)
    <3> SUFFICES ASSUME NEW m \in 1..l, NEW e \in RowsFrom(g) PROVE Before(seen[m], e)
      BY <1>3
    <3>1. Before(g, e) /\ e \in Entries
      BY <1>4, <1>5 DEF ToSet
    <3>2. m = l \/ Before(seen[m], g)
      BY <1>2, <1>3
    <3> QED
      BY <1>3, <3>1, <3>2, BeforeIsStrict
  <2>3. \A n \in 1..walk.known : ledger[n] \in ToSet(seen) \/ ledger[n] \in RowsFrom(g)
    <3>1. \A n \in 1..walk.known : ledger[n] \in ToSet(ledger)
      BY <1>1, <1>4 DEF ToSet
    <3> QED
      BY <1>2, <1>5, <3>1
  <2> QED
    BY <1>1, <1>2, <1>6, <2>1, <2>2, <2>3, PageOrder DEF Money
<1>8. ASSUME InOneOrder(ledger) PROVE WalkPrefix'
  <2>1. \A n \in 1..l : n \in 1..Len(ledger) /\ seen[n] = ledger[n]
    BY <1>3, <1>4, <1>8 DEF Walks, WalkPrefix, seen
  <2>2. l <= Len(ledger) /\ g = ledger[l] /\ l \in 1..Len(ledger)
    BY <1>3, <1>4, <2>1
  <2>3. ASSUME NEW n \in 1..Len(ledger) PROVE Before(g, ledger[n]) <=> n > l
    <3>1. CASE n > l
      <4>1. ledger[l].createdAt < ledger[n].createdAt
        BY <1>4, <1>8, <2>2, <3>1 DEF InOneOrder
      <4> QED
        BY <2>2, <3>1, <4>1 DEF Before
    <3>2. CASE n = l
      BY <1>3, <2>2, <3>2, BeforeIsStrict
    <3>3. CASE n < l
      <4>1. ledger[n].createdAt < ledger[l].createdAt
        BY <1>4, <1>8, <2>2, <3>3 DEF InOneOrder
      <4>2. Before(ledger[n], g)
        BY <2>2, <4>1 DEF Before
      <4>3. ~Before(g, ledger[n])
        BY <1>3, <1>4, <4>2, BeforeIsStrict
      <4> QED
        BY <1>3, <3>3, <4>3
    <3> QED
      BY <1>3, <3>1, <3>2, <3>3
  <2>4. RowsFrom(g) = {ledger[n] : n \in (l + 1)..Len(ledger)}
    <3>1. \A n \in 1..Len(ledger) : n > l <=> n \in (l + 1)..Len(ledger)
      BY <1>3, <1>4
    <3>2. \A n \in (l + 1)..Len(ledger) : n \in 1..Len(ledger)
      BY <1>3, <1>4
    <3>3. RowsFrom(g) \subseteq {ledger[n] : n \in (l + 1)..Len(ledger)}
      BY <1>4, <1>5, <2>3, <3>1 DEF ToSet
    <3>4. {ledger[n] : n \in (l + 1)..Len(ledger)} \subseteq RowsFrom(g)
      BY <1>4, <1>5, <2>3, <3>1, <3>2 DEF ToSet
    <3> QED
      BY <3>3, <3>4
  <2>5. \A n \in DOMAIN walk'.seen : n \in DOMAIN ledger /\ walk'.seen[n] = ledger[n]
    <3>1. \A n \in DOMAIN seen : seen[n] = ledger[n]
      BY <1>3, <2>1
    <3> QED
      BY <1>1, <1>2, <1>6, <1>8, <2>2, <2>4, <3>1, PagePrefix DEF Money, Instants, l
  <2> QED
    BY <1>1, <2>5 DEF WalkPrefix
<1> QED
  BY <1>7, <1>8

LEMMA WalksStep ==
  ASSUME IInv, Money, Instants, Walks, [Next]_vars
  PROVE  Walks'
<1>2. CASE FirstPage \/ NextPage
  <2>1. WalkOrder' /\ (InOneOrder(ledger) => WalkPrefix')
    BY <1>2, FirstPageWalks, NextPageWalks
  <2>2. ~InOneOrder(ledger) => WalkPrefix'
    BY <1>2 DEF FirstPage, NextPage, WalkPrefix, InOneOrder
  <2> QED
    BY <2>1, <2>2 DEF Walks
<1>3. CASE UNCHANGED walk
  <2>1. /\ Len(ledger') \in Nat /\ Len(ledger) \in Nat /\ Len(ledger) <= Len(ledger')
        /\ DOMAIN ledger = 1..Len(ledger) /\ DOMAIN ledger' = 1..Len(ledger')
        /\ \A n \in 1..Len(ledger) : ledger'[n] = ledger[n]
    <3>1. ledger \in Seq(Entries)
      BY DEF Money, LedgerTypes
    <3>2. ledger' = ledger \/ \E e \in Entries : ledger' = Append(ledger, e)
      BY LedgerStep DEF Commits
    <3> QED
      BY <3>1, <3>2
  <2>2. ToSet(ledger) \subseteq ToSet(ledger')
    <3> SUFFICES ASSUME NEW n \in 1..Len(ledger) PROVE ledger[n] \in ToSet(ledger')
      BY <2>1 DEF ToSet
    <3>1. n \in 1..Len(ledger') /\ ledger'[n] = ledger[n]
      BY <2>1
    <3> QED
      BY <2>1, <3>1 DEF ToSet
  <2>3. WalkOrder'
    <3>1. \A n \in 1..walk.known : n \in 1..Len(ledger)
      BY <2>1 DEF Walks, WalkOrder
    <3>2. walk.known \in 0..Len(ledger')
      BY <2>1 DEF Walks, WalkOrder
    <3> QED
      BY <1>3, <2>1, <2>2, <3>1, <3>2 DEF Walks, WalkOrder
  <2>4. WalkPrefix'
    <3> SUFFICES ASSUME InOneOrder(ledger'), NEW n \in DOMAIN walk.seen
                 PROVE  n \in DOMAIN ledger' /\ walk.seen[n] = ledger'[n]
      BY <1>3 DEF WalkPrefix, InOneOrder
    <3>1. InOneOrder(ledger)
      BY <2>1 DEF InOneOrder
    <3>2. n \in 1..Len(ledger) /\ walk.seen[n] = ledger[n]
      BY <2>1, <3>1 DEF Walks, WalkPrefix
    <3> QED
      BY <2>1, <3>2
  <2> QED
    BY <2>3, <2>4 DEF Walks
<1>4. CASE \E i \in Instances : Open(i) \/ CommitOpen(i) \/ Lock(i) \/ CommitMove(i) \/ Abort(i)
  BY <1>3, <1>4 DEF Open, CommitOpen, Lock, CommitMove, Abort
<1>5. CASE Tick \/ ReadBalance \/ ReadEntries \/ UNCHANGED vars
  BY <1>3, <1>5 DEF Tick, ReadBalance, ReadEntries, vars
<1> QED
  BY <1>2, <1>4, <1>5 DEF Next

LEMMA HistoryStep == History /\ [Next]_vars => History'
BY StepHolds, MoneyStep, InstantsStep, WalksStep DEF History

LEMMA HistoryInit == Init => History
<1> SUFFICES ASSUME Init PROVE History
  OBVIOUS
<1>1. ledger = <<>> /\ wallet = None /\ audit = None /\ difference = 0
      /\ walk = [state |-> "idle", cursor |-> None, seen |-> <<>>, known |-> 0]
  BY DEF Init
<1>2. <<>> \in Seq(Entries) /\ Len(<<>>) = 0 /\ DOMAIN <<>> = {} /\ ToSet(<<>>) = {}
  BY DEF ToSet
<1>3. Money
  BY <1>1, <1>2, HistoryAssumptions DEF Money, LedgerTypes, Balanced, Audited, Reconciles
<1>4. Instants
  BY <1>1, <1>2 DEF Instants, Stamped, OwnOrder, TrueOrder, InOwnOrder
<1>5. Walks
  BY <1>1, <1>2 DEF Walks, WalkOrder, WalkPrefix
<1> QED
  BY <1>3, <1>4, <1>5, InitHolds DEF History

LEMMA HistoryHolds == Spec => []History
BY HistoryInit, HistoryStep, PTL DEF Spec

\* The variables have their types, and the ledger its bound.
THEOREM TypesHold == Spec => []TypeOK
<1>1. History => TypeOK
  <2> SUFFICES ASSUME History PROVE TypeOK
    OBVIOUS
  <2>1. wallet # None => wallet.balance \in 0..MaxMoney /\ wallet.version \in Nat \ {0}
    BY DEF History, IInv, Types, Rows
  <2>2. walk.state \in {"idle", "walking", "ended"} /\ walk.known \in 0..MaxEntries
    BY HistoryAssumptions DEF History, Walks, WalkOrder, Money, LedgerTypes
  <2> QED
    BY <2>1, <2>2 DEF History, IInv, Types, Money, LedgerTypes, Audited, Reconciles, TypeOK
<1> QED
  BY <1>1, HistoryHolds, PTL

\* Whatever the movements that commit between its two statements, a reconciliation
\* reports no difference: the balance is the sum of the entries in every state that
\* a transaction can see, and it sees one (ReconcileRead, ReconcileWallet).
THEOREM ReconcilesHolds == Spec => []Reconciles
<1>1. History => Reconciles
  BY DEF History, Money, Audited, Reconciles
<1> QED
  BY <1>1, HistoryHolds, PTL

\* For every size of page and however the instances' clocks differ: a walk sees no
\* entry twice, and at its end it has seen all that it found (LedgerPage, ListPage).
THEOREM WalkCompleteHolds == Spec => []WalkComplete
<1>1. History => WalkComplete
  <2> SUFFICES ASSUME History PROVE WalkComplete
    OBVIOUS
  <2>1. /\ walk.seen \in Seq(Entries)
        /\ \A m, n \in DOMAIN walk.seen : m < n => Before(walk.seen[m], walk.seen[n])
    BY DEF History, Walks, WalkOrder
  <2>2. IsInjective(walk.seen)
    <3> SUFFICES ASSUME NEW m \in DOMAIN walk.seen, NEW n \in DOMAIN walk.seen, m < n,
                        walk.seen[m] = walk.seen[n]
                 PROVE  FALSE
      BY <2>1 DEF IsInjective
    <3>1. walk.seen[m] \in Entries /\ Before(walk.seen[m], walk.seen[m])
      BY <2>1
    <3> QED
      BY <3>1, BeforeIsStrict
  <2>3. walk.state = "ended" => \A n \in 1..walk.known : ledger[n] \in ToSet(walk.seen)
    BY DEF History, Walks, WalkOrder
  <2> QED
    BY <2>2, <2>3 DEF WalkComplete
<1> QED
  BY <1>1, HistoryHolds, PTL

\* Unless clocks that differ have put an entry behind a later one, what a walk has
\* seen is the beginning of the ledger, in the order of its commits, although
\* movements go on (LedgerPage, plan.md:59).
THEOREM WalkIsHistoryHolds == Spec => []WalkIsHistory
<1>1. History => WalkIsHistory
  <2> SUFFICES ASSUME History, \A d, e \in ToSet(ledger) : ~Disordered(d, e)
               PROVE  IsPrefix(walk.seen, ledger)
    BY DEF WalkIsHistory
  <2>5. InOneOrder(ledger)
    BY UndisturbedOrder DEF History, IInv, Money, Instants
  <2> DEFINE l == Len(walk.seen)
  <2>1. /\ walk.seen \in Seq(Entries) /\ ledger \in Seq(Entries)
        /\ DOMAIN walk.seen = 1..l /\ DOMAIN ledger = 1..Len(ledger)
        /\ l \in Nat /\ Len(ledger) \in Nat
    BY DEF History, Walks, WalkOrder, Money, LedgerTypes
  <2>2. \A n \in 1..l : n \in 1..Len(ledger) /\ walk.seen[n] = ledger[n]
    BY <2>1, <2>5 DEF History, Walks, WalkPrefix
  <2>3. l <= Len(ledger)
    <3>1. CASE l = 0
      BY <2>1, <3>1
    <3>2. CASE l # 0
      <4>1. l \in 1..l
        BY <2>1, <3>2
      <4>2. l \in 1..Len(ledger)
        BY <2>2, <4>1
      <4> QED
        BY <2>1, <4>2
    <3> QED
      BY <3>1, <3>2
  <2>4. SubSeq(walk.seen, 1, l) = SubSeq(ledger, 1, l)
    <3>1. SubSeq(walk.seen, 1, l) = [n \in 1..l |-> walk.seen[n]]
      BY <2>1
    <3>2. SubSeq(ledger, 1, l) = [n \in 1..l |-> ledger[n]]
      BY <2>1, <2>3
    <3> HIDE DEF l
    <3> QED
      BY <2>2, <3>1, <3>2
  <2> QED
    BY <2>3, <2>4 DEF IsPrefix
<1> QED
  BY <1>1, HistoryHolds, PTL

==================================================================================
