------------------------------- MODULE Recursion -------------------------------
(***************************************************************************)
(* Facts about numbers, recursive functions and finite sets that the       *)
(* proofs about the delays between retries, the balance of a ledger and    *)
(* its pages rest on.  They are stated for sets and functions rather than  *)
(* for predicates, and come down to one theorem of the library: the order  *)
(* of the naturals is well-founded.                                        *)
(***************************************************************************)
EXTENDS Integers, WellFoundedInduction, TLAPS

(* A set of naturals that is not empty has a least element.                *)
LEMMA LeastElement ==
  ASSUME NEW T, T \subseteq Nat, T # {}
  PROVE  \E m \in T : \A k \in T : m <= k
<1> DEFINE Less == OpToRel(<, Nat)
<1>1. \A m, k \in Nat : <<k, m>> \in Less <=> k < m
  BY DEF OpToRel
<1>2. IsWellFoundedOn(Less, Nat)
  BY NatLessThanWellFounded
<1> HIDE DEF Less
<1>3. PICK m \in T : \A k \in T : ~ (<<k, m>> \in Less)
  BY <1>2, WFMin
<1>4. ASSUME NEW k \in T PROVE m <= k
  <2>1. m \in Nat /\ k \in Nat
    OBVIOUS
  <2>2. ~ (k < m)
    BY <1>1, <1>3, <2>1
  <2> QED
    BY <2>1, <2>2
<1> QED
  BY <1>4

(* A set of naturals with 0, and with the successor of each of its         *)
(* elements, has them all.                                                 *)
LEMMA Induction ==
  ASSUME NEW T, T \subseteq Nat, 0 \in T, \A n \in T : n + 1 \in T
  PROVE  T = Nat
<1> SUFFICES ASSUME T # Nat PROVE FALSE
  OBVIOUS
<1>1. PICK m \in Nat \ T : \A k \in Nat \ T : m <= k
  <2>1. Nat \ T # {} /\ Nat \ T \subseteq Nat
    OBVIOUS
  <2> QED
    BY <2>1, LeastElement
<1>2. m - 1 \in T
  BY <1>1
<1>3. (m - 1) + 1 = m
  BY <1>1
<1> QED
  BY <1>1, <1>2, <1>3

(* Recursion over the naturals: each step, given as a function of the      *)
(* index and the last value, determines a sequence of values.              *)
Recurses(S, base, step) ==
  \E f \in [Nat -> S] :
    /\ f[0] = base
    /\ \A n \in Nat : f[n + 1] = step[n][f[n]]

LEMMA RecursionExists ==
  ASSUME NEW S, NEW base \in S, NEW step \in [Nat -> [S -> S]]
  PROVE  Recurses(S, base, step)
<1> DEFINE Begins(n, f) == /\ f[0] = base
                           /\ \A k \in 0..n : f[k] \in S
                           /\ \A k \in 0..(n - 1) : f[k + 1] = step[k][f[k]]
<1> DEFINE Starts(n) == \E f \in [0..n -> S] : Begins(n, f)
<1> DEFINE T == {n \in Nat : Starts(n)}
<1>1. 0 \in T
  <2>1. [k \in 0..0 |-> base] \in [0..0 -> S] /\ Begins(0, [k \in 0..0 |-> base])
    OBVIOUS
  <2> QED
    BY <2>1
<1>2. ASSUME NEW n \in T PROVE n + 1 \in T
  <2>1. PICK f \in [0..n -> S] : Begins(n, f)
    OBVIOUS
  <2> DEFINE g == [k \in 0..(n + 1) |-> IF k = n + 1 THEN step[n][f[n]] ELSE f[k]]
  <2>2. n \in Nat /\ step[n][f[n]] \in S
    BY <2>1
  <2>3. g \in [0..(n + 1) -> S]
    BY <2>1, <2>2
  <2>4. g[n + 1] = step[n][f[n]] /\ \A k \in 0..n : g[k] = f[k]
    BY <2>2
  <2> HIDE DEF g
  <2>5. ASSUME NEW k \in 0..n PROVE g[k + 1] = step[k][g[k]]
    <3>1. CASE k = n
      BY <2>2, <2>4, <3>1
    <3>2. CASE k # n
      <4>1. k \in 0..(n - 1) /\ k + 1 \in 0..n
        BY <2>2, <3>2
      <4> QED
        BY <2>1, <2>4, <4>1
    <3> QED
      BY <3>1, <3>2
  <2>6. Begins(n + 1, g)
    BY <2>1, <2>2, <2>3, <2>4, <2>5
  <2>7. Starts(n + 1)
    BY <2>3, <2>6
  <2> HIDE DEF Starts
  <2> QED
    BY <2>2, <2>7
<1>3. T = Nat
  <2>1. T \subseteq Nat
    OBVIOUS
  <2> HIDE DEF T
  <2> QED
    BY <1>1, <1>2, <2>1, Induction
<1> DEFINE part == [n \in Nat |-> CHOOSE f \in [0..n -> S] : Begins(n, f)]
<1>4. \A n \in Nat : part[n] \in [0..n -> S] /\ Begins(n, part[n])
  BY <1>3
<1> HIDE DEF part
\* Two of the parts agree where both are defined.
<1>5. ASSUME NEW n \in Nat PROVE part[n + 1][n] = part[n][n]
  <2> DEFINE U == {k \in Nat : k <= n => part[n + 1][k] = part[n][k]}
  <2>1. 0 \in U
    BY <1>4
  <2>2. ASSUME NEW k \in U PROVE k + 1 \in U
    <3>1. CASE k + 1 <= n
      <4>1. k \in 0..(n - 1) /\ k \in 0..n /\ k <= n
        BY <3>1
      <4>2. part[n + 1][k + 1] = step[k][part[n + 1][k]]
        BY <1>4, <4>1
      <4>3. part[n][k + 1] = step[k][part[n][k]]
        BY <1>4, <4>1
      <4> QED
        BY <4>1, <4>2, <4>3
    <3>2. CASE ~(k + 1 <= n)
      BY <3>2
    <3> QED
      BY <3>1, <3>2
  <2>3. U = Nat
    <3>1. U \subseteq Nat
      OBVIOUS
    <3> HIDE DEF U
    <3> QED
      BY <2>1, <2>2, <3>1, Induction
  <2>4. n \in U
    BY <2>3
  <2> QED
    BY <2>4
<1> DEFINE whole == [n \in Nat |-> part[n][n]]
<1>6. whole \in [Nat -> S] /\ whole[0] = base
  BY <1>4
<1>7. ASSUME NEW n \in Nat PROVE whole[n + 1] = step[n][whole[n]]
  <2>1. n \in 0..((n + 1) - 1)
    OBVIOUS
  <2>2. part[n + 1][n + 1] = step[n][part[n + 1][n]]
    BY <1>4, <2>1
  <2> QED
    BY <1>5, <2>2
<1> HIDE DEF whole
<1> QED
  BY <1>6, <1>7 DEF Recurses
================================================================================
