---------------------------- MODULE SetInduction ----------------------------
(***************************************************************************)
(* Induction over the natural numbers and recursion along a sequence, in   *)
(* a form that needs no operator parameter: the induction predicate is a   *)
(* set of numbers, the step of a recursion is a function.  Both follow     *)
(* from the fact that every set of numbers has a least element.            *)
(***************************************************************************)
EXTENDS Integers, Sequences, FiniteSets, WellFoundedInduction, FiniteSetTheorems, TLAPS

(***************************************************************************)
(* Every set of natural numbers has a least element.                       *)
(***************************************************************************)
LEMMA LeastElement ==
  ASSUME NEW T, T \subseteq Nat, T # {}
  PROVE  \E x \in T : \A y \in T : x <= y
<1>1. PICK n \in T : TRUE
  OBVIOUS
<1> DEFINE Below(k) == {y \in T : y < k}
           C == {Below(k) : k \in T}
           R == StrictSubsetOrdering(T)
<1>2. IsWellFoundedOn(R, FiniteSubsetsOf(T))
  BY FS_StrictSubsetOrderingWellFounded
<1>3. \A k \in T : Below(k) \in FiniteSubsetsOf(T)
  <2> SUFFICES ASSUME NEW k \in T PROVE IsFiniteSet(Below(k)) /\ Below(k) \subseteq T
    BY DEF FiniteSubsetsOf
  <2>1. 0 \in Int /\ k \in Int
    OBVIOUS
  <2>2. IsFiniteSet(0..k)
    BY <2>1, FS_Interval
  <2>3. Below(k) \in SUBSET (0..k)
    <3>1. \A y \in Below(k) : y \in 0..k
      OBVIOUS
    <3> QED BY <3>1
  <2> HIDE DEF Below
  <2>4. IsFiniteSet(Below(k))
    BY <2>2, <2>3, FS_Subset
  <2> QED BY <2>4 DEF Below
<1>4. C \subseteq FiniteSubsetsOf(T) /\ C # {}
  BY <1>1, <1>3
<1> HIDE DEF C, R
<1>5. PICK c \in C : \A y \in C : ~ (<<y, c>> \in R)
  BY <1>2, <1>4, WFMin
<1>6. PICK k \in T : c = Below(k)
  BY <1>5 DEF C
<1>7. ASSUME NEW y \in T, y < k PROVE FALSE
  <2>1. Below(y) # Below(k) /\ Below(y) \subseteq Below(k)
    <3>1. y \in Below(k) /\ y \notin Below(y)
      BY <1>7
    <3>2. \A z \in Below(y) : z \in Below(k)
      BY <1>7
    <3> QED BY <3>1, <3>2
  <2> HIDE DEF Below
  <2>2. Below(y) \in SUBSET T /\ Below(k) \in SUBSET T
    BY <1>3 DEF FiniteSubsetsOf
  <2>3. <<Below(y), Below(k)>> \in R
    BY <2>1, <2>2 DEF StrictSubsetOrdering, R
  <2> QED BY <1>5, <1>6, <2>3 DEF C
<1> QED BY <1>6, <1>7

(***************************************************************************)
(* Induction: a set of numbers that has 0, and with every number the next, *)
(* has them all.                                                           *)
(***************************************************************************)
LEMMA SetInduct ==
  ASSUME NEW P, 0 \in P, \A n \in Nat : n \in P => n + 1 \in P
  PROVE  \A n \in Nat : n \in P
<1> DEFINE T == {n \in Nat : n \notin P}
<1> SUFFICES ASSUME T # {} PROVE FALSE
  OBVIOUS
<1>1. T \subseteq Nat
  OBVIOUS
<1> HIDE DEF T
<1>2. PICK x \in T : \A y \in T : x <= y
  BY <1>1, LeastElement
<1>3. x \in Nat /\ x \notin P
  BY <1>2 DEF T
<1>4. x # 0
  BY <1>3
<1>5. x - 1 \in Nat /\ ~(x <= x - 1) /\ (x - 1) + 1 = x
  BY <1>3, <1>4
<1>6. x - 1 \in P
  BY <1>2, <1>5 DEF T
<1> QED
  BY <1>3, <1>5, <1>6

(***************************************************************************)
(* Recursion along 1..n: there is a function that starts with x0 and goes  *)
(* on as F says.  The two operators keep the statement simple enough for   *)
(* the provers to instantiate.                                             *)
(***************************************************************************)
IsStep(S, n, F) == F \in [S \X (1..n) -> S]
HasRun(S, n, x0, F) ==
  \E g \in [0..n -> S] : g[0] = x0 /\ \A i \in 1..n : g[i] = F[<<g[i - 1], i>>]

LEMMA Run ==
  ASSUME NEW S, NEW n \in Nat, NEW s0 \in S, NEW F, IsStep(S, n, F)
  PROVE  HasRun(S, n, s0, F)
<1> USE DEF IsStep
<1> DEFINE Good(m, g) == /\ g \in [0..m -> S] /\ g[0] = s0
                         /\ \A i \in 1..m : g[i] = F[<<g[i - 1], i>>]
           P == {m \in Nat : m <= n => \E g : Good(m, g)}
<1>1. 0 \in P
  <2>1. Good(0, [i \in 0..0 |-> s0])
    OBVIOUS
  <2> QED
    BY <2>1
<1>2. ASSUME NEW m \in Nat, m \in P PROVE m + 1 \in P
  <2> SUFFICES ASSUME m + 1 <= n PROVE \E g : Good(m + 1, g)
    BY DEF P
  <2>1. PICK h : Good(m, h)
    BY <1>2 DEF P
  <2> DEFINE x == F[<<h[m], m + 1>>]
             g == [i \in 0..(m + 1) |-> IF i = m + 1 THEN x ELSE h[i]]
  <2>2. x \in S
    <3>1. h[m] \in S /\ m + 1 \in 1..n
      BY <2>1
    <3> QED
      BY <3>1
  <2> HIDE DEF x
  <2>3. g \in [0..(m + 1) -> S]
    <3>1. \A i \in 0..(m + 1) : i # m + 1 => i \in 0..m
      OBVIOUS
    <3> QED
      BY <2>1, <2>2, <3>1
  <2>4. g[0] = s0
    BY <2>1
  <2>5. ASSUME NEW i \in 1..(m + 1) PROVE g[i] = F[<<g[i - 1], i>>]
    <3>1. i - 1 \in 0..m /\ i \in 0..(m + 1) /\ i - 1 # m + 1
      OBVIOUS
    <3>2. g[i - 1] = h[i - 1]
      BY <3>1
    <3>3. CASE i = m + 1
      <4>1. i - 1 = m
        BY <3>3
      <4>2. g[i] = x
        BY <3>3
      <4> QED
        BY <3>2, <3>3, <4>1, <4>2 DEF x
    <3>4. CASE i # m + 1
      <4>1. i \in 1..m
        BY <3>4
      <4>2. g[i] = h[i]
        BY <3>1, <3>4
      <4> QED
        BY <2>1, <3>2, <4>1, <4>2
    <3> QED
      BY <3>3, <3>4
  <2> HIDE DEF g
  <2> QED
    BY <2>3, <2>4, <2>5
<1> HIDE DEF P
<1>3. n \in P
  BY <1>1, <1>2, SetInduct
<1>4. PICK g : Good(n, g)
  BY <1>3 DEF P
<1> QED
  BY <1>4 DEF HasRun

=============================================================================
