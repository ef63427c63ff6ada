--------------------------- MODULE InductionProofs --------------------------
(***************************************************************************)
(* Induction over the numbers up to a bound, stated for sets of numbers so *)
(* that it needs no operator as a parameter, and what it says of functions *)
(* defined by recursion: the registry after n operations (Channel), the    *)
(* parts of the first n tokens of a path (Selection).                      *)
(***************************************************************************)
EXTENDS Integers, WellFoundedInduction, TLAPS

(* A set of naturals has a least element.                                  *)
LEMMA LeastNat ==
  ASSUME NEW T, T \subseteq Nat, T # {}
  PROVE  \E x \in T : \A y \in T : x <= y
<1>1. PICK x \in T : \A y \in T : ~(<<y, x>> \in OpToRel(<, Nat))
  BY WFMin, NatLessThanWellFounded
<1>2. \A y \in T : ~(y < x)
  BY <1>1 DEF OpToRel
<1> QED
  BY <1>2

(* Induction up to a bound, over the set of the numbers for which a        *)
(* statement holds.                                                        *)
LEMMA InductionTo ==
  ASSUME NEW T, NEW n \in Nat, 0 \in T,
         \A k \in 0..n : k \in T /\ k < n => k + 1 \in T
  PROVE  \A k \in 0..n : k \in T
<1> DEFINE F == {k \in 0..n : k \notin T}
<1>1. SUFFICES ASSUME F # {} PROVE FALSE
  OBVIOUS
<1>2. PICK x \in F : \A y \in F : x <= y
  <2>1. F \subseteq Nat
    OBVIOUS
  <2> HIDE DEF F
  <2> QED
    BY <1>1, <2>1, LeastNat
<1>3. x # 0 /\ x - 1 \in 0..n /\ x - 1 \notin F
  BY <1>2
<1>4. x - 1 \in T /\ x - 1 < n
  BY <1>2, <1>3
<1>5. (x - 1) + 1 \in T
  BY <1>3, <1>4
<1> QED
  BY <1>2, <1>5

(* f begins with b and goes on from each value to the next by a step.      *)
Goes(f, S, b, step, n) ==
    /\ f \in [0..n -> S]
    /\ \A k \in 0..n : f[k] = IF k = 0 THEN b ELSE step[k][f[k - 1]]

(* Such a function exists, as far as it is wanted.                         *)
LEMMA RecursionTo ==
  ASSUME NEW S, NEW b \in S, NEW n \in Nat, NEW step \in [1..n -> [S -> S]]
  PROVE  \E f : Goes(f, S, b, step, n)
<1> DEFINE T == {m \in 0..n : \E f : Goes(f, S, b, step, m)}
<1>1. 0 \in T
  <2>1. Goes([k \in 0..0 |-> b], S, b, step, 0)
    BY DEF Goes
  <2>2. 0 \in 0..n
    OBVIOUS
  <2> QED
    BY <2>1, <2>2
<1>2. ASSUME NEW m \in 0..n, m \in T, m < n PROVE m + 1 \in T
  <2>1. PICK f : Goes(f, S, b, step, m)
    BY <1>2
  <2> DEFINE g == [k \in 0..(m + 1) |-> IF k = m + 1 THEN step[m + 1][f[m]] ELSE f[k]]
  <2>2. m + 1 \in 1..n /\ m + 1 \in 0..n /\ m \in 0..m /\ f[m] \in S
    BY <1>2, <2>1 DEF Goes
  <2>3. step[m + 1][f[m]] \in S
    BY <2>2
  <2>4. g \in [0..(m + 1) -> S]
    BY <2>1, <2>3 DEF Goes
  <2>5. ASSUME NEW k \in 0..(m + 1)
        PROVE  g[k] = IF k = 0 THEN b ELSE step[k][g[k - 1]]
    <3>1. CASE k = m + 1
      BY <2>2, <3>1
    <3>2. CASE k \in 0..m
      <4>1. g[k] = f[k] /\ (k # 0 => g[k - 1] = f[k - 1])
        BY <3>2
      <4> QED
        BY <2>1, <3>2, <4>1 DEF Goes
    <3> QED
      BY <3>1, <3>2
  <2>6. Goes(g, S, b, step, m + 1)
    <3> HIDE DEF g
    <3> QED
      BY <2>4, <2>5 DEF Goes
  <2> HIDE DEF g
  <2> QED
    BY <2>2, <2>6
<1>3. \A m \in 0..n : m \in T
  <2> HIDE DEF T
  <2> QED
    BY <1>1, <1>2, InductionTo
<1>4. n \in T
  BY <1>3
<1> QED
  BY <1>4

=============================================================================
