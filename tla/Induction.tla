------------------------------ MODULE Induction ------------------------------
(***************************************************************************)
(* Induction over the natural numbers with sets in place of predicates:    *)
(* what holds is a set of numbers, so that a proof instantiates no         *)
(* operator.  From the least number that is not in the set follows that    *)
(* recursion along a function that always goes down defines a function.    *)
(***************************************************************************)
EXTENDS Integers, WellFoundedInduction, TLAPS

\* Every set of natural numbers that is not empty has a least one.
LEMMA Least ==
    ASSUME NEW T \in SUBSET Nat, T # {}
    PROVE  \E n \in T : \A m \in T : n <= m
<1> DEFINE R == OpToRel(<, Nat)
<1>1. IsWellFoundedOn(R, Nat)
  BY NatLessThanWellFounded
<1>2. \A m, n \in Nat : m < n => <<m, n>> \in R
  <2> SUFFICES ASSUME NEW m \in Nat, NEW n \in Nat, m < n
               PROVE  <<m, n>> \in R
    OBVIOUS
  <2>1. <<m, n>> \in Nat \X Nat /\ <<m, n>>[1] < <<m, n>>[2]
    OBVIOUS
  <2> QED
    BY <2>1 DEF OpToRel
<1> HIDE DEF R
<1>3. PICK n \in T : \A m \in T : ~ (<<m, n>> \in R)
  BY <1>1, WFMin
<1>4. \A m \in T : ~ (m < n)
  BY <1>2, <1>3
<1> QED
  BY <1>4

\* Every set of integers that is not empty and has a bound has a greatest one.
LEMMA Most ==
    ASSUME NEW T \in SUBSET Int, T # {}, NEW b \in Int, \A n \in T : n <= b
    PROVE  \E n \in T : \A m \in T : m <= n
<1> DEFINE Below == {d \in Nat : b - d \in T}
<1>1. Below # {}
  <2>1. PICK n \in T : TRUE
    OBVIOUS
  <2>2. b - n \in Nat /\ b - (b - n) = n
    BY <2>1
  <2> QED
    BY <2>1, <2>2
<1>2. PICK d \in Below : \A e \in Below : d <= e
  BY <1>1, Least
<1>3. \A m \in T : m <= b - d
  <2> SUFFICES ASSUME NEW m \in T PROVE m <= b - d
    OBVIOUS
  <2>1. b - m \in Nat /\ b - (b - m) = m
    OBVIOUS
  <2>2. d <= b - m
    BY <1>2, <2>1
  <2> QED
    BY <2>2
<1> QED
  BY <1>3

\* A set that has 1 and with all numbers below one that one has all of 1 .. N.
LEMMA Strong ==
    ASSUME NEW N \in Nat, NEW S,
           \A n \in 1 .. N : (\A m \in 1 .. n - 1 : m \in S) => n \in S
    PROVE  1 .. N \subseteq S
<1> DEFINE Others == (1 .. N) \ S
<1> SUFFICES ASSUME Others # {} PROVE FALSE
  OBVIOUS
<1>0. Others \in SUBSET Nat
  OBVIOUS
<1> HIDE DEF Others
<1>1. PICK n \in Others : \A m \in Others : n <= m
  BY <1>0, Least
<1> USE DEF Others
<1>2. \A m \in 1 .. n - 1 : m \in S
  BY <1>1
<1> QED
  BY <1>1, <1>2

\* The same from the greatest number down.
LEMMA StrongDown ==
    ASSUME NEW N \in Nat, NEW S,
           \A n \in 1 .. N : (\A m \in n + 1 .. N : m \in S) => n \in S
    PROVE  1 .. N \subseteq S
<1> DEFINE Others == (1 .. N) \ S
<1> SUFFICES ASSUME Others # {} PROVE FALSE
  OBVIOUS
<1>0. Others \in SUBSET Int /\ N \in Int /\ \A m \in Others : m <= N
  OBVIOUS
<1> HIDE DEF Others
<1>1. PICK n \in Others : \A m \in Others : m <= n
  BY <1>0, Most
<1> USE DEF Others
<1>2. \A m \in n + 1 .. N : m \in S
  BY <1>1
<1> QED
  BY <1>1, <1>2

\* A set that has 0 and with a number below N the next one has all of 0 .. N.
LEMMA Steps ==
    ASSUME NEW N \in Nat, NEW S, 0 \in S,
           \A n \in 0 .. N - 1 : n \in S => n + 1 \in S
    PROVE  0 .. N \subseteq S
<1> DEFINE Others == (0 .. N) \ S
<1> SUFFICES ASSUME Others # {} PROVE FALSE
  OBVIOUS
<1>0. Others \in SUBSET Nat
  OBVIOUS
<1> HIDE DEF Others
<1>1. PICK n \in Others : \A m \in Others : n <= m
  BY <1>0, Least
<1> USE DEF Others
<1>2. n # 0 /\ n - 1 \in 0 .. N - 1
  BY <1>1
<1>3. n - 1 \in S
  BY <1>1, <1>2
<1>4. (n - 1) + 1 \in S
  BY <1>2, <1>3
<1> QED
  BY <1>1, <1>2, <1>4

\* A solution of the equation that defines a function by recursion along up.
Solves(f, n, a, up, step) ==
    f = [k \in 0 .. n |-> IF k = 0 THEN a ELSE step[k][f[up[k]]]]

\* There is one where up always goes down.
LEMMA Recursion ==
    ASSUME NEW N \in Nat, NEW V, NEW a \in V, NEW up, NEW step \in [1 .. N -> [V -> V]],
           \A n \in 1 .. N : up[n] \in 0 .. n - 1
    PROVE  \E f \in [0 .. N -> V] : Solves(f, N, a, up, step)
<1> DEFINE S == {n \in Nat : \E f \in [0 .. n -> V] : Solves(f, n, a, up, step)}
<1>1. 0 \in S
  <2> DEFINE f == [k \in 0 .. 0 |-> a]
  <2>1. f \in [0 .. 0 -> V]
    OBVIOUS
  <2>2. Solves(f, 0, a, up, step)
    BY DEF Solves
  <2> QED
    BY <2>1, <2>2
<1>2. ASSUME NEW n \in 0 .. N - 1, n \in S
      PROVE  n + 1 \in S
  <2>1. PICK f \in [0 .. n -> V] : Solves(f, n, a, up, step)
    BY <1>2
  <2>2. n + 1 \in 1 .. N /\ up[n + 1] \in 0 .. n
    OBVIOUS
  <2> DEFINE v == step[n + 1][f[up[n + 1]]]
             g == [k \in 0 .. n + 1 |-> IF k = n + 1 THEN v ELSE f[k]]
  <2>3. v \in V
    BY <2>2
  <2>4. g \in [0 .. n + 1 -> V]
    BY <2>3
  <2>5. ASSUME NEW k \in 0 .. n + 1
        PROVE  g[k] = IF k = 0 THEN a ELSE step[k][g[up[k]]]
    <3>1. CASE k = n + 1
      BY <2>2, <3>1
    <3>2. CASE k \in 0 .. n
      <4>1. g[k] = f[k]
        BY <3>2
      <4>2. f[k] = IF k = 0 THEN a ELSE step[k][f[up[k]]]
        BY <2>1, <3>2 DEF Solves
      <4>3. k # 0 => up[k] \in 0 .. n
        BY <3>2
      <4>4. k # 0 => g[up[k]] = f[up[k]]
        BY <4>3
      <4> QED
        BY <4>1, <4>2, <4>4
    <3> QED
      BY <3>1, <3>2
  <2> HIDE DEF v
  <2>6. Solves(g, n + 1, a, up, step)
    BY <2>5 DEF Solves
  <2> HIDE DEF g
  <2>7. \E h \in [0 .. n + 1 -> V] : Solves(h, n + 1, a, up, step)
    BY <2>4, <2>6
  <2>8. n + 1 \in Nat
    OBVIOUS
  <2> QED
    BY <2>7, <2>8
<1> HIDE DEF S
<1>3. 0 .. N \subseteq S
  BY <1>1, <1>2, Steps
<1>4. N \in S
  BY <1>3
<1> QED
  BY <1>4 DEF S
=============================================================================
