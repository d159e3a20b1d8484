------------------------------ MODULE Induction ------------------------------
(***************************************************************************)
(* Induction over the natural numbers, and functions defined by iteration, *)
(* as facts about sets and functions.  The theorems of NaturalsInduction   *)
(* take the predicate as an operator, which the provers used here cannot   *)
(* instantiate; here it is the set of the numbers that satisfy it.         *)
(***************************************************************************)
EXTENDS Integers, WellFoundedInduction, TLAPS

(***************************************************************************)
(* A set of natural numbers that is not empty has a least element.         *)
(***************************************************************************)
LEMMA SmallestIn ==
  ASSUME NEW T, T \subseteq Nat, T # {}
  PROVE  \E n \in T : \A m \in T : n <= m
<1> DEFINE R == OpToRel(<, Nat)
<1>1. IsWellFoundedOn(R, Nat)
  BY NatLessThanWellFounded, Zenon
<1> HIDE DEF R
<1>2. PICK n \in T : \A m \in T : ~(<<m, n>> \in R)
  BY <1>1, WFMin
<1>3. \A m \in T : m < n => <<m, n>> \in R
  BY DEF R, OpToRel
<1>4. n \in Nat /\ \A m \in T : m \in Nat /\ ~(m < n)
  BY <1>2, <1>3
<1> QED BY <1>4

(***************************************************************************)
(* Induction: a set that holds 0 and the successor of each of its natural  *)
(* numbers holds them all.                                                 *)
(***************************************************************************)
LEMMA SetInduction ==
  ASSUME NEW S, 0 \in S, \A n \in Nat : n \in S => n + 1 \in S
  PROVE  Nat \subseteq S
<1> DEFINE T == Nat \ S
<1>1. SUFFICES ASSUME T # {} PROVE FALSE
  OBVIOUS
<1>2. PICK n \in T : \A m \in T : n <= m
  BY <1>1, SmallestIn
<1>3. n # 0 /\ n - 1 \in Nat
  BY <1>2
<1>4. n - 1 \in S
  BY <1>2, <1>3
<1> QED BY <1>3, <1>4, <1>2

(***************************************************************************)
(* Induction up to a bound.                                                *)
(***************************************************************************)
LEMMA BoundedInduction ==
  ASSUME NEW N \in Nat, NEW S, 0 \in S,
         \A n \in 0..N : n \in S /\ n + 1 <= N => n + 1 \in S
  PROVE  0..N \subseteq S
<1> DEFINE T == {n \in Nat : n <= N => n \in S}
<1>1. 0 \in T
  OBVIOUS
<1>2. \A n \in Nat : n \in T => n + 1 \in T
  OBVIOUS
<1>3. Nat \subseteq T
  BY <1>1, <1>2, SetInduction
<1> QED BY <1>3

(***************************************************************************)
(* Induction from the bound down.                                          *)
(***************************************************************************)
LEMMA DownwardInduction ==
  ASSUME NEW N \in Nat, NEW S, N \in S,
         \A n \in 0..N : n \in S /\ n > 0 => n - 1 \in S
  PROVE  0..N \subseteq S
<1> DEFINE T == {n \in Nat : n <= N => N - n \in S}
<1>1. 0 \in T
  OBVIOUS
<1>2. \A n \in Nat : n \in T => n + 1 \in T
  OBVIOUS
<1>3. Nat \subseteq T
  BY <1>1, <1>2, SetInduction
<1>4. \A n \in 0..N : N - n \in T /\ N - (N - n) = n
  BY <1>3
<1> QED BY <1>4

(***************************************************************************)
(* A function that starts at x and takes one step after another exists, so *)
(* that a recursive definition of this form defines what it says.          *)
(***************************************************************************)
Iterates(f, step, x, N) == f[0] = x /\ \A n \in 1..N : f[n] = step[f[n - 1]]

LEMMA Iteration ==
  ASSUME NEW S, NEW step \in [S -> S], NEW x \in S, NEW N \in Nat
  PROVE  \E f \in [0..N -> S] : Iterates(f, step, x, N)
<1> DEFINE Is(f, k) == f[0] = x /\ \A n \in 1..k : f[n] = step[f[n - 1]]
           T == {k \in Nat : \E f \in [0..k -> S] : Is(f, k)}
<1>1. 0 \in T
  <2>1. [n \in 0..0 |-> x] \in [0..0 -> S] /\ Is([n \in 0..0 |-> x], 0)
    OBVIOUS
  <2> QED BY <2>1
<1>2. ASSUME NEW k \in Nat, k \in T PROVE k + 1 \in T
  <2>1. PICK f \in [0..k -> S] : Is(f, k)
    BY <1>2
  <2> DEFINE g == [n \in 0..(k + 1) |-> IF n <= k THEN f[n] ELSE step[f[k]]]
  <2>2. f[k] \in S
    OBVIOUS
  <2>3. g \in [0..(k + 1) -> S]
    BY <2>2
  <2>4. g[0] = x
    BY <2>1
  <2>5. ASSUME NEW n \in 1..(k + 1) PROVE g[n] = step[g[n - 1]]
    <3>1. CASE n <= k
      BY <2>1, <3>1
    <3>2. CASE n = k + 1
      BY <3>2
    <3> QED BY <3>1, <3>2
  <2> HIDE DEF g
  <2>6. Is(g, k + 1)
    BY <2>4, <2>5
  <2> QED BY <2>3, <2>6
<1>3. Nat \subseteq T
  <2> HIDE DEF T
  <2> QED BY <1>1, <1>2, SetInduction
<1>4. PICK f \in [0..N -> S] : Is(f, N)
  BY <1>3
<1> QED BY <1>4 DEF Iterates

(***************************************************************************)
(* Folds.  FoldLeft of the community modules takes the greatest element of *)
(* a set of indices last; the function it is defined by exists, and stays  *)
(* in a set that the step does not leave.                                  *)
(***************************************************************************)
Greatest(T) == CHOOSE x \in T : \A y \in T : x >= y

LEMMA GreatestIn ==
  ASSUME NEW N \in Nat, NEW T \in SUBSET (1..N), T # {}
  PROVE  Greatest(T) \in T /\ \A y \in T : Greatest(T) >= y
<1> DEFINE U == {N - x : x \in T}
<1>1. U \subseteq Nat /\ U # {}
  <2>1. \A x \in T : N - x \in Nat
    OBVIOUS
  <2> QED BY <2>1
<1>2. PICK n \in U : \A m \in U : n <= m
  <2> HIDE DEF U
  <2> QED BY <1>1, SmallestIn
<1>3. PICK x \in T : n = N - x
  BY <1>2
<1>4. ASSUME NEW y \in T PROVE x >= y
  <2>1. N - y \in U
    OBVIOUS
  <2>2. N - x <= N - y
    BY <1>2, <1>3, <2>1
  <2> QED BY <2>2
<1> QED BY <1>4, Zenon DEF Greatest

FoldsBy(f, step, base, N) ==
  \A T \in SUBSET (1..N) :
    f[T] = IF T = {} THEN base
           ELSE step[<<f[T \ {Greatest(T)}], Greatest(T)>>]

LEMMA FoldExists ==
  ASSUME NEW S, NEW base \in S, NEW N \in Nat, NEW step \in [S \X (1..N) -> S]
  PROVE  \E f \in [SUBSET (1..N) -> S] : FoldsBy(f, step, base, N)
<1> DEFINE K == {n \in Nat : n <= N => \E f \in [SUBSET (1..n) -> S] :
                                         FoldsBy(f, step, base, n)}
<1>1. 0 \in K
  <2>1. [T \in SUBSET (1..0) |-> base] \in [SUBSET (1..0) -> S]
    OBVIOUS
  <2>2. \A T \in SUBSET (1..0) : T = {}
    OBVIOUS
  <2> QED BY <2>1, <2>2 DEF FoldsBy
<1>2. ASSUME NEW n \in Nat, n \in K PROVE n + 1 \in K
  <2>0. n + 1 \in Nat /\ (n + 1 <= N => n <= N)
    OBVIOUS
  <2>. SUFFICES ASSUME n + 1 <= N
                PROVE  \E f \in [SUBSET (1..(n + 1)) -> S] : FoldsBy(f, step, base, n + 1)
    BY <2>0
  <2>1. PICK f \in [SUBSET (1..n) -> S] : FoldsBy(f, step, base, n)
    <3>1. n <= N
      BY <2>0
    <3> QED BY <1>2, <3>1
  <2> DEFINE g == [T \in SUBSET (1..(n + 1)) |->
                     IF n + 1 \in T THEN step[<<f[T \ {n + 1}], n + 1>>] ELSE f[T]]
  <2>2. ASSUME NEW T \in SUBSET (1..(n + 1))
        PROVE  /\ T \ {n + 1} \in SUBSET (1..n)
               /\ n + 1 \notin T => T \in SUBSET (1..n)
    OBVIOUS
  <2>3. g \in [SUBSET (1..(n + 1)) -> S]
    <3>1. ASSUME NEW T \in SUBSET (1..(n + 1))
          PROVE  (IF n + 1 \in T THEN step[<<f[T \ {n + 1}], n + 1>>] ELSE f[T]) \in S
      <4>1. n + 1 \in 1..N
        OBVIOUS
      <4>2. f[T \ {n + 1}] \in S
        BY <2>2
      <4> QED BY <2>2, <4>1, <4>2
    <3> QED BY <3>1
  <2>4. ASSUME NEW T \in SUBSET (1..(n + 1)), T # {}
        PROVE  g[T] = step[<<g[T \ {Greatest(T)}], Greatest(T)>>]
    <3>1. Greatest(T) \in T /\ \A y \in T : Greatest(T) >= y
      BY <2>0, <2>4, GreatestIn
    <3>2. CASE n + 1 \in T
      <4>1. Greatest(T) = n + 1
        <5>1. Greatest(T) \in 1..(n + 1) /\ Greatest(T) >= n + 1
          BY <3>1, <3>2
        <5> QED BY <5>1
      <4>2. T \ {n + 1} \in SUBSET (1..(n + 1)) /\ n + 1 \notin T \ {n + 1}
        OBVIOUS
      <4>3. g[T \ {n + 1}] = f[T \ {n + 1}]
        BY <4>2
      <4>4. g[T] = step[<<f[T \ {n + 1}], n + 1>>]
        BY <3>2
      <4> QED BY <4>1, <4>3, <4>4
    <3>3. CASE n + 1 \notin T
      <4>1. T \in SUBSET (1..n) /\ T \ {Greatest(T)} \in SUBSET (1..(n + 1))
        BY <3>3, <2>2
      <4>2. g[T] = f[T] /\ g[T \ {Greatest(T)}] = f[T \ {Greatest(T)}]
        BY <3>3, <4>1
      <4>3. f[T] = step[<<f[T \ {Greatest(T)}], Greatest(T)>>]
        BY <2>1, <2>4, <4>1 DEF FoldsBy
      <4> QED BY <4>2, <4>3
    <3> QED BY <3>2, <3>3
  <2>5. g[{}] = base
    <3>1. {} \in SUBSET (1..(n + 1)) /\ {} \in SUBSET (1..n) /\ n + 1 \notin {}
      OBVIOUS
    <3>2. g[{}] = f[{}]
      BY <3>1
    <3> QED BY <2>1, <3>1, <3>2 DEF FoldsBy
  <2> HIDE DEF g
  <2>6. FoldsBy(g, step, base, n + 1)
    BY <2>4, <2>5 DEF FoldsBy
  <2> QED BY <2>3, <2>6
<1>3. N \in K
  <2> HIDE DEF K
  <2> QED BY <1>1, <1>2, SetInduction
<1>4. N <= N
  OBVIOUS
<1> QED BY <1>3, <1>4

LEMMA FoldStays ==
  ASSUME NEW S, NEW N \in Nat, NEW f, f[{}] \in S,
         \A T \in SUBSET (1..N) : T # {} /\ f[T \ {Greatest(T)}] \in S => f[T] \in S
  PROVE  f[1..N] \in S
<1> DEFINE K == {n \in Nat : n <= N => f[1..n] \in S}
<1>1. 0 \in K
  <2>1. 1..0 = {}
    OBVIOUS
  <2> QED BY <2>1
<1>2. ASSUME NEW n \in Nat, n \in K PROVE n + 1 \in K
  <2>0. n + 1 \in Nat /\ (n + 1 <= N => n <= N)
    OBVIOUS
  <2>. SUFFICES ASSUME n + 1 <= N PROVE f[1..(n + 1)] \in S
    BY <2>0
  <2>1. 1..(n + 1) \in SUBSET (1..N) /\ 1..(n + 1) # {} /\ n + 1 \in 1..(n + 1)
    OBVIOUS
  <2>2. Greatest(1..(n + 1)) \in 1..(n + 1) /\ Greatest(1..(n + 1)) >= n + 1
    BY <2>0, <2>1, GreatestIn
  <2>3. Greatest(1..(n + 1)) = n + 1
    BY <2>2
  <2>4. (1..(n + 1)) \ {n + 1} = 1..n
    OBVIOUS
  <2>5. f[1..n] \in S
    BY <1>2, <2>0
  <2> QED BY <2>1, <2>3, <2>4, <2>5
<1>3. N \in K
  <2> HIDE DEF K
  <2> QED BY <1>1, <1>2, SetInduction
<1> QED BY <1>3
=============================================================================
