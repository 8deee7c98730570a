------------------------------ MODULE Recursion ------------------------------
(***************************************************************************)
(* Induction over natural numbers and recursion along a list, for the      *)
(* proofs about the algorithms of the code. What is proved of every number *)
(* is given as the set of the numbers it holds for, and what is done at    *)
(* every element as a function, so that each fact can be cited with the    *)
(* set or the function at hand.                                            *)
(***************************************************************************)
EXTENDS Integers, WellFoundedInduction, TLAPS

\* A set of natural numbers that is not empty has a least element.
LEMMA LeastNumber ==
  ASSUME NEW S \in SUBSET Nat, S # {}
  PROVE  \E n \in S : \A m \in S : n <= m
<1> DEFINE before == OpToRel(<, Nat)
<1>1. IsWellFoundedOn(before, Nat)
  BY NatLessThanWellFounded, Zenon
<1>2. \A x, y \in Nat : y < x => <<y, x>> \in before
  BY DEF OpToRel
<1> HIDE DEF before
<1>3. PICK n \in S : \A m \in S : ~(<<m, n>> \in before)
  BY <1>1, WFMin, Zenon
<1>4. ASSUME NEW m \in S PROVE n <= m
  <2>1. n \in Nat /\ m \in Nat /\ ~(m < n)
    BY <1>2, <1>3
  <2> QED
    BY <2>1
<1> QED
  BY <1>4

\* What holds at the beginning of an interval and goes on from each number to
\* the next holds in all of it.
LEMMA Interval ==
  ASSUME NEW n \in Nat, NEW S, 0 \in S, \A i \in 1..n : i - 1 \in S => i \in S
  PROVE  \A i \in 0..n : i \in S
<1> SUFFICES ASSUME ~(\A i \in 0..n : i \in S) PROVE FALSE
  OBVIOUS
<1> DEFINE T == {i \in 0..n : i \notin S}
<1>1. T \in SUBSET Nat /\ T # {}
  OBVIOUS
<1>2. PICK i \in T : \A j \in T : i <= j
  BY <1>1, LeastNumber
<1>3. i \in 1..n /\ i \notin S
  BY <1>2
<1>4. i - 1 \in S
  <2>1. i - 1 \in 0..n /\ ~(i <= i - 1)
    BY <1>3
  <2>2. i - 1 \notin T
    BY <1>2, <2>1
  <2> QED
    BY <2>1, <2>2
<1> QED
  BY <1>3, <1>4

\* What is done at each of n elements, with values in V; and a function that
\* begins with a value and does it.
Steps(n, V) == [1..n -> [V -> V]]
Follows(f, n, V, base, step) ==
  f \in [0..n -> V] /\ f[0] = base /\ \A i \in 1..n : f[i] = step[i][f[i - 1]]

\* A value for the beginning and a step for each number make one function.
LEMMA RecursionExists ==
  ASSUME NEW n \in Nat, NEW V, NEW base \in V, NEW step \in Steps(n, V)
  PROVE  \E f : Follows(f, n, V, base, step)
<1> DEFINE Upto(m) == {f \in [0..m -> V] :
                         f[0] = base /\ \A i \in 1..m : f[i] = step[i][f[i - 1]]}
           S == {m \in 0..n : Upto(m) # {}}
<1>1. 0 \in S
  <2>1. [i \in 0..0 |-> base] \in Upto(0)
    OBVIOUS
  <2> QED
    BY <2>1
<1>2. ASSUME NEW m \in 1..n, m - 1 \in S PROVE m \in S
  <2>1. PICK f \in [0..(m - 1) -> V] :
          f[0] = base /\ \A i \in 1..(m - 1) : f[i] = step[i][f[i - 1]]
    BY <1>2
  <2> DEFINE v == step[m][f[m - 1]]
             g == [i \in 0..m |-> IF i = m THEN v ELSE f[i]]
  <2>2. v \in V
    <3>1. f[m - 1] \in V
      BY <2>1
    <3>2. step[m] \in [V -> V]
      BY DEF Steps
    <3> QED
      BY <3>1, <3>2
  <2> HIDE DEF v
  <2>3. g \in [0..m -> V] /\ g[0] = base
    BY <2>1, <2>2
  <2>4. ASSUME NEW i \in 1..m PROVE g[i] = step[i][g[i - 1]]
    <3>1. g[i - 1] = f[i - 1] /\ i - 1 \in 0..(m - 1)
      OBVIOUS
    <3>2. CASE i = m
      BY <3>1, <3>2 DEF v
    <3>3. CASE i # m
      <4>1. i \in 1..(m - 1) /\ g[i] = f[i]
        BY <3>3
      <4> QED
        BY <2>1, <3>1, <4>1
    <3> QED
      BY <3>2, <3>3
  <2> HIDE DEF g
  <2>5. g \in Upto(m)
    BY <2>3, <2>4
  <2> HIDE DEF Upto
  <2> QED
    BY <2>5
<1> HIDE DEF S
<1>3. \A m \in 0..n : m \in S
  BY <1>1, <1>2, Interval, Zenon
<1>4. n \in S
  BY <1>3
<1> QED
  BY <1>4 DEF S, Follows

\* So a function can be defined by what it is at 0 and at each number after it.
LEMMA RecursiveFunction ==
  ASSUME NEW n \in Nat, NEW V, NEW base \in V, NEW step \in Steps(n, V)
  PROVE  \E f \in [0..n -> V] :
           f = [i \in 0..n |-> IF i = 0 THEN base ELSE step[i][f[i - 1]]]
<1>1. PICK f : Follows(f, n, V, base, step)
  BY RecursionExists
<1>2. f \in [0..n -> V] /\ f[0] = base /\ \A i \in 1..n : f[i] = step[i][f[i - 1]]
  BY <1>1 DEF Follows
<1>3. \A i \in 0..n : i = 0 \/ (i \in 1..n /\ i # 0)
  OBVIOUS
<1>4. \A i \in 0..n : f[i] = IF i = 0 THEN base ELSE step[i][f[i - 1]]
  BY <1>2, <1>3, Zenon
<1>5. f = [i \in 0..n |-> f[i]]
  BY <1>2
<1> QED
  BY <1>2, <1>4, <1>5
============================================================================
