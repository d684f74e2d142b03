---------------------------- MODULE NumberLemmas ----------------------------
(***************************************************************************)
(* What the proofs need to know of counting: least numbers, induction and  *)
(* recursion up to a bound.                                                *)
(***************************************************************************)
EXTENDS Naturals, WellFoundedInduction, TLAPS

(* A set of numbers has a least one. *)
LEMMA LeastNumber ==
  ASSUME NEW T, T \subseteq Nat, T # {}
  PROVE  \E x \in T : \A y \in T : x <= y
<1> DEFINE less == OpToRel(<, Nat)
<1>0. less = {p \in Nat \X Nat : p[1] < p[2]}
  BY DEF OpToRel
<1>3. IsWellFoundedOn(less, Nat)
  BY NatLessThanWellFounded
<1>1. PICK x \in T : \A y \in T : <<y, x>> \notin less
  <2> HIDE DEF less
  <2>1. QED
    BY <1>3, WFMin
<1>2. ASSUME NEW y \in T PROVE x <= y
  <2>1. x \in Nat /\ y \in Nat
    OBVIOUS
  <2>2. <<y, x>> \in less <=> y < x
    <3> HIDE DEF less
    <3>1. <<y, x>> \in less <=> <<y, x>> \in {p \in Nat \X Nat : p[1] < p[2]}
      BY <1>0
    <3>2. QED
      BY <2>1, <3>1
  <2>3. <<y, x>> \notin less
    BY <1>1
  <2> HIDE DEF less
  <2>4. QED
    BY <2>1, <2>2, <2>3
<1>4. QED
  BY <1>2

(* Induction up to n: a set that has 0, and i if it has i-1, has them all. *)
LEMMA InductionUpTo ==
  ASSUME NEW n \in Nat, NEW T, 0 \in T, \A i \in 1..n : i - 1 \in T => i \in T
  PROVE  \A i \in 0..n : i \in T
<1> DEFINE missing == {i \in 0..n : i \notin T}
<1>1. SUFFICES ASSUME missing # {} PROVE FALSE
  OBVIOUS
<1>2. PICK i \in missing : \A j \in missing : i <= j
  <2>1. missing \subseteq Nat
    OBVIOUS
  <2> HIDE DEF missing
  <2>2. QED
    BY <1>1, <2>1, LeastNumber
<1>3. i \in 1..n /\ i - 1 \notin missing
  BY <1>2
<1>4. QED
  BY <1>2, <1>3

(* f is what step makes of start, n times. *)
Iterates(f, n, S, start, step) ==
  /\ f \in [0..n -> S] /\ f[0] = start
  /\ \A i \in 1..n : f[i] = step[i][f[i-1]]

(* Recursion up to n: a value for 0 and a step from each value to the next
   determine a function. *)
LEMMA RecursionUpTo ==
  ASSUME NEW n \in Nat, NEW S, NEW start \in S, NEW step \in [1..n -> [S -> S]]
  PROVE  \E f : Iterates(f, n, S, start, step)
<1> DEFINE From(m) == \E f : Iterates(f, m, S, start, step)
           T == {m \in 0..n : From(m)}
<1>1. 0 \in T
  <2> DEFINE f == [i \in 0..0 |-> start]
  <2>1. Iterates(f, 0, S, start, step)
    BY DEF Iterates
  <2> HIDE DEF f
  <2>2. QED
    BY <2>1
<1>2. ASSUME NEW m \in 1..n, m - 1 \in T PROVE m \in T
  <2>1. PICK f : Iterates(f, m - 1, S, start, step)
    BY <1>2
  <2> DEFINE g == [i \in 0..m |-> IF i = m THEN step[m][f[m-1]] ELSE f[i]]
  <2>2. f[m-1] \in S /\ step[m][f[m-1]] \in S
    BY <2>1 DEF Iterates
  <2>3. g \in [0..m -> S] /\ g[0] = start
    BY <2>1, <2>2 DEF Iterates
  <2>4. ASSUME NEW i \in 1..m PROVE g[i] = step[i][g[i-1]]
    <3>1. i \in 0..m /\ i - 1 \in 0..m /\ i - 1 # m
      OBVIOUS
    <3>2. g[i-1] = f[i-1]
      BY <3>1
    <3>3. CASE i = m
      BY <3>1, <3>2, <3>3
    <3>4. CASE i # m
      <4>1. i \in 1..(m-1) /\ g[i] = f[i]
        BY <3>1, <3>4
      <4>2. QED
        BY <2>1, <3>2, <4>1 DEF Iterates
    <3>5. QED
      BY <3>3, <3>4
  <2>5. Iterates(g, m, S, start, step)
    BY <2>3, <2>4 DEF Iterates
  <2> HIDE DEF g
  <2>6. QED
    BY <2>5
<1>3. n \in T
  <2> HIDE DEF T
  <2>1. \A m \in 0..n : m \in T
    BY <1>1, <1>2, InductionUpTo
  <2>2. QED
    BY <2>1
<1>4. QED
  BY <1>3
=============================================================================
