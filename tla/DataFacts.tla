------------------------------ MODULE DataFacts ------------------------------
(***************************************************************************)
(* Facts about natural numbers, sequences and functions defined by         *)
(* recursion, for the modules that reason about names and files.           *)
(*                                                                         *)
(* Induction is stated about a set of numbers, never about a predicate:    *)
(* an induction hypothesis is the set of the numbers that satisfy it.      *)
(***************************************************************************)
EXTENDS Integers, SequencesExt, SequenceTheorems, WellFoundedInduction, TLAPS

-----------------------------------------------------------------------------
(* Induction                                                               *)

\* A set of numbers that is not empty has a smallest element.
LEMMA SmallestNumber ==
    ASSUME NEW S, S \subseteq Nat, S # {}
    PROVE  \E x \in S : \A y \in S : x <= y
<1> DEFINE R == OpToRel(<, Nat)
<1>1. IsWellFoundedOn(R, Nat)
  BY NatLessThanWellFounded
<1>2. PICK x \in S : \A y \in S : ~ (<<y, x>> \in R)
  <2> HIDE DEF R
  <2> QED BY <1>1, WFMin
<1>3. ASSUME NEW y \in S PROVE x <= y
  <2>1. x \in Nat /\ y \in Nat
    OBVIOUS
  <2>2. y < x => <<y, x>> \in R
    BY <2>1 DEF OpToRel
  <2>3. ~ (y < x)
    BY <1>2, <2>2
  <2> QED BY <2>1, <2>3
<1> QED BY <1>3

Inductive(n, S) == 0 \in S /\ \A i \in 1..n : i - 1 \in S => i \in S

\* A set that is closed under the successor up to n holds the numbers up to n.
LEMMA IntervalInduction ==
    ASSUME NEW n \in Nat, NEW S, Inductive(n, S)
    PROVE  0..n \subseteq S
<1> DEFINE T == {i \in 0..n : i \notin S}
<1>1. SUFFICES ASSUME T # {} PROVE FALSE
  OBVIOUS
<1>2. T \subseteq Nat
  OBVIOUS
<1>3. PICK x \in T : \A y \in T : x <= y
  <2> HIDE DEF T
  <2> QED BY <1>1, <1>2, SmallestNumber
<1>4. x \in 1..n
  BY DEF Inductive
<1>5. x - 1 \in S
  <2>1. x - 1 \in 0..n /\ ~ (x <= x - 1)
    BY <1>4
  <2> QED BY <1>3, <2>1
<1> QED BY <1>4, <1>5 DEF Inductive

\* A set that is closed under the predecessor from n on holds the numbers up to n.
LEMMA DownwardInduction ==
    ASSUME NEW n \in Nat, NEW S, n \in S, \A i \in 1..n : i \in S => i - 1 \in S
    PROVE  0..n \subseteq S
<1> DEFINE T == {i \in 0..n : n - i \in S}
<1>1. Inductive(n, T)
  <2>1. ASSUME NEW i \in 1..n, n - (i - 1) \in S PROVE n - i \in S
    <3>1. n - (i - 1) \in 1..n /\ (n - (i - 1)) - 1 = n - i
      OBVIOUS
    <3> QED BY <2>1, <3>1
  <2> QED BY <2>1 DEF Inductive
<1>2. 0..n \subseteq T
  <2> HIDE DEF T
  <2> QED BY <1>1, IntervalInduction
<1>3. ASSUME NEW k \in 0..n PROVE k \in S
  <2>1. n - k \in 0..n /\ n - (n - k) = k
    OBVIOUS
  <2> QED BY <1>2, <2>1
<1> QED BY <1>3

-----------------------------------------------------------------------------
(* Recursion                                                               *)

\* The functions from 0..n that begin with base and go on with step.
Recursions(n, X, base, step) ==
    {f \in [0..n -> X] :
        /\ f[0] = base
        /\ \A i \in 1..n : f[i] = step[i][f[i - 1]]}

LEMMA RecursionExists ==
    ASSUME NEW n \in Nat, NEW X, NEW base \in X, NEW step \in [1..n -> [X -> X]]
    PROVE  Recursions(n, X, base, step) # {}
<1> DEFINE T == {m \in 0..n : Recursions(m, X, base, step) # {}}
<1>1. 0 \in T
  <2>1. [i \in 0..0 |-> base] \in Recursions(0, X, base, step)
    BY DEF Recursions
  <2> QED BY <2>1
<1>2. ASSUME NEW m \in 1..n, m - 1 \in T PROVE m \in T
  <2>1. PICK f : f \in Recursions(m - 1, X, base, step)
    BY <1>2
  <2>2. /\ f \in [0..(m - 1) -> X] /\ f[0] = base
        /\ \A i \in 1..(m - 1) : f[i] = step[i][f[i - 1]]
    BY <2>1 DEF Recursions
  <2> DEFINE g == [i \in 0..m |-> IF i = m THEN step[m][f[m - 1]] ELSE f[i]]
  <2>3. step[m][f[m - 1]] \in X
    BY <2>2
  <2>4. g \in [0..m -> X] /\ g[0] = base
    BY <2>2, <2>3
  <2>5. ASSUME NEW i \in 1..m PROVE g[i] = step[i][g[i - 1]]
    <3>1. i \in 0..m /\ i - 1 \in 0..m /\ i - 1 # m
      OBVIOUS
    <3>2. CASE i = m
      BY <3>1, <3>2
    <3>3. CASE i # m
      <4>1. i \in 1..(m - 1)
        BY <3>3
      <4>2. g[i] = f[i] /\ g[i - 1] = f[i - 1]
        BY <3>1, <3>3
      <4> QED BY <2>2, <4>1, <4>2
    <3> QED BY <3>2, <3>3
  <2>6. g \in Recursions(m, X, base, step)
    BY <2>4, <2>5 DEF Recursions
  <2> QED BY <2>6
<1>3. Inductive(n, T)
  BY <1>1, <1>2 DEF Inductive
<1>4. 0..n \subseteq T
  <2> HIDE DEF T
  <2> QED BY <1>3, IntervalInduction
<1> QED BY <1>4

-----------------------------------------------------------------------------
(* Sequences                                                               *)

LEMMA ConcatAppend ==
    ASSUME NEW C, NEW s \in Seq(C), NEW q \in Seq(C), NEW c \in C
    PROVE  s \o q \in Seq(C) /\ s \o Append(q, c) = Append(s \o q, c)
<1>1. s \o q \in Seq(C)
  BY ConcatProperties
<1>2. <<c>> \in Seq(C)
  OBVIOUS
<1>3. (s \o q) \o <<c>> = s \o (q \o <<c>>)
  BY <1>2, ConcatAssociative
<1>4. Append(q, c) = q \o <<c>>
  BY AppendIsConcat
<1>5. Append(s \o q, c) = (s \o q) \o <<c>>
  <2> DEFINE t == s \o q
  <2> HIDE DEF t
  <2>1. t \in Seq(C)
    BY <1>1 DEF t
  <2>2. Append(t, c) = t \o <<c>>
    BY <2>1, AppendIsConcat
  <2> QED BY <2>2 DEF t
<1> QED BY <1>1, <1>3, <1>4, <1>5

-----------------------------------------------------------------------------
(* Extreme elements of a set of numbers, the Min and Max of FiniteSetsExt  *)

LEMMA MinProperties ==
    ASSUME NEW S, S \subseteq Nat, S # {}
    PROVE  Min(S) \in S /\ \A x \in S : Min(S) <= x
<1>1. \E x \in S : \A y \in S : x <= y
  BY SmallestNumber
<1> QED BY <1>1 DEF Min

LEMMA MaxProperties ==
    ASSUME NEW n \in Nat, NEW S, S \subseteq 0..n, S # {}
    PROVE  Max(S) \in S /\ \A x \in S : x <= Max(S)
<1> DEFINE T == {k \in 0..n : n - k \in S}
<1>1. T \subseteq Nat /\ T # {}
  <2>1. PICK x \in 0..n : x \in S
    OBVIOUS
  <2>2. n - x \in 0..n /\ n - (n - x) = x
    BY <2>1
  <2>3. n - x \in T
    BY <2>1, <2>2
  <2>4. T \subseteq Nat
    OBVIOUS
  <2> HIDE DEF T
  <2> QED BY <2>3, <2>4
<1>2. PICK t \in T : \A u \in T : t <= u
  <2> HIDE DEF T
  <2> QED BY <1>1, SmallestNumber
<1>3. n - t \in S
  BY <1>2
<1>4. ASSUME NEW y \in S PROVE n - t >= y
  <2>1. y \in 0..n
    BY <1>4
  <2>2. n - y \in 0..n /\ n - (n - y) = y
    BY <2>1
  <2>3. n - y \in T
    BY <1>4, <2>2
  <2>4. t <= n - y /\ t \in 0..n
    BY <1>2, <2>3
  <2> QED BY <2>1, <2>4
<1>5. \E m \in S : \A y \in S : m >= y
  BY <1>3, <1>4
<1>6. Max(S) \in S /\ \A y \in S : Max(S) >= y
  BY <1>5 DEF Max
<1> QED BY <1>6
=============================================================================
