------------------------------ MODULE FoldFacts ------------------------------
(***************************************************************************)
(* What a fold over a list keeps.  FoldLeft takes its step as an operator, *)
(* and the induction theorems of the library take their invariant as one,  *)
(* which no prover here can instantiate.  In this module both are          *)
(* constants: whoever needs the fact about a step and an invariant makes   *)
(* an instance of the module with these two, and cites its FoldKeeps.      *)
(* p stands for whatever else the step depends on.                         *)
(***************************************************************************)
EXTENDS Integers, Folds, WellFoundedInduction, TLAPS

CONSTANTS
  Step(_, _, _),   \* p, the value so far, the next element -> the next value
  Good(_, _, _)    \* p, the number of elements folded, the value so far

Max(X) == CHOOSE x \in X : \A y \in X : x >= y

\* FoldLeft of a.Step(p, a, r), spelled out: an instance then carries little else.
Fold(p, b, s) ==
  MapThenFoldSet(LAMBDA r, a : Step(p, a, r), b, LAMBDA i : s[i], LAMBDA X : Max(X), DOMAIN s)

-------------------------------------------------------------------------------
(* Induction over the naturals, for a set instead of a predicate.          *)

Below == {p \in Nat \X Nat : p[1] < p[2]}

\* The strict order of the naturals as a set of pairs.
LEMMA BelowWellFounded == IsWellFoundedOn(Below, Nat)
<1>1. OpToRel(<, Nat) = Below
  BY DEF OpToRel, Below
<1> QED
  BY <1>1, NatLessThanWellFounded

\* A nonempty set of naturals has a least member.
LEMMA LeastOf ==
  ASSUME NEW T \in SUBSET Nat, T # {}
  PROVE  \E n \in T : \A m \in T : n <= m
<1>1. PICK n \in T : \A m \in T : ~(<<m, n>> \in Below)
  BY BelowWellFounded, WFMin, Zenon
<1>2. ASSUME NEW m \in T PROVE n <= m
  <2>1. m \in Nat /\ n \in Nat /\ <<m, n>> \in Nat \X Nat
    OBVIOUS
  <2>2. m < n => <<m, n>> \in Below
    BY <2>1 DEF Below
  <2> QED
    BY <1>1, <2>1, <2>2
<1> QED
  BY <1>2

\* A set that has 0 and the successor of each of its members has all naturals.
LEMMA Induction ==
  ASSUME NEW T, 0 \in T, \A n \in Nat : n \in T => n + 1 \in T
  PROVE  Nat \subseteq T
<1> SUFFICES ASSUME Nat \ T # {} PROVE FALSE
  OBVIOUS
<1>1. PICK n \in Nat \ T : \A m \in Nat \ T : n <= m
  BY LeastOf
<1>2. n # 0 /\ n - 1 \in Nat /\ n - 1 \in T
  BY <1>1
<1> QED
  BY <1>1, <1>2

-------------------------------------------------------------------------------
(* The function that FoldLeft chooses.                                     *)

\* g is the recursive function by which a fold over n elements is defined.
Folded(g, p, b, s, n) ==
  g = [X \in SUBSET (1..n) |-> IF X = {} THEN b ELSE Step(p, g[X \ {Max(X)}], s[Max(X)])]

\* The fold takes the positions from the last one on.
LEMMA MaxOfTop ==
  ASSUME NEW n \in Nat, NEW X \in SUBSET (1..(n + 1)), n + 1 \in X
  PROVE  Max(X) = n + 1
<1> DEFINE P(x) == x \in X /\ \A y \in X : x >= y
<1>1. P(n + 1)
  OBVIOUS
<1>2. \A x : P(x) => x = n + 1
  OBVIOUS
<1>3. Max(X) = CHOOSE x : P(x)
  BY DEF Max
<1> HIDE DEF P
<1> QED
  BY <1>1, <1>2, <1>3

\* The recursion has a solution.
LEMMA FoldExists ==
  ASSUME NEW p, NEW s, NEW b
  PROVE  \A n \in Nat : \E g : Folded(g, p, b, s, n)
<1> DEFINE T == {n \in Nat : \E g : Folded(g, p, b, s, n)}
<1>1. 0 \in T
  <2> DEFINE g == [X \in SUBSET (1..0) |-> b]
  <2>1. SUBSET (1..0) = {{}}
    OBVIOUS
  <2>2. Folded(g, p, b, s, 0)
    BY <2>1 DEF Folded
  <2> QED BY <2>2
<1>2. ASSUME NEW n \in Nat, n \in T PROVE n + 1 \in T
  <2>1. PICK g : Folded(g, p, b, s, n)
    BY <1>2
  <2> DEFINE h == [X \in SUBSET (1..(n + 1)) |-> IF n + 1 \in X THEN Step(p, g[X \ {n + 1}], s[n + 1]) ELSE g[X]]
  <2>2. ASSUME NEW X \in SUBSET (1..(n + 1))
        PROVE  h[X] = IF X = {} THEN b ELSE Step(p, h[X \ {Max(X)}], s[Max(X)])
    <3>1. CASE n + 1 \in X
      <4>1. Max(X) = n + 1
        BY <3>1, MaxOfTop
      <4>2. h[X \ {n + 1}] = g[X \ {n + 1}]
        OBVIOUS
      <4> QED
        BY <3>1, <4>1, <4>2
    <3>2. CASE n + 1 \notin X
      <4>1. X \in SUBSET (1..n)
        BY <3>2
      <4>2. h[X] = g[X]
        BY <3>2
      <4>3. g[X] = IF X = {} THEN b ELSE Step(p, g[X \ {Max(X)}], s[Max(X)])
        BY <4>1, <2>1 DEF Folded
      <4>4. h[X \ {Max(X)}] = g[X \ {Max(X)}]
        BY <3>2
      <4> QED
        BY <4>2, <4>3, <4>4
    <3> QED
      BY <3>1, <3>2
  <2>3. Folded(h, p, b, s, n + 1)
    <3> HIDE DEF h
    <3>1. h = [X \in SUBSET (1..(n + 1)) |-> h[X]]
      BY DEF h
    <3> QED
      BY <2>2, <3>1 DEF Folded
  <2> QED BY <2>3
<1>3. Nat \subseteq T
  <2> HIDE DEF T
  <2> QED BY <1>1, <1>2, Induction
<1> QED BY <1>3

\* The fold is the value of a solution at all positions.
LEMMA FoldIs ==
  ASSUME NEW p, NEW s, NEW b, NEW n \in Nat, DOMAIN s = 1..n
  PROVE  \E g : Folded(g, p, b, s, n) /\ Fold(p, b, s) = g[1..n]
<1> DEFINE g == CHOOSE h : Folded(h, p, b, s, n)
<1>1. Folded(g, p, b, s, n)
  BY FoldExists
<1>2. Fold(p, b, s) = g[1..n]
  BY DEF Fold, MapThenFoldSet, Folded
<1> QED BY <1>1, <1>2

\* What holds of the base, and of the next value whenever it holds of the value so
\* far, holds of the fold.
THEOREM FoldKeeps ==
  ASSUME NEW p, NEW s, NEW b, NEW n \in Nat, DOMAIN s = 1..n, Good(p, 0, b),
         \A i \in 0..(n - 1) : \A a : Good(p, i, a) => Good(p, i + 1, Step(p, a, s[i + 1]))
  PROVE  Good(p, n, Fold(p, b, s))
<1>1. PICK g : Folded(g, p, b, s, n) /\ Fold(p, b, s) = g[1..n]
  BY FoldIs
<1> DEFINE T == {m \in Nat : m <= n => Good(p, m, g[1..m])}
<1>2. 0 \in T
  <2>1. g[{}] = b /\ 1..0 = {}
    BY <1>1 DEF Folded
  <2> QED
    BY <2>1
<1>3. ASSUME NEW m \in Nat, m \in T PROVE m + 1 \in T
  <2> SUFFICES ASSUME m + 1 <= n PROVE Good(p, m + 1, g[1..(m + 1)])
    OBVIOUS
  <2>1. 1..(m + 1) \in SUBSET (1..n) /\ m + 1 \in 1..(m + 1) /\ (1..(m + 1)) \ {m + 1} = 1..m
    OBVIOUS
  <2>2. Max(1..(m + 1)) = m + 1
    BY MaxOfTop
  <2>3. g[1..(m + 1)] = Step(p, g[1..m], s[m + 1])
    BY <1>1, <2>1, <2>2 DEF Folded
  <2>4. Good(p, m, g[1..m]) /\ m \in 0..(n - 1)
    BY <1>3
  <2> QED
    BY <2>3, <2>4
<1>4. n \in T
  <2> HIDE DEF T
  <2> QED BY <1>2, <1>3, Induction
<1> QED BY <1>1, <1>4
=============================================================================
