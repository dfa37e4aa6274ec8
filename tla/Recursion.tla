------------------------------ MODULE Recursion ------------------------------
(***************************************************************************)
(* Facts about natural numbers and finite sets that the proofs about       *)
(* recursive definitions rest on.  The induction theorems of the library   *)
(* take a predicate as a parameter, which the provers cannot instantiate;  *)
(* here the predicate is a set and a recursive definition is a function,   *)
(* so that each fact can be cited like any other.                          *)
(***************************************************************************)
EXTENDS Naturals, FiniteSetTheorems, TLAPS

-----------------------------------------------------------------------------
(* Induction.                                                              *)

\* A set of numbers has a least element: the initial segments of its elements
\* are finite sets, and these are well founded by inclusion.
LEMMA LeastNumber ==
    ASSUME NEW T \in SUBSET Nat, T # {}
    PROVE  \E x \in T : \A y \in T : x <= y
<1> DEFINE F == {1 .. n : n \in T}
<1>1. F \subseteq FiniteSubsetsOf(Nat)
  BY FS_Interval DEF FiniteSubsetsOf
<1>2. F # {}
  OBVIOUS
<1> HIDE DEF F
<1>3. PICK m \in F : \A y \in F : <<y, m>> \notin StrictSubsetOrdering(Nat)
  BY <1>1, <1>2, WFMin, FS_StrictSubsetOrderingWellFounded
<1>4. PICK x \in T : m = 1 .. x
  BY <1>3 DEF F
<1>5. ASSUME NEW y \in T, y < x PROVE FALSE
  <2>1. 1 .. y \in F /\ 1 .. y \subseteq m /\ m \subseteq Nat /\ x \in m /\ x \notin 1 .. y
    BY <1>4, <1>5 DEF F
  <2>2. <<1 .. y, m>> \in StrictSubsetOrdering(Nat)
    BY <2>1, <1>4 DEF StrictSubsetOrdering
  <2> QED
    BY <2>1, <2>2, <1>3
<1> QED
  BY <1>4, <1>5

\* Induction: a set that holds 0 and every successor holds every number.
LEMMA Induction ==
    ASSUME NEW T, 0 \in T, \A n \in Nat : n \in T => n + 1 \in T
    PROVE  Nat \subseteq T
<1>1. SUFFICES ASSUME Nat \ T # {} PROVE FALSE
  OBVIOUS
<1>2. PICK x \in Nat \ T : \A y \in Nat \ T : x <= y
  BY <1>1, LeastNumber
<1>3. x # 0 /\ x - 1 \in Nat /\ x - 1 \notin Nat \ T
  BY <1>2
<1>4. (x - 1) + 1 \in T
  BY <1>3
<1> QED
  BY <1>2, <1>3, <1>4

\* A finite set of numbers that is not empty has a greatest element.
LEMMA GreatestNumber ==
    ASSUME NEW T \in SUBSET Nat, T # {}, NEW b \in Nat, \A x \in T : x <= b
    PROVE  \E x \in T : \A y \in T : y <= x
<1> DEFINE U == {n \in Nat : \A y \in T : y <= n}
<1>1. U \in SUBSET Nat /\ b \in U
  OBVIOUS
<1> HIDE DEF U
<1>2. PICK m \in U : \A y \in U : m <= y
  BY <1>1, LeastNumber
<1>3. m \in Nat /\ \A y \in T : y <= m
  BY <1>2 DEF U
<1>4. ASSUME m \notin T PROVE FALSE
  <2>1. m # 0
    <3>1. PICK t \in T : TRUE
      OBVIOUS
    <3>2. t \in Nat /\ t <= m /\ t # m
      BY <3>1, <1>3, <1>4
    <3> QED
      BY <3>2, <1>3
  <2>2. m - 1 \in U
    BY <1>3, <1>4, <2>1 DEF U
  <2> QED
    BY <2>2, <1>2, <1>3
<1> QED
  BY <1>3, <1>4

-----------------------------------------------------------------------------
(* Recursive definitions.                                                  *)

\* Values that satisfy a recursion up to n: D[i] computes the value at i from
\* the values before it.
Follows(D, f, n) == \A i \in 0 .. n : f[i] = D[i][f]

\* D[i] looks only at the values before i.
LooksBack(D, S) ==
    /\ D \in [Nat -> [[Nat -> S] -> S]]
    /\ \A n \in Nat : \A f, g \in [Nat -> S] :
          (\A i \in 0 .. n - 1 : f[i] = g[i]) => D[n][f] = D[n][g]

\* Two solutions agree as far as both go.
LEMMA SolutionsAgree ==
    ASSUME NEW S, NEW D, LooksBack(D, S), NEW n \in Nat,
           NEW f \in [Nat -> S], NEW g \in [Nat -> S], Follows(D, f, n), Follows(D, g, n)
    PROVE  \A i \in 0 .. n : f[i] = g[i]
<1>1. SUFFICES ASSUME {i \in 0 .. n : f[i] # g[i]} # {} PROVE FALSE
  OBVIOUS
<1> DEFINE T == {i \in 0 .. n : f[i] # g[i]}
<1>2. T \in SUBSET Nat /\ T # {}
  BY <1>1
<1>3. PICK m \in T : \A j \in T : m <= j
  BY <1>2, LeastNumber
<1>4. m \in Nat /\ m \in 0 .. n /\ \A i \in 0 .. m - 1 : i \in 0 .. n /\ i \notin T
  BY <1>3
<1>5. D[m][f] = D[m][g]
  BY <1>4 DEF LooksBack
<1> QED
  BY <1>3, <1>4, <1>5 DEF Follows

\* A recursion has a solution.
LEMMA RecursionExists ==
    ASSUME NEW S, NEW D, LooksBack(D, S), S # {}
    PROVE  \E f \in [Nat -> S] : \A n \in Nat : f[n] = D[n][f]
<1> DEFINE T == {n \in Nat : \E f \in [Nat -> S] : Follows(D, f, n)}
<1>0. \A n \in Nat : \A f \in [Nat -> S] : D[n][f] \in S
  BY DEF LooksBack
<1>1. ASSUME NEW n \in Nat, NEW f \in [Nat -> S], \A i \in 0 .. n - 1 : f[i] = D[i][f]
      PROVE  \E g \in [Nat -> S] : Follows(D, g, n)
  <2> DEFINE g == [f EXCEPT ![n] = D[n][f]]
  <2>1. g \in [Nat -> S] /\ g[n] = D[n][f] /\ \A i \in Nat : i # n => g[i] = f[i]
    BY <1>0
  <2>2. ASSUME NEW i \in 0 .. n PROVE D[i][g] = D[i][f]
    <3> HIDE DEF g
    <3>1. i \in Nat /\ \A k \in 0 .. i - 1 : k \in Nat /\ k # n
      OBVIOUS
    <3>2. \A k \in 0 .. i - 1 : g[k] = f[k]
      BY <2>1, <3>1
    <3> QED
      BY <2>1, <3>1, <3>2 DEF LooksBack
  <2> HIDE DEF g
  <2>3. \A i \in 0 .. n : i # n => i \in 0 .. n - 1 /\ i \in Nat
    OBVIOUS
  <2>4. Follows(D, g, n)
    BY <2>1, <2>2, <2>3, <1>1 DEF Follows
  <2> QED
    BY <2>1, <2>4
<1>2. 0 \in T
  <2>1. PICK s \in S : TRUE
    OBVIOUS
  <2> DEFINE f == [i \in Nat |-> s]
  <2>2. f \in [Nat -> S] /\ 0 \in Nat /\ \A i \in 0 .. 0 - 1 : f[i] = D[i][f]
    OBVIOUS
  <2> HIDE DEF f
  <2>3. \E g \in [Nat -> S] : Follows(D, g, 0)
    BY <1>1, <2>2
  <2> QED
    BY <2>3
<1>3. ASSUME NEW n \in Nat, n \in T PROVE n + 1 \in T
  <2>1. PICK f \in [Nat -> S] : Follows(D, f, n)
    BY <1>3
  <2>2. n + 1 \in Nat /\ 0 .. (n + 1) - 1 = 0 .. n
    OBVIOUS
  <2>3. \A i \in 0 .. (n + 1) - 1 : f[i] = D[i][f]
    BY <2>1, <2>2 DEF Follows
  <2> QED
    BY <1>1, <2>2, <2>3
<1> HIDE DEF T
<1>4. \A n \in Nat : n \in T
  BY <1>2, <1>3, Induction
<1> DEFINE Upto(n) == CHOOSE f \in [Nat -> S] : Follows(D, f, n)
<1>5. \A n \in Nat : Upto(n) \in [Nat -> S] /\ Follows(D, Upto(n), n)
  BY <1>4 DEF T
<1> DEFINE h == [n \in Nat |-> Upto(n)[n]]
<1> HIDE DEF Upto
<1>6. h \in [Nat -> S]
  BY <1>5
<1>7. ASSUME NEW n \in Nat PROVE h[n] = D[n][h]
  <2>1. ASSUME NEW i \in 0 .. n - 1 PROVE h[i] = Upto(n)[i]
    <3>1. i \in Nat /\ i \in 0 .. i /\ \A j \in 0 .. i : j \in 0 .. n
      OBVIOUS
    <3>2. Follows(D, Upto(n), i)
      BY <3>1, <1>5 DEF Follows
    <3>3. Upto(i)[i] = Upto(n)[i]
      BY <3>1, <3>2, <1>5, SolutionsAgree
    <3> QED
      BY <3>1, <3>3
  <2>2. D[n][h] = D[n][Upto(n)]
    BY <2>1, <1>5, <1>6 DEF LooksBack
  <2>3. n \in 0 .. n
    OBVIOUS
  <2> QED
    BY <2>2, <2>3, <1>5 DEF Follows
<1> QED
  BY <1>6, <1>7

\* The case in which a value depends on the one before it alone.
Steps(step, S) == step \in [Nat -> [S -> S]]

LEMMA IterationExists ==
    ASSUME NEW S, NEW a \in S, NEW step, Steps(step, S)
    PROVE  \E f \in [Nat -> S] : /\ f[0] = a
                                 /\ \A n \in Nat : f[n + 1] = step[n][f[n]]
<1> DEFINE D == [n \in Nat |-> [f \in [Nat -> S] |-> IF n = 0 THEN a ELSE step[n - 1][f[n - 1]]]]
<1>1. \A n \in Nat \ {0} : n - 1 \in Nat /\ n - 1 \in 0 .. n - 1
  OBVIOUS
<1>2. D \in [Nat -> [[Nat -> S] -> S]]
  <2>1. ASSUME NEW n \in Nat, NEW f \in [Nat -> S]
        PROVE  (IF n = 0 THEN a ELSE step[n - 1][f[n - 1]]) \in S
    <3>1. CASE n = 0
      BY <3>1
    <3>2. CASE n # 0
      <4>1. f[n - 1] \in S /\ step[n - 1] \in [S -> S]
        BY <3>2, <1>1 DEF Steps
      <4> QED
        BY <3>2, <4>1
    <3> QED
      BY <3>1, <3>2
  <2> QED
    BY <2>1
<1>3. ASSUME NEW n \in Nat, NEW f \in [Nat -> S], NEW g \in [Nat -> S],
             \A i \in 0 .. n - 1 : f[i] = g[i]
      PROVE  D[n][f] = D[n][g]
  BY <1>1, <1>3
<1>4. LooksBack(D, S)
  BY <1>2, <1>3 DEF LooksBack
<1>5. PICK f \in [Nat -> S] : \A n \in Nat : f[n] = D[n][f]
  <2> HIDE DEF D
  <2> QED
    BY <1>4, RecursionExists
<1>6. f[0] = a
  BY <1>5
<1>7. ASSUME NEW n \in Nat PROVE f[n + 1] = step[n][f[n]]
  <2>1. n + 1 \in Nat /\ n + 1 # 0 /\ (n + 1) - 1 = n
    OBVIOUS
  <2>2. D[n + 1][f] = step[n][f[n]]
    BY <2>1
  <2> QED
    BY <1>5, <2>1, <2>2
<1> QED
  BY <1>6, <1>7

=============================================================================
