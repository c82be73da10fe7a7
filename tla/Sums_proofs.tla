----------------------------- MODULE Sums_proofs -----------------------------
(***************************************************************************)
(* Facts about sums over finite sets, for the proofs about the modules     *)
(* that add up rewards and advantages.  The library's induction theorems   *)
(* take an operator and cannot be instantiated here, so every induction    *)
(* is an argument about a smallest counterexample.                         *)
(***************************************************************************)
EXTENDS Sums, FiniteSetTheorems, TLAPS

-----------------------------------------------------------------------------
(***************************************************************************)
(* The defining equation.                                                  *)
(***************************************************************************)
\* Of some subsets of a finite set, one has no other of them inside it.
LEMMA SmallestSubset ==
  ASSUME NEW S, IsFiniteSet(S), NEW B \in SUBSET SUBSET S, B # {}
  PROVE  \E T \in B : \A U \in B : U \subseteq T => U = T
<1>1. IsWellFoundedOn(StrictSubsetOrdering(S), SUBSET S)
  BY FS_StrictSubsetOrderingWellFounded, FS_FiniteSubsetsOfFinite
<1>2. PICK T \in B : \A U \in B : ~(<<U, T>> \in StrictSubsetOrdering(S))
  BY <1>1, WFMin, Zenon
<1>3. \A U \in B : U \subseteq T => U = T
  BY <1>2 DEF StrictSubsetOrdering
<1> QED
  BY <1>3

\* A set of numbers has a least one.
LEMMA LeastElement ==
  ASSUME NEW S \in SUBSET Nat, S # {}
  PROVE  \E n \in S : \A m \in S : n <= m
<1>1. PICK k \in S : TRUE
  OBVIOUS
<1> DEFINE I == 0..k
           B == {T \in SUBSET I : \E j \in S : T = 0..j}
<1>2. PICK T \in B : \A U \in B : U \subseteq T => U = T
  <2>1. B \in SUBSET SUBSET I /\ I \in B
    OBVIOUS
  <2>2. IsFiniteSet(I)
    BY FS_Interval
  <2> HIDE DEF B, I
  <2> QED
    BY <2>1, <2>2, SmallestSubset
<1>3. PICK n \in S : T = 0..n
  OBVIOUS
<1>4. ASSUME NEW m \in S PROVE n <= m
  <2> SUFFICES ASSUME m < n PROVE FALSE
    OBVIOUS
  <2>1. n \in 0..k
    BY <1>2, <1>3
  <2>2. 0..m \in B /\ 0..m \subseteq T
    BY <1>3, <2>1
  <2>3. n \in T /\ n \notin 0..m
    BY <1>3
  <2> HIDE DEF B
  <2> QED
    BY <1>2, <2>2, <2>3
<1> QED
  BY <1>4

\* The element that a fold takes next.
Next1(s) == CHOOSE x \in s : TRUE

\* What a fold makes of s once it has the values g of the smaller sets.
Step(g, f, s) == IF s = {} THEN 0 ELSE f[Next1(s)] + g[s \ {Next1(s)}]

\* g adds up f over every subset of S, taking one element after the other.
Adds(g, f, S) == g = [s \in SUBSET S |-> Step(g, f, s)]

LEMMA SumIsChosen ==
  ASSUME NEW f, NEW S
  PROVE  Sum(f, S) = (CHOOSE g : Adds(g, f, S))[S]
BY DEF Sum, MapThenSumSet, MapThenFoldSet, Adds, Step, Next1

LEMMA AddsStep ==
  ASSUME NEW f, NEW S, NEW g, Adds(g, f, S), NEW s \in SUBSET S
  PROVE  /\ s = {} => g[s] = 0
         /\ s # {} => /\ Next1(s) \in s
                      /\ g[s] = f[Next1(s)] + g[s \ {Next1(s)}]
<1>1. g[s] = Step(g, f, s)
  BY DEF Adds
<1>2. s # {} => Next1(s) \in s
  BY DEF Next1
<1> QED
  BY <1>1, <1>2 DEF Step

\* Two such functions agree wherever both are defined.
LEMMA AddsAgree ==
  ASSUME NEW f, NEW S, NEW T \in SUBSET S, IsFiniteSet(T), NEW g, NEW h,
         Adds(g, f, S), Adds(h, f, T)
  PROVE  \A s \in SUBSET T : g[s] = h[s]
<1> DEFINE B == {s \in SUBSET T : g[s] # h[s]}
<1> SUFFICES ASSUME B # {} PROVE FALSE
  OBVIOUS
<1>1. PICK s \in B : \A u \in B : u \subseteq s => u = s
  <2>1. B \in SUBSET SUBSET T
    OBVIOUS
  <2> HIDE DEF B
  <2> QED
    BY <2>1, SmallestSubset
<1>2. s \in SUBSET T /\ s \in SUBSET S /\ g[s] # h[s]
  OBVIOUS
<1>3. CASE s = {}
  BY <1>2, <1>3, AddsStep
<1>4. CASE s # {}
  <2> DEFINE r == s \ {Next1(s)}
  <2>1. Next1(s) \in s
    BY <1>4 DEF Next1
  <2>2. g[r] = h[r]
    BY <1>1, <2>1
  <2>3. g[s] = f[Next1(s)] + g[r] /\ h[s] = f[Next1(s)] + h[r]
    BY <1>2, <1>4, AddsStep
  <2> QED
    BY <1>2, <2>2, <2>3
<1> QED
  BY <1>3, <1>4

LEMMA AddsExists ==
  ASSUME NEW f, NEW S, IsFiniteSet(S)
  PROVE  \E g : Adds(g, f, S)
<1> DEFINE B == {T \in SUBSET S : ~\E g : Adds(g, f, T)}
<1> SUFFICES ASSUME B # {} PROVE FALSE
  BY S \in SUBSET S
<1>1. PICK T \in B : \A U \in B : U \subseteq T => U = T
  <2>1. B \in SUBSET SUBSET S
    OBVIOUS
  <2> HIDE DEF B
  <2> QED
    BY <2>1, SmallestSubset
<1> DEFINE all(s) == CHOOSE g : Adds(g, f, s)
           val == [s \in SUBSET T |-> all(s)[s]]
           big == [s \in SUBSET T |-> Step(val, f, s)]
<1>2. ASSUME NEW s \in SUBSET T, s # T PROVE Adds(all(s), f, s)
  <2>1. \E g : Adds(g, f, s)
    BY <1>1, <1>2
  <2> QED
    BY <2>1
<1> HIDE DEF all
<1>3. ASSUME NEW s \in SUBSET T, s # T PROVE val[s] = big[s]
  <2>1. Adds(all(s), f, s) /\ s \in SUBSET s
    BY <1>2, <1>3
  <2>2. CASE s = {}
    BY <2>1, <2>2, AddsStep DEF Step
  <2>3. CASE s # {}
    <3> DEFINE r == s \ {Next1(s)}
    <3>1. Next1(s) \in s /\ r \in SUBSET s /\ r \in SUBSET T /\ r # T
      BY <1>3, <2>3 DEF Next1
    <3>2. Adds(all(r), f, r)
      BY <1>2, <3>1
    <3>3. IsFiniteSet(r) /\ r \in SUBSET r
      BY <3>1, FS_Subset
    <3>4. all(s)[r] = all(r)[r]
      <4> HIDE DEF r
      <4> QED
        BY <2>1, <3>1, <3>2, <3>3, AddsAgree
    <3>5. all(s)[s] = f[Next1(s)] + all(s)[r]
      BY <2>1, <2>3, AddsStep
    <3>6. val[s] = f[Next1(s)] + val[r]
      BY <3>1, <3>4, <3>5
    <3> QED
      BY <2>3, <3>6 DEF Step
  <2> QED
    BY <2>2, <2>3
<1>4. Adds(big, f, T)
  <2>1. \A s \in SUBSET T : s # {} =>
          /\ s \ {Next1(s)} \in SUBSET T
          /\ s \ {Next1(s)} # T
    BY DEF Next1
  <2> HIDE DEF val, big
  <2>2. \A s \in SUBSET T : Step(val, f, s) = Step(big, f, s)
    BY <1>3, <2>1 DEF Step
  <2> QED
    BY <2>2 DEF Adds, big
<1> QED
  BY <1>1, <1>4

\* A sum is that of one element fewer, and that element.
LEMMA SumStep ==
  ASSUME NEW f, NEW S, IsFiniteSet(S)
  PROVE  /\ Sum(f, {}) = 0
         /\ S # {} => /\ Next1(S) \in S
                      /\ Sum(f, S) = f[Next1(S)] + Sum(f, S \ {Next1(S)})
<1> DEFINE all(s) == CHOOSE g : Adds(g, f, s)
<1>1. ASSUME NEW s \in SUBSET S PROVE Adds(all(s), f, s)
  <2>1. \E g : Adds(g, f, s)
    BY AddsExists, FS_Subset
  <2> QED
    BY <2>1
<1>2. \A s : Sum(f, s) = all(s)[s]
  BY SumIsChosen
<1> HIDE DEF all
<1>3. Sum(f, {}) = 0
  <2>1. Adds(all({}), f, {}) /\ {} \in SUBSET {}
    BY <1>1
  <2>2. all({})[{}] = 0
    BY <2>1, AddsStep
  <2> QED
    BY <1>2, <2>2
<1>4. ASSUME S # {}
      PROVE  /\ Next1(S) \in S
             /\ Sum(f, S) = f[Next1(S)] + Sum(f, S \ {Next1(S)})
  <2> DEFINE r == S \ {Next1(S)}
  <2>1. Next1(S) \in S /\ r \in SUBSET S /\ r \in SUBSET r /\ IsFiniteSet(r)
    BY <1>4, FS_Subset DEF Next1
  <2>2. Adds(all(S), f, S) /\ Adds(all(r), f, r)
    BY <1>1, <2>1
  <2>3. all(S)[r] = all(r)[r]
    <3> HIDE DEF r
    <3> QED
      BY <2>1, <2>2, AddsAgree
  <2>4. all(S)[S] = f[Next1(S)] + all(S)[r]
    BY <1>4, <2>2, AddsStep
  <2> QED
    BY <1>2, <2>1, <2>3, <2>4
<1> QED
  BY <1>3, <1>4

-----------------------------------------------------------------------------
(***************************************************************************)
(* What follows from it.                                                   *)
(***************************************************************************)
LEMMA SumEmpty == ASSUME NEW f PROVE Sum(f, {}) = 0
BY FS_EmptySet, SumStep

\* Sums of integers are integers ...
LEMMA SumInt ==
  ASSUME NEW f, NEW S, IsFiniteSet(S), \A x \in S : f[x] \in Int
  PROVE  Sum(f, S) \in Int
<1> DEFINE B == {T \in SUBSET S : Sum(f, T) \notin Int}
<1> SUFFICES ASSUME B # {} PROVE FALSE
  BY S \in SUBSET S
<1>1. PICK T \in B : \A U \in B : U \subseteq T => U = T
  <2>1. B \in SUBSET SUBSET S
    OBVIOUS
  <2> HIDE DEF B
  <2> QED
    BY <2>1, SmallestSubset
<1>2. IsFiniteSet(T)
  BY FS_Subset
<1>3. T # {}
  BY SumEmpty
<1>4. Next1(T) \in T /\ Sum(f, T) = f[Next1(T)] + Sum(f, T \ {Next1(T)})
  BY <1>2, <1>3, SumStep
<1>5. Sum(f, T \ {Next1(T)}) \in Int
  BY <1>1, <1>4
<1> QED
  BY <1>4, <1>5

\* ... and every element may be taken first.
LEMMA SumRemove ==
  ASSUME NEW f, NEW S, IsFiniteSet(S), \A x \in S : f[x] \in Int
  PROVE  \A x \in S : Sum(f, S) = f[x] + Sum(f, S \ {x})
<1> DEFINE Wrong(T) == \E x \in T : Sum(f, T) # f[x] + Sum(f, T \ {x})
           B == {T \in SUBSET S : Wrong(T)}
<1> SUFFICES ASSUME B # {} PROVE FALSE
  BY S \in SUBSET S
<1>1. PICK T \in B : \A U \in B : U \subseteq T => U = T
  <2>1. B \in SUBSET SUBSET S
    OBVIOUS
  <2> HIDE DEF B
  <2> QED
    BY <2>1, SmallestSubset
<1>2. T \in SUBSET S /\ IsFiniteSet(T)
  BY FS_Subset
<1>3. PICK x \in T : Sum(f, T) # f[x] + Sum(f, T \ {x})
  OBVIOUS
<1> DEFINE p == Next1(T)
<1>4. p \in T /\ Sum(f, T) = f[p] + Sum(f, T \ {p})
  BY <1>2, SumStep
<1>5. p # x
  BY <1>3, <1>4
<1> HIDE DEF p
<1>6. ~Wrong(T \ {p}) /\ ~Wrong(T \ {x})
  <2>1. /\ T \ {p} \in SUBSET S /\ T \ {p} \subseteq T /\ T \ {p} # T
        /\ T \ {x} \in SUBSET S /\ T \ {x} \subseteq T /\ T \ {x} # T
    BY <1>4
  <2> HIDE DEF Wrong
  <2> QED
    BY <1>1, <2>1
<1>7. Sum(f, T \ {p}) = f[x] + Sum(f, (T \ {p}) \ {x})
  BY <1>5, <1>6
<1>8. Sum(f, T \ {x}) = f[p] + Sum(f, (T \ {x}) \ {p})
  BY <1>4, <1>5, <1>6
<1>9. (T \ {p}) \ {x} = (T \ {x}) \ {p}
  OBVIOUS
<1>10. Sum(f, (T \ {x}) \ {p}) \in Int /\ f[x] \in Int /\ f[p] \in Int
  <2>1. (T \ {x}) \ {p} \in SUBSET S
    BY <1>2
  <2>2. IsFiniteSet((T \ {x}) \ {p})
    BY <2>1, FS_Subset
  <2>3. Sum(f, (T \ {x}) \ {p}) \in Int
    BY <2>1, <2>2, SumInt
  <2> QED
    BY <1>2, <1>4, <2>3
<1> DEFINE C == Sum(f, (T \ {x}) \ {p})
<1>11. Sum(f, T \ {p}) = f[x] + C /\ Sum(f, T \ {x}) = f[p] + C
  BY <1>7, <1>8, <1>9
<1>12. Sum(f, T) = f[p] + (f[x] + C) /\ Sum(f, T) # f[x] + (f[p] + C)
  BY <1>3, <1>4, <1>11
<1> QED
  BY <1>10, <1>12

LEMMA SumAdd ==
  ASSUME NEW f, NEW S, IsFiniteSet(S), NEW x, x \notin S,
         \A y \in S \union {x} : f[y] \in Int
  PROVE  Sum(f, S \union {x}) = f[x] + Sum(f, S)
<1>1. IsFiniteSet(S \union {x})
  BY FS_AddElement
<1>2. (S \union {x}) \ {x} = S
  OBVIOUS
<1> QED
  BY <1>1, <1>2, SumRemove

\* A sum over a set with one element is that element's.
LEMMA SumSingleton ==
  ASSUME NEW f, NEW x, f[x] \in Int
  PROVE  Sum(f, {x}) = f[x]
<1>1. {x} = {} \union {x}
  OBVIOUS
<1> QED
  BY <1>1, FS_EmptySet, SumAdd, SumEmpty

\* Sums are compared term by term.
LEMMA SumMonotonic ==
  ASSUME NEW f, NEW g, NEW S, IsFiniteSet(S),
         \A x \in S : f[x] \in Int /\ g[x] \in Int /\ f[x] <= g[x]
  PROVE  Sum(f, S) <= Sum(g, S)
<1> DEFINE B == {T \in SUBSET S : ~(Sum(f, T) <= Sum(g, T))}
<1> SUFFICES ASSUME B # {} PROVE FALSE
  BY S \in SUBSET S
<1>1. PICK T \in B : \A U \in B : U \subseteq T => U = T
  <2>1. B \in SUBSET SUBSET S
    OBVIOUS
  <2> HIDE DEF B
  <2> QED
    BY <2>1, SmallestSubset
<1>2. T # {}
  BY SumEmpty
<1>3. PICK x \in T : TRUE
  BY <1>2
<1>4. T \in SUBSET S /\ IsFiniteSet(T) /\ T \ {x} \in SUBSET S /\ IsFiniteSet(T \ {x})
  BY FS_Subset
<1>5. /\ Sum(f, T) = f[x] + Sum(f, T \ {x})
      /\ Sum(g, T) = g[x] + Sum(g, T \ {x})
  BY <1>3, <1>4, SumRemove
<1>6. Sum(f, T \ {x}) <= Sum(g, T \ {x})
  BY <1>1, <1>3, <1>4
<1>7. Sum(f, T \ {x}) \in Int /\ Sum(g, T \ {x}) \in Int
  BY <1>4, SumInt
<1> QED
  BY <1>3, <1>4, <1>5, <1>6, <1>7

\* One smaller term makes a smaller sum.
LEMMA SumDecreases ==
  ASSUME NEW f, NEW g, NEW S, IsFiniteSet(S), NEW x \in S, g[x] < f[x],
         \A y \in S : f[y] \in Int /\ g[y] \in Int /\ g[y] <= f[y]
  PROVE  Sum(g, S) < Sum(f, S)
<1>1. IsFiniteSet(S \ {x}) /\ \A y \in S \ {x} : y \in S
  BY FS_RemoveElement
<1>2. Sum(g, S \ {x}) <= Sum(f, S \ {x})
  BY <1>1, SumMonotonic
<1>3. /\ Sum(f, S) = f[x] + Sum(f, S \ {x})
      /\ Sum(g, S) = g[x] + Sum(g, S \ {x})
  BY SumRemove
<1>4. Sum(f, S \ {x}) \in Int /\ Sum(g, S \ {x}) \in Int
  BY <1>1, SumInt
<1> QED
  BY <1>2, <1>3, <1>4

LEMMA SumSame ==
  ASSUME NEW f, NEW g, NEW S, IsFiniteSet(S),
         \A x \in S : f[x] \in Int /\ f[x] = g[x]
  PROVE  Sum(f, S) = Sum(g, S)
<1>1. Sum(f, S) <= Sum(g, S) /\ Sum(g, S) <= Sum(f, S)
  BY SumMonotonic
<1>2. Sum(f, S) \in Int /\ Sum(g, S) \in Int
  BY SumInt
<1> QED
  BY <1>1, <1>2

\* No term negative, no sum negative.
LEMMA SumNat ==
  ASSUME NEW f, NEW S, IsFiniteSet(S), \A x \in S : f[x] \in Nat
  PROVE  Sum(f, S) \in Nat
<1> DEFINE B == {T \in SUBSET S : Sum(f, T) \notin Nat}
<1> SUFFICES ASSUME B # {} PROVE FALSE
  BY S \in SUBSET S
<1>1. PICK T \in B : \A U \in B : U \subseteq T => U = T
  <2>1. B \in SUBSET SUBSET S
    OBVIOUS
  <2> HIDE DEF B
  <2> QED
    BY <2>1, SmallestSubset
<1>2. T # {}
  BY SumEmpty
<1>3. PICK x \in T : TRUE
  BY <1>2
<1>4. T \in SUBSET S /\ IsFiniteSet(T)
  BY FS_Subset
<1>5. Sum(f, T) = f[x] + Sum(f, T \ {x})
  BY <1>3, <1>4, SumRemove
<1>6. Sum(f, T \ {x}) \in Nat
  BY <1>1, <1>3, <1>4
<1> QED
  BY <1>3, <1>4, <1>5, <1>6

-----------------------------------------------------------------------------
(***************************************************************************)
(* Sums of several parts.                                                  *)
(***************************************************************************)
LEMMA SumUnion ==
  ASSUME NEW f, NEW R, NEW S, IsFiniteSet(R), IsFiniteSet(S), R \cap S = {},
         \A x \in R \union S : f[x] \in Int
  PROVE  Sum(f, R \union S) = Sum(f, R) + Sum(f, S)
<1> DEFINE B == {T \in SUBSET S : Sum(f, R \union T) # Sum(f, R) + Sum(f, T)}
<1> SUFFICES ASSUME B # {} PROVE FALSE
  BY S \in SUBSET S
<1>1. PICK T \in B : \A U \in B : U \subseteq T => U = T
  <2>1. B \in SUBSET SUBSET S
    OBVIOUS
  <2> HIDE DEF B
  <2> QED
    BY <2>1, SmallestSubset
<1>2. T # {}
  <2>1. Sum(f, R) \in Int /\ Sum(f, {}) = 0 /\ R \union {} = R
    BY SumInt, SumEmpty
  <2>2. Sum(f, R \union {}) = Sum(f, R) + Sum(f, {})
    BY <2>1
  <2> QED
    BY <2>2
<1>3. PICK x \in T : TRUE
  BY <1>2
<1> DEFINE Q == T \ {x}
<1>4. /\ T \in SUBSET S /\ IsFiniteSet(T) /\ Q \in SUBSET S /\ IsFiniteSet(Q)
      /\ IsFiniteSet(R \union T) /\ x \in R \union T
  BY <1>3, FS_Subset, FS_Union
<1>5. Sum(f, T) = f[x] + Sum(f, Q)
  BY <1>3, <1>4, SumRemove
<1>6. Sum(f, R \union T) = f[x] + Sum(f, R \union Q)
  <2>1. (R \union T) \ {x} = R \union Q
    BY <1>3
  <2>2. \A y \in R \union T : f[y] \in Int
    BY <1>4
  <2>3. Sum(f, R \union T) = f[x] + Sum(f, (R \union T) \ {x})
    BY <1>4, <2>2, SumRemove
  <2> QED
    BY <2>1, <2>3
<1>7. Sum(f, R \union Q) = Sum(f, R) + Sum(f, Q)
  BY <1>1, <1>3, <1>4
<1>8. f[x] \in Int /\ Sum(f, R) \in Int /\ Sum(f, Q) \in Int
  BY <1>3, <1>4, SumInt
<1>9. Sum(f, R \union T) # Sum(f, R) + Sum(f, T)
  OBVIOUS
<1> HIDE DEF Q, B
<1> QED
  BY <1>5, <1>6, <1>7, <1>8, <1>9

\* A larger set adds no less, when no term is negative.
LEMMA SumSubset ==
  ASSUME NEW f, NEW S, IsFiniteSet(S), NEW R \in SUBSET S, \A x \in S : f[x] \in Nat
  PROVE  Sum(f, R) <= Sum(f, S)
<1>1. IsFiniteSet(R) /\ IsFiniteSet(S \ R) /\ R \cap (S \ R) = {} /\ R \union (S \ R) = S
  BY FS_Subset
<1>2. Sum(f, S) = Sum(f, R) + Sum(f, S \ R)
  BY <1>1, SumUnion
<1>3. Sum(f, R) \in Nat /\ Sum(f, S \ R) \in Nat
  BY <1>1, SumNat
<1> QED
  BY <1>2, <1>3

\* Term by term ...
LEMMA SumPlus ==
  ASSUME NEW f, NEW g, NEW h, NEW S, IsFiniteSet(S),
         \A x \in S : f[x] \in Int /\ g[x] \in Int /\ h[x] = f[x] + g[x]
  PROVE  Sum(h, S) = Sum(f, S) + Sum(g, S)
<1> DEFINE B == {T \in SUBSET S : Sum(h, T) # Sum(f, T) + Sum(g, T)}
<1> SUFFICES ASSUME B # {} PROVE FALSE
  BY S \in SUBSET S
<1>1. PICK T \in B : \A U \in B : U \subseteq T => U = T
  <2>1. B \in SUBSET SUBSET S
    OBVIOUS
  <2> HIDE DEF B
  <2> QED
    BY <2>1, SmallestSubset
<1>2. T # {}
  <2>1. Sum(h, {}) = 0 /\ Sum(f, {}) = 0 /\ Sum(g, {}) = 0
    BY SumEmpty
  <2>2. Sum(h, {}) = Sum(f, {}) + Sum(g, {})
    BY <2>1
  <2> QED
    BY <2>2
<1>3. PICK x \in T : TRUE
  BY <1>2
<1> DEFINE Q == T \ {x}
<1>4. T \in SUBSET S /\ IsFiniteSet(T) /\ Q \in SUBSET S /\ IsFiniteSet(Q)
  BY FS_Subset
<1>5. /\ Sum(f, T) = f[x] + Sum(f, Q) /\ Sum(g, T) = g[x] + Sum(g, Q)
      /\ Sum(h, T) = h[x] + Sum(h, Q)
  BY <1>3, <1>4, SumRemove
<1>6. Sum(h, Q) = Sum(f, Q) + Sum(g, Q)
  BY <1>1, <1>3, <1>4
<1>7. Sum(f, Q) \in Int /\ Sum(g, Q) \in Int
  BY <1>4, SumInt
<1>8. Sum(h, T) # Sum(f, T) + Sum(g, T) /\ x \in S
  BY <1>3
<1> HIDE DEF Q, B
<1> QED
  BY <1>5, <1>6, <1>7, <1>8

\* ... and with a common factor.
LEMMA SumTimes ==
  ASSUME NEW f, NEW h, NEW a \in Int, NEW S, IsFiniteSet(S),
         \A x \in S : f[x] \in Int /\ h[x] = a * f[x]
  PROVE  Sum(h, S) = a * Sum(f, S)
<1> DEFINE B == {T \in SUBSET S : Sum(h, T) # a * Sum(f, T)}
<1> SUFFICES ASSUME B # {} PROVE FALSE
  BY S \in SUBSET S
<1>1. PICK T \in B : \A U \in B : U \subseteq T => U = T
  <2>1. B \in SUBSET SUBSET S
    OBVIOUS
  <2> HIDE DEF B
  <2> QED
    BY <2>1, SmallestSubset
<1>2. T # {}
  <2>1. Sum(h, {}) = 0 /\ Sum(f, {}) = 0
    BY SumEmpty
  <2>2. Sum(h, {}) = a * Sum(f, {})
    BY <2>1
  <2> QED
    BY <2>2
<1>3. PICK x \in T : TRUE
  BY <1>2
<1> DEFINE Q == T \ {x}
<1>4. T \in SUBSET S /\ IsFiniteSet(T) /\ Q \in SUBSET S /\ IsFiniteSet(Q)
  BY FS_Subset
<1>5. Sum(f, T) = f[x] + Sum(f, Q) /\ Sum(h, T) = h[x] + Sum(h, Q)
  BY <1>3, <1>4, SumRemove
<1>6. Sum(h, Q) = a * Sum(f, Q)
  BY <1>1, <1>3, <1>4
<1>7. Sum(f, Q) \in Int
  BY <1>4, SumInt
<1>8. Sum(h, T) # a * Sum(f, T) /\ x \in S
  BY <1>3
<1> HIDE DEF Q, B
<1>9. a * (f[x] + Sum(f, Q)) = a * f[x] + a * Sum(f, Q)
  BY <1>7, <1>8
<1> QED
  BY <1>5, <1>6, <1>7, <1>8, <1>9

LEMMA SumConstant ==
  ASSUME NEW h, NEW c \in Int, NEW S, IsFiniteSet(S), \A x \in S : h[x] = c
  PROVE  Sum(h, S) = Cardinality(S) * c
<1> DEFINE B == {T \in SUBSET S : Sum(h, T) # Cardinality(T) * c}
<1> SUFFICES ASSUME B # {} PROVE FALSE
  BY S \in SUBSET S
<1>1. PICK T \in B : \A U \in B : U \subseteq T => U = T
  <2>1. B \in SUBSET SUBSET S
    OBVIOUS
  <2> HIDE DEF B
  <2> QED
    BY <2>1, SmallestSubset
<1>2. T # {}
  BY SumEmpty, FS_EmptySet
<1>3. PICK x \in T : TRUE
  BY <1>2
<1> DEFINE Q == T \ {x}
<1>4. T \in SUBSET S /\ IsFiniteSet(T) /\ Q \in SUBSET S /\ IsFiniteSet(Q)
  BY FS_Subset
<1>5. Sum(h, T) = c + Sum(h, Q)
  BY <1>3, <1>4, SumRemove
<1>6. Sum(h, Q) = Cardinality(Q) * c
  BY <1>1, <1>3, <1>4
<1>7. Cardinality(Q) = Cardinality(T) - 1 /\ Cardinality(T) \in Nat
  BY <1>3, <1>4, FS_RemoveElement, FS_CardinalityType
<1>8. Sum(h, T) # Cardinality(T) * c
  BY <1>3
<1> HIDE DEF Q, B
<1>9. c + (Cardinality(T) - 1) * c = Cardinality(T) * c
  BY <1>7
<1> QED
  BY <1>5, <1>6, <1>7, <1>8, <1>9

\* The sum does not depend on how the terms are indexed.
LEMMA SumReindexed ==
  ASSUME NEW f, NEW h, NEW R, NEW S, IsFiniteSet(S), NEW b \in Bijection(S, R),
         \A x \in S : f[x] \in Int /\ h[b[x]] = f[x]
  PROVE  Sum(h, R) = Sum(f, S)
<1> DEFINE Im(T) == {b[x] : x \in T}
           B == {T \in SUBSET S : Sum(h, Im(T)) # Sum(f, T)}
<1>0. /\ b \in [S -> R]
      /\ \A x, y \in S : b[x] = b[y] => x = y
      /\ \A y \in R : \E x \in S : b[x] = y
  BY DEF Bijection, Injection, Surjection, IsInjective
<1>a. Im(S) = R
  BY <1>0
<1> SUFFICES ASSUME B # {} PROVE FALSE
  BY <1>a, S \in SUBSET S
<1>1. PICK T \in B : \A U \in B : U \subseteq T => U = T
  <2>1. B \in SUBSET SUBSET S
    OBVIOUS
  <2> HIDE DEF B
  <2> QED
    BY <2>1, SmallestSubset
<1>2. T # {}
  <2>1. Im({}) = {}
    OBVIOUS
  <2> QED
    BY <2>1, SumEmpty
<1>3. PICK x \in T : TRUE
  BY <1>2
<1> DEFINE Q == T \ {x}
<1>4. T \in SUBSET S /\ IsFiniteSet(T) /\ Q \in SUBSET S /\ IsFiniteSet(Q)
  BY FS_Subset
<1>5. Sum(f, T) = f[x] + Sum(f, Q)
  BY <1>3, <1>4, SumRemove
<1>6. Im(T) \ {b[x]} = Im(Q)
  BY <1>0, <1>3, <1>4
<1>7. IsFiniteSet(Im(T)) /\ b[x] \in Im(T) /\ \A y \in Im(T) : h[y] \in Int
  <2>1. IsFiniteSet(R)
    BY FS_Bijection DEF ExistsBijection
  <2>2. Im(T) \in SUBSET R
    BY <1>0, <1>4
  <2> QED
    BY <1>3, <1>4, <2>1, <2>2, FS_Subset
<1>8. Sum(h, Im(T)) = h[b[x]] + Sum(h, Im(Q))
  <2>1. Sum(h, Im(T)) = h[b[x]] + Sum(h, Im(T) \ {b[x]})
    <3> HIDE DEF Im
    <3> QED
      BY <1>7, SumRemove
  <2> QED
    BY <1>6, <2>1
<1>9. Sum(h, Im(Q)) = Sum(f, Q)
  <2>1. Q \notin B
    BY <1>1, <1>3
  <2> HIDE DEF Im, Q
  <2> QED
    BY <1>4, <2>1
<1>10. Sum(h, Im(T)) # Sum(f, T) /\ h[b[x]] = f[x]
  BY <1>3, <1>4
<1> HIDE DEF Q, B, Im
<1> QED
  BY <1>5, <1>8, <1>9, <1>10

\* Claims c[s] that share nothing: what they are worth one by one is no more
\* than what all of them are worth together.
LEMMA SumOfClaims ==
  ASSUME NEW w, NEW c, NEW r, NEW S, IsFiniteSet(S),
         \A s \in S : IsFiniteSet(c[s]),
         \A s \in S : \A x \in c[s] : w[x] \in Int,
         \A s \in S : r[s] \in Int /\ r[s] <= Sum(w, c[s]),
         \A s, u \in S : s # u => c[s] \cap c[u] = {}
  PROVE  Sum(r, S) <= Sum(w, UNION {c[s] : s \in S})
<1> DEFINE All(T) == UNION {c[s] : s \in T}
           B == {T \in SUBSET S : ~(Sum(r, T) <= Sum(w, All(T)))}
<1> SUFFICES ASSUME B # {} PROVE FALSE
  BY S \in SUBSET S
<1>1. PICK T \in B : \A U \in B : U \subseteq T => U = T
  <2>1. B \in SUBSET SUBSET S
    OBVIOUS
  <2> HIDE DEF B
  <2> QED
    BY <2>1, SmallestSubset
<1>2. T # {}
  <2>1. All({}) = {}
    OBVIOUS
  <2> QED
    BY <2>1, SumEmpty
<1>3. PICK x \in T : TRUE
  BY <1>2
<1> DEFINE Q == T \ {x}
<1>4. T \in SUBSET S /\ IsFiniteSet(T) /\ Q \in SUBSET S /\ IsFiniteSet(Q) /\ x \in S
  BY <1>3, FS_Subset
<1>5. Sum(r, T) = r[x] + Sum(r, Q)
  BY <1>3, <1>4, SumRemove
<1>6. /\ All(T) = All(Q) \union c[x] /\ All(Q) \cap c[x] = {}
      /\ \A y \in All(T) : w[y] \in Int
  BY <1>3, <1>4
<1>7. IsFiniteSet(All(Q))
  <2>1. IsFiniteSet({c[s] : s \in Q})
    <3>1. [s \in Q |-> c[s]] \in Surjection(Q, {c[s] : s \in Q})
      BY DEF Surjection
    <3> QED
      BY <1>4, <3>1, FS_Surjection
  <2>2. \A D \in {c[s] : s \in Q} : IsFiniteSet(D)
    BY <1>4
  <2> QED
    BY <2>1, <2>2, FS_UNION
<1>8. Sum(w, All(T)) = Sum(w, All(Q)) + Sum(w, c[x])
  <2> HIDE DEF All
  <2>1. \A y \in All(Q) \union c[x] : w[y] \in Int
    BY <1>6
  <2> QED
    BY <1>4, <1>6, <1>7, <2>1, SumUnion
<1>9. Sum(r, Q) <= Sum(w, All(Q))
  <2>1. Q \notin B
    BY <1>1, <1>3
  <2> HIDE DEF All, Q
  <2> QED
    BY <1>4, <2>1
<1>10. /\ Sum(r, Q) \in Int /\ Sum(w, All(Q)) \in Int /\ Sum(w, c[x]) \in Int
  <2>1. Sum(w, All(Q)) \in Int
    <3> HIDE DEF All
    <3> QED
      BY <1>6, <1>7, SumInt
  <2> QED
    BY <1>4, <2>1, SumInt
<1>11. ~(Sum(r, T) <= Sum(w, All(T))) /\ r[x] \in Int /\ r[x] <= Sum(w, c[x])
  BY <1>4
<1> HIDE DEF Q, B, All
<1> QED
  BY <1>5, <1>8, <1>9, <1>10, <1>11

\* Terms measured from their mean add up to nothing.
LEMMA SumCentred ==
  ASSUME NEW f, NEW h, NEW S, IsFiniteSet(S),
         \A x \in S : f[x] \in Int /\ h[x] = Cardinality(S) * f[x] - Sum(f, S)
  PROVE  Sum(h, S) = 0
<1>1. PICK n \in Int : n = Cardinality(S)
  BY FS_CardinalityType
<1>2. PICK total \in Int : total = Sum(f, S)
  BY SumInt
<1> DEFINE a == [x \in S |-> n * f[x]]
           c == [x \in S |-> - total]
<1>3. /\ \A x \in S : f[x] \in Int /\ a[x] = n * f[x]
      /\ \A x \in S : c[x] = - total
      /\ - total \in Int
  OBVIOUS
<1>4. \A x \in S : a[x] \in Int /\ c[x] \in Int /\ h[x] = a[x] + c[x]
  <2> SUFFICES ASSUME NEW x \in S PROVE a[x] \in Int /\ c[x] \in Int /\ h[x] = a[x] + c[x]
    OBVIOUS
  <2>1. PICK y \in Int : y = n * f[x]
    OBVIOUS
  <2> QED
    BY <1>1, <1>2, <2>1
<1> HIDE DEF a, c
<1>5. Sum(a, S) = n * total
  BY <1>2, <1>3, SumTimes
<1>6. Sum(c, S) = n * (- total)
  BY <1>1, <1>3, SumConstant
<1>7. Sum(h, S) = Sum(a, S) + Sum(c, S)
  BY <1>4, SumPlus
<1> QED
  BY <1>5, <1>6, <1>7

-----------------------------------------------------------------------------
(***************************************************************************)
(* Functions computed from the last index of an interval down to the       *)
(* first, as the loops over steps and tokens of the estimators do.         *)
(***************************************************************************)
\* The indices of such a loop.
Span(m, n) == m..n

LEMMA DownwardInduction ==
  ASSUME NEW m \in Int, NEW n \in Int, m <= n, NEW A, n \in A,
         \A j \in Span(m, n) : j # n /\ j + 1 \in A => j \in A
  PROVE  Span(m, n) \subseteq A
<1> USE DEF Span
<1> DEFINE B == {T \in SUBSET (m..n) : \E j \in m..n : j \notin A /\ T = j..n}
<1> SUFFICES ASSUME NEW k \in m..n, k \notin A PROVE FALSE
  OBVIOUS
<1>1. PICK T \in B : \A U \in B : U \subseteq T => U = T
  <2> DEFINE I == m..n
  <2>1. B \in SUBSET SUBSET I
    OBVIOUS
  <2>2. k..n \in B
    OBVIOUS
  <2>3. IsFiniteSet(I)
    BY FS_Interval
  <2> HIDE DEF B, I
  <2> QED
    BY <2>1, <2>2, <2>3, SmallestSubset
<1>2. PICK j \in m..n : j \notin A /\ T = j..n
  OBVIOUS
<1>3. j # n /\ j + 1 \in m..n /\ j + 1 \notin A
  BY <1>2
<1>4. (j + 1)..n \in B /\ (j + 1)..n \subseteq T /\ j \in T /\ j \notin (j + 1)..n
  BY <1>2, <1>3
<1> HIDE DEF B
<1> QED
  BY <1>1, <1>4

LEMMA UpwardInduction ==
  ASSUME NEW m \in Int, NEW n \in Int, m <= n, NEW A, m \in A,
         \A j \in Span(m, n) : j # n /\ j \in A => j + 1 \in A
  PROVE  Span(m, n) \subseteq A
<1> USE DEF Span
<1> DEFINE B == {j \in m..n : m + (n - j) \in A}
<1>1. n \in B
  BY m + (n - n) = m
<1>2. ASSUME NEW j \in m..n, j # n, j + 1 \in B
      PROVE  j \in B
  <2>1. m + (n - (j + 1)) \in m..n /\ m + (n - (j + 1)) # n /\ m + (n - (j + 1)) \in A
    BY <1>2
  <2>2. (m + (n - (j + 1))) + 1 = m + (n - j)
    OBVIOUS
  <2> QED
    BY <2>1, <2>2
<1>3. Span(m, n) \subseteq B
  <2> HIDE DEF B
  <2> QED
    BY <1>1, <1>2, DownwardInduction
<1>4. ASSUME NEW j \in m..n PROVE j \in A
  <2>1. m + (n - j) \in B /\ m + (n - (m + (n - j))) = j
    BY <1>3
  <2> QED
    BY <2>1
<1> QED
  BY <1>4

\* F[j] says what j makes of the value at j + 1; z is the value at the last index.
Rounds(F, m, n) == F \in [Span(m, n) -> [Int -> Int]]

Backward(g, F, z, m, n) ==
  /\ g \in [Span(m, n) -> Int]
  /\ \A j \in Span(m, n) : g[j] = IF j = n THEN z ELSE F[j][g[j + 1]]

\* Such a function exists.
LEMMA BackwardExists ==
  ASSUME NEW m \in Int, NEW n \in Int, m <= n, NEW z \in Int,
         NEW F, Rounds(F, m, n)
  PROVE  \E g : Backward(g, F, z, m, n)
<1> USE DEF Span, Rounds
<1> DEFINE A == {j \in m..n : \E g \in [j..n -> Int] :
                    \A i \in j..n : g[i] = IF i = n THEN z ELSE F[i][g[i + 1]]}
<1>1. n \in A
  <2> DEFINE g == [i \in n..n |-> z]
  <2>1. g \in [n..n -> Int] /\ g[n] = z /\ n \in m..n /\ \A i \in n..n : i = n
    OBVIOUS
  <2> HIDE DEF g
  <2> QED
    BY <2>1
<1>2. ASSUME NEW j \in m..n, j # n, j + 1 \in A
      PROVE  j \in A
  <2>1. PICK g \in [(j + 1)..n -> Int] :
          \A i \in (j + 1)..n : g[i] = IF i = n THEN z ELSE F[i][g[i + 1]]
    BY <1>2
  <2> DEFINE h == [i \in j..n |-> IF i = j THEN F[j][g[j + 1]] ELSE g[i]]
  <2>2. F[j][g[j + 1]] \in Int
    <3>1. g[j + 1] \in Int
      BY <1>2, <2>1
    <3> QED
      BY <3>1
  <2>3. h \in [j..n -> Int]
    <3> SUFFICES ASSUME NEW i \in j..n PROVE h[i] \in Int
      OBVIOUS
    <3> QED
      BY <2>2, i # j => i \in (j + 1)..n
  <2>4. \A i \in (j + 1)..n : h[i] = g[i]
    OBVIOUS
  <2>5. h[j] = F[j][h[j + 1]]
    BY <1>2, <2>4
  <2>6. ASSUME NEW i \in j..n PROVE h[i] = IF i = n THEN z ELSE F[i][h[i + 1]]
    <3> HIDE DEF h
    <3>1. i # j => i \in (j + 1)..n /\ (i # n => i + 1 \in (j + 1)..n)
      OBVIOUS
    <3> QED
      BY <1>2, <2>1, <2>4, <2>5, <3>1
  <2> HIDE DEF h
  <2> QED
    BY <2>3, <2>6
<1>3. m \in A
  <2> HIDE DEF A
  <2>1. \A j \in Span(m, n) : j # n /\ j + 1 \in A => j \in A
    BY <1>2
  <2>2. Span(m, n) \subseteq A
    <3> HIDE DEF Span
    <3> QED
      BY <1>1, <2>1, DownwardInduction
  <2> QED
    BY <2>2
<1>4. PICK g \in [m..n -> Int] : \A j \in m..n : g[j] = IF j = n THEN z ELSE F[j][g[j + 1]]
  BY <1>3
<1> QED
  BY <1>4 DEF Backward

\* And it has integer values only.
LEMMA BackwardType ==
  ASSUME NEW m \in Int, NEW n \in Int, m <= n, NEW g, g[n] \in Int,
         \A j \in Span(m, n) : j # n /\ g[j + 1] \in Int => g[j] \in Int
  PROVE  \A j \in Span(m, n) : g[j] \in Int
<1> DEFINE A == {j \in Span(m, n) : g[j] \in Int}
<1>1. n \in A /\ \A j \in Span(m, n) : j # n /\ j + 1 \in A => j \in A
  BY DEF Span
<1> HIDE DEF A
<1>2. Span(m, n) \subseteq A
  BY <1>1, DownwardInduction
<1> QED
  BY <1>2 DEF A
=============================================================================
