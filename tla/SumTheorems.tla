---------------------------- MODULE SumTheorems -----------------------------
(***************************************************************************)
(* Facts about sums over finite sets (SumFunctionOnSet) and about walks of *)
(* a bounded number of steps, for the proofs of the modules that count     *)
(* blocks or descriptors.  Induction is on sets instead of predicates: the *)
(* sets for which a claim holds are collected in Good, and Good is shown   *)
(* to hold every set.                                                      *)
(***************************************************************************)
EXTENDS Functions, FiniteSetTheorems, TLAPS

\* A collection that holds a set once it holds every smaller one holds all.
LEMMA SubsetInduction ==
  ASSUME NEW S, IsFiniteSet(S), NEW Good,
         \A T \in SUBSET S : (\A U \in SUBSET T : U # T => U \in Good) => T \in Good
  PROVE  \A T \in SUBSET S : T \in Good
<1> DEFINE Bad == (SUBSET S) \ Good
<1>1. SUFFICES ASSUME Bad # {} PROVE FALSE
  OBVIOUS
<1>2. IsWellFoundedOn(StrictSubsetOrdering(S), SUBSET S)
  BY FS_StrictSubsetOrderingWellFounded, FS_FiniteSubsetsOfFinite
<1>3. PICK T \in Bad : \A U \in Bad : ~(<<U, T>> \in StrictSubsetOrdering(S))
  <2>1. Bad \subseteq SUBSET S
    OBVIOUS
  <2> HIDE DEF Bad
  <2> QED BY <1>1, <1>2, <2>1, WFMin
<1>4. ASSUME NEW U \in SUBSET T, U # T PROVE U \in Good
  <2>1. U \in SUBSET S /\ T \in SUBSET S
    BY <1>3
  <2>2. <<U, T>> \in StrictSubsetOrdering(S)
    BY <2>1, <1>4 DEF StrictSubsetOrdering
  <2> QED BY <2>1, <2>2, <1>3
<1> QED BY <1>3, <1>4

\* A set of numbers that holds 0, and the successor of each it holds, holds all.
LEMMA NumberInduction ==
  ASSUME NEW n \in Nat, NEW Good, 0 \in Good,
         \A k \in 0 .. n - 1 : k \in Good => k + 1 \in Good
  PROVE  \A k \in 0 .. n : k \in Good
<1> DEFINE Upto == {T \in SUBSET (0 .. n) : \A k \in 0 .. n : T = 0 .. k => k \in Good}
<1>1. IsFiniteSet(0 .. n)
  BY FS_Interval
<1>2. ASSUME NEW T \in SUBSET (0 .. n), \A U \in SUBSET T : U # T => U \in Upto
      PROVE  T \in Upto
  <2> SUFFICES ASSUME NEW k \in 0 .. n, T = 0 .. k PROVE k \in Good
    OBVIOUS
  <2>1. CASE k = 0
    BY <2>1
  <2>2. CASE k # 0
    <3>1. k - 1 \in 0 .. n - 1 /\ k - 1 \in 0 .. n
      BY <2>2
    <3>2. 0 .. k - 1 \in SUBSET T /\ 0 .. k - 1 # T
      <4>1. k \in T /\ k \notin 0 .. k - 1
        OBVIOUS
      <4> QED BY <4>1, <3>1
    <3>3. 0 .. k - 1 \in Upto
      BY <3>2, <1>2
    <3>4. k - 1 \in Good
      BY <3>1, <3>3
    <3> QED BY <3>1, <3>4
  <2> QED BY <2>1, <2>2
<1>3. \A T \in SUBSET (0 .. n) : T \in Upto
  <2> HIDE DEF Upto
  <2> QED BY <1>1, <1>2, SubsetInduction
<1>4. ASSUME NEW k \in 0 .. n PROVE k \in Good
  <2>1. 0 .. k \in SUBSET (0 .. n)
    OBVIOUS
  <2>2. 0 .. k \in Upto
    BY <2>1, <1>3
  <2> QED BY <2>2
<1> QED BY <1>4

\* A finite set of ranked elements has one of least rank.
LEMMA LeastRank ==
  ASSUME NEW R, IsFiniteSet(R), R # {}, NEW rank, \A a \in R : rank[a] \in Int
  PROVE  \E a \in R : \A b \in R : rank[a] <= rank[b]
<1> DEFINE Below(a) == {b \in R : rank[b] < rank[a]}
           Some(T) == \E a \in R : T = Below(a)
           Good == {T \in SUBSET R : Some(T) => \E a \in R : \A b \in R : rank[a] <= rank[b]}
<1>1. ASSUME NEW T \in SUBSET R, \A U \in SUBSET T : U # T => U \in Good
      PROVE  T \in Good
  <2> SUFFICES ASSUME NEW a \in R, T = Below(a)
               PROVE  \E c \in R : \A b \in R : rank[c] <= rank[b]
    OBVIOUS
  <2>1. CASE \A b \in R : ~(rank[b] < rank[a])
    BY <2>1
  <2>2. CASE \E b \in R : rank[b] < rank[a]
    <3>1. PICK b \in R : rank[b] < rank[a]
      BY <2>2
    <3>2. Below(b) \in SUBSET T
      BY <3>1
    <3>3. b \in T /\ b \notin Below(b)
      BY <3>1
    <3>4. Below(b) \in Good
      <4> HIDE DEF Below, Good
      <4> QED BY <3>2, <3>3, <1>1
    <3> QED BY <3>4
  <2> QED BY <2>1, <2>2
<1>2. \A T \in SUBSET R : T \in Good
  <2> HIDE DEF Good
  <2> QED BY <1>1, SubsetInduction
<1>3. PICK a \in R : TRUE
  OBVIOUS
<1>4. Below(a) \in Good
  BY <1>2
<1> QED BY <1>4
-----------------------------------------------------------------------------
(* Sums *)

\* The element the fold takes first, and what the function it recurs through is.
Picked(s) == CHOOSE x \in s : TRUE
Adds(g, f, S) ==
  g = [s \in SUBSET S |-> IF s = {} THEN 0 ELSE f[Picked(s)] + g[s \ {Picked(s)}]]

LEMMA SumIs ==
  ASSUME NEW f, NEW S
  PROVE  SumFunctionOnSet(f, S) = (CHOOSE g : Adds(g, f, S))[S]
BY DEF SumFunctionOnSet, FoldFunctionOnSet, MapThenFoldSet, Adds, Picked

LEMMA AddsStep ==
  ASSUME NEW g, NEW f, NEW S, Adds(g, f, S), NEW s \in SUBSET S
  PROVE  /\ s = {} => g[s] = 0
         /\ s # {} => /\ Picked(s) \in s /\ s \ {Picked(s)} \in SUBSET S
                      /\ s \ {Picked(s)} # s
                      /\ g[s] = f[Picked(s)] + g[s \ {Picked(s)}]
<1>1. g[s] = IF s = {} THEN 0 ELSE f[Picked(s)] + g[s \ {Picked(s)}]
  BY Zenon DEF Adds
<1>2. s # {} => Picked(s) \in s
  BY DEF Picked
<1> QED BY <1>1, <1>2

\* Two such functions agree wherever both are defined.
LEMMA AddsAgree ==
  ASSUME NEW f, NEW A, NEW B, NEW g, NEW h, Adds(g, f, A), Adds(h, f, B),
         NEW S, IsFiniteSet(S), S \in SUBSET A, S \in SUBSET B
  PROVE  g[S] = h[S]
<1> DEFINE Good == {s \in SUBSET S : g[s] = h[s]}
<1>1. ASSUME NEW T \in SUBSET S, \A U \in SUBSET T : U # T => U \in Good
      PROVE  T \in Good
  <2>1. T \in SUBSET A /\ T \in SUBSET B
    OBVIOUS
  <2>2. CASE T = {}
    BY <2>1, <2>2, AddsStep
  <2>3. CASE T # {}
    <3>1. /\ g[T] = f[Picked(T)] + g[T \ {Picked(T)}]
          /\ h[T] = f[Picked(T)] + h[T \ {Picked(T)}]
          /\ T \ {Picked(T)} # T
      BY <2>1, <2>3, AddsStep
    <3>2. T \ {Picked(T)} \in Good
      BY <3>1, <1>1
    <3> QED BY <3>1, <3>2
  <2> QED BY <2>2, <2>3
<1>2. \A T \in SUBSET S : T \in Good
  <2> HIDE DEF Good
  <2> QED BY <1>1, SubsetInduction
<1> QED BY <1>2

LEMMA AddsExists ==
  ASSUME NEW f, NEW S, IsFiniteSet(S)
  PROVE  \E g : Adds(g, f, S)
<1> DEFINE Good == {s \in SUBSET S : \E g : Adds(g, f, s)}
<1>1. ASSUME NEW T \in SUBSET S, \A U \in SUBSET T : U # T => U \in Good
      PROVE  T \in Good
  <2> DEFINE h(s) == CHOOSE g : Adds(g, f, s)
             p == Picked(T)
             g == [s \in SUBSET T |-> IF s = {} THEN 0
                                      ELSE f[Picked(s)] + h(s \ {Picked(s)})[s \ {Picked(s)}]]
  <2>1. ASSUME NEW U \in SUBSET T, U # T PROVE Adds(h(U), f, U)
    BY <1>1, <2>1
  <2>2. ASSUME NEW s \in SUBSET T, s # T PROVE g[s] = h(s)[s]
    <3>0. Adds(h(s), f, s) /\ s \in SUBSET s
      BY <2>1, <2>2
    <3> DEFINE q == Picked(s)
               r == s \ {q}
    <3>1. CASE s = {}
      <4>1. h(s)[s] = 0
        <5> HIDE DEF h
        <5> QED BY <3>0, <3>1, AddsStep
      <4> QED BY <3>1, <4>1
    <3>2. CASE s # {}
      <4>1. /\ h(s)[s] = f[q] + h(s)[r] /\ r \in SUBSET s /\ q \in s
        <5> HIDE DEF h
        <5> QED BY <3>0, <3>2, AddsStep
      <4>2. r \in SUBSET T /\ r # T /\ r \in SUBSET r
        BY <4>1
      <4>3. Adds(h(r), f, r)
        BY <4>2, <2>1
      <4>4. IsFiniteSet(r)
        BY <4>2, FS_Subset
      <4>5. h(s)[r] = h(r)[r]
        <5> HIDE DEF h, r
        <5> QED BY <3>0, <4>1, <4>2, <4>3, <4>4, AddsAgree
      <4>6. g[s] = f[q] + h(r)[r]
        BY <3>2
      <4> HIDE DEF g, h, q, r
      <4> QED BY <4>1, <4>5, <4>6
    <3> QED BY <3>1, <3>2
  <2>3. Adds(g, f, T)
    <3>1. ASSUME NEW s \in SUBSET T
          PROVE  g[s] = IF s = {} THEN 0 ELSE f[Picked(s)] + g[s \ {Picked(s)}]
      <4>1. CASE s = {}
        BY <4>1
      <4>2. CASE s # {}
        <5> DEFINE q == Picked(s)
                   r == s \ {q}
        <5>1. q \in s
          BY <4>2 DEF Picked
        <5>2. r \in SUBSET T /\ r # T
          BY <5>1
        <5>3. g[r] = h(r)[r]
          BY <5>2, <2>2
        <5>4. g[s] = f[q] + h(r)[r]
          BY <4>2
        <5> HIDE DEF g, h, q, r
        <5>5. g[s] = f[q] + g[r]
          BY <5>3, <5>4
        <5> QED BY <4>2, <5>5 DEF q, r
      <4> QED BY <4>1, <4>2
    <3>2. g = [s \in SUBSET T |-> g[s]]
      OBVIOUS
    <3>3. [s \in SUBSET T |-> g[s]]
            = [s \in SUBSET T |-> IF s = {} THEN 0 ELSE f[Picked(s)] + g[s \ {Picked(s)}]]
      <4> HIDE DEF g
      <4> QED BY <3>1
    <3> HIDE DEF g
    <3> QED BY <3>2, <3>3 DEF Adds
  <2> QED BY <2>3
<1>2. \A T \in SUBSET S : T \in Good
  <2> HIDE DEF Good
  <2> QED BY <1>1, SubsetInduction
<1> QED BY <1>2

\* The fold takes one element off, and sums the others.
LEMMA SumPicks ==
  ASSUME NEW f, NEW S, IsFiniteSet(S)
  PROVE  /\ S = {} => SumFunctionOnSet(f, S) = 0
         /\ S # {} => SumFunctionOnSet(f, S)
                        = f[Picked(S)] + SumFunctionOnSet(f, S \ {Picked(S)})
<1> DEFINE g(T) == CHOOSE h : Adds(h, f, T)
           R == S \ {Picked(S)}
<1>1. Adds(g(S), f, S) /\ Adds(g(R), f, R)
  <2>1. IsFiniteSet(R)
    BY FS_RemoveElement
  <2> QED BY <2>1, AddsExists
<1>2. SumFunctionOnSet(f, S) = g(S)[S] /\ SumFunctionOnSet(f, R) = g(R)[R]
  BY SumIs
<1>3. IsFiniteSet(R) /\ R \in SUBSET S /\ R \in SUBSET R
  BY FS_RemoveElement
<1> HIDE DEF g
<1>4. g(S)[R] = g(R)[R]
  BY <1>1, <1>3, AddsAgree
<1>5. S = {} => g(S)[S] = 0
  BY <1>1, AddsStep
<1>6. S # {} => g(S)[S] = f[Picked(S)] + g(S)[R]
  BY <1>1, AddsStep
<1> QED BY <1>2, <1>4, <1>5, <1>6

\* Sums of integers are integers, and sums of naturals naturals.
LEMMA SumType ==
  ASSUME NEW f, NEW S, IsFiniteSet(S), \A x \in S : f[x] \in Int
  PROVE  /\ SumFunctionOnSet(f, S) \in Int
         /\ (\A x \in S : f[x] \in Nat) => SumFunctionOnSet(f, S) \in Nat
<1> DEFINE Sum(T) == SumFunctionOnSet(f, T)
           Good == {T \in SUBSET S :
                      Sum(T) \in Int /\ ((\A x \in T : f[x] \in Nat) => Sum(T) \in Nat)}
<1>1. ASSUME NEW T \in SUBSET S, \A U \in SUBSET T : U # T => U \in Good
      PROVE  T \in Good
  <2>1. IsFiniteSet(T)
    BY FS_Subset
  <2>2. CASE T = {}
    <3>1. Sum(T) = 0
      BY <2>1, <2>2, SumPicks
    <3> HIDE DEF Sum
    <3> QED BY <3>1
  <2>3. CASE T # {}
    <3> DEFINE p == Picked(T)
    <3>1. p \in T
      BY <2>3 DEF Picked
    <3>2. Sum(T) = f[p] + Sum(T \ {p})
      BY <2>1, <2>3, SumPicks
    <3>3. T \ {p} \in Good
      <4> HIDE DEF Good, p
      <4> QED BY <3>1, <1>1
    <3> HIDE DEF p
    <3>4. f[p] \in Int /\ Sum(T \ {p}) \in Int
          /\ ((\A x \in T : f[x] \in Nat) => f[p] \in Nat /\ Sum(T \ {p}) \in Nat)
      BY <3>1, <3>3
    <3> HIDE DEF Sum
    <3> QED BY <3>2, <3>4
  <2> QED BY <2>2, <2>3
<1>2. \A T \in SUBSET S : T \in Good
  <2> HIDE DEF Good
  <2> QED BY <1>1, SubsetInduction
<1> QED BY <1>2

\* Any element may be taken off instead.
LEMMA SumTakes ==
  ASSUME NEW f, NEW S, IsFiniteSet(S), \A x \in S : f[x] \in Int, NEW y \in S
  PROVE  SumFunctionOnSet(f, S) = f[y] + SumFunctionOnSet(f, S \ {y})
<1> DEFINE Sum(T) == SumFunctionOnSet(f, T)
           Good == {T \in SUBSET S : \A x \in T : Sum(T) = f[x] + Sum(T \ {x})}
<1>1. ASSUME NEW T \in SUBSET S, \A U \in SUBSET T : U # T => U \in Good
      PROVE  T \in Good
  <2> SUFFICES ASSUME NEW x \in T PROVE Sum(T) = f[x] + Sum(T \ {x})
    OBVIOUS
  <2> DEFINE p == Picked(T)
  <2>0. p \in T
    BY DEF Picked
  <2>1. IsFiniteSet(T) /\ Sum(T) = f[p] + Sum(T \ {p})
    BY FS_Subset, SumPicks
  <2> HIDE DEF p
  <2>2. CASE x = p
    BY <2>1, <2>2
  <2>3. CASE x # p
    <3>1. T \ {p} \in Good /\ T \ {x} \in Good
      <4> HIDE DEF Good
      <4> QED BY <2>0, <1>1
    <3>2. (T \ {p}) \ {x} = (T \ {x}) \ {p}
      OBVIOUS
    <3>3. Sum(T \ {p}) = f[x] + Sum((T \ {p}) \ {x}) /\ Sum(T \ {x}) = f[p] + Sum((T \ {x}) \ {p})
      BY <2>0, <2>3, <3>1
    <3>4. Sum((T \ {p}) \ {x}) \in Int
      <4>1. IsFiniteSet((T \ {p}) \ {x})
        BY <2>1, FS_RemoveElement
      <4> QED BY <4>1, SumType
    <3>5. f[x] \in Int /\ f[p] \in Int
      BY <2>0
    <3>6. Sum((T \ {p}) \ {x}) = Sum((T \ {x}) \ {p})
      BY <3>2
    <3> HIDE DEF Sum
    <3> QED BY <2>1, <3>3, <3>4, <3>5, <3>6
  <2> QED BY <2>2, <2>3
<1>2. \A T \in SUBSET S : T \in Good
  <2> HIDE DEF Good
  <2> QED BY <1>1, SubsetInduction
<1> QED BY <1>2

\* An element is added.
LEMMA SumAdds ==
  ASSUME NEW f, NEW S, IsFiniteSet(S), NEW y, y \notin S, \A x \in S \cup {y} : f[x] \in Int
  PROVE  SumFunctionOnSet(f, S \cup {y}) = SumFunctionOnSet(f, S) + f[y]
<1>1. IsFiniteSet(S \cup {y}) /\ (S \cup {y}) \ {y} = S
  BY FS_AddElement
<1>2. SumFunctionOnSet(f, S \cup {y}) = f[y] + SumFunctionOnSet(f, S)
  BY <1>1, SumTakes
<1>3. SumFunctionOnSet(f, S) \in Int
  BY SumType
<1> QED BY <1>2, <1>3

\* A sum depends on the values at its elements alone.
LEMMA SumSame ==
  ASSUME NEW f, NEW g, NEW S, IsFiniteSet(S), \A x \in S : f[x] = g[x]
  PROVE  SumFunctionOnSet(f, S) = SumFunctionOnSet(g, S)
<1> DEFINE Good == {T \in SUBSET S : SumFunctionOnSet(f, T) = SumFunctionOnSet(g, T)}
<1>1. ASSUME NEW T \in SUBSET S, \A U \in SUBSET T : U # T => U \in Good
      PROVE  T \in Good
  <2>1. IsFiniteSet(T)
    BY FS_Subset
  <2>2. CASE T = {}
    BY <2>1, <2>2, SumPicks
  <2>3. CASE T # {}
    <3> DEFINE p == Picked(T)
    <3>1. p \in T
      BY <2>3 DEF Picked
    <3>2. /\ SumFunctionOnSet(f, T) = f[p] + SumFunctionOnSet(f, T \ {p})
          /\ SumFunctionOnSet(g, T) = g[p] + SumFunctionOnSet(g, T \ {p})
      BY <2>1, <2>3, SumPicks
    <3>3. T \ {p} \in Good
      <4> HIDE DEF Good, p
      <4> QED BY <3>1, <1>1
    <3> HIDE DEF p
    <3> QED BY <3>1, <3>2, <3>3
  <2> QED BY <2>2, <2>3
<1>2. \A T \in SUBSET S : T \in Good
  <2> HIDE DEF Good
  <2> QED BY <1>1, SubsetInduction
<1> QED BY <1>2

\* No element of a sum of naturals is larger than the sum.
LEMMA SumCovers ==
  ASSUME NEW f, NEW S, IsFiniteSet(S), \A x \in S : f[x] \in Nat, NEW y \in S
  PROVE  SumFunctionOnSet(f, S) \in Nat /\ f[y] <= SumFunctionOnSet(f, S)
<1>1. SumFunctionOnSet(f, S) = f[y] + SumFunctionOnSet(f, S \ {y})
  BY SumTakes
<1>2. IsFiniteSet(S \ {y})
  BY FS_RemoveElement
<1>3. SumFunctionOnSet(f, S \ {y}) \in Nat /\ SumFunctionOnSet(f, S) \in Nat
  BY <1>2, SumType
<1> QED BY <1>1, <1>3
-----------------------------------------------------------------------------
(* Walks *)

\* The walks of n steps from base.
Walks(n, D, base, step) ==
  {w \in [0 .. n -> D] : w[0] = base /\ \A k \in 1 .. n : w[k] = step[w[k - 1]]}

\* There is one, which stays where its steps lead.
LEMMA WalkExists ==
  ASSUME NEW n \in Nat, NEW D, NEW base \in D, NEW step \in [D -> D]
  PROVE  Walks(n, D, base, step) # {}
<1> DEFINE W(m) == {w \in [0 .. m -> D] :
                      w[0] = base /\ \A k \in 1 .. m : w[k] = step[w[k - 1]]}
           Good == {m \in 0 .. n : W(m) # {}}
<1>1. 0 \in Good
  <2>1. [k \in 0 .. 0 |-> base] \in W(0)
    OBVIOUS
  <2> QED BY <2>1
<1>2. ASSUME NEW m \in 0 .. n - 1, m \in Good PROVE m + 1 \in Good
  <2>1. PICK w \in W(m) : TRUE
    BY <1>2
  <2> DEFINE v == [k \in 0 .. m + 1 |-> IF k <= m THEN w[k] ELSE step[w[m]]]
  <2>2. w[m] \in D /\ \A k \in 0 .. m : w[k] \in D
    BY <2>1
  <2>3. v \in [0 .. m + 1 -> D]
    BY <2>2
  <2>4. v[0] = base
    BY <2>1
  <2>5. \A k \in 1 .. m + 1 : v[k] = step[v[k - 1]]
    <3> TAKE k \in 1 .. m + 1
    <3>1. CASE k <= m
      <4>1. k \in 1 .. m /\ k - 1 \in 0 .. m /\ k \in 0 .. m + 1 /\ k - 1 \in 0 .. m + 1 /\ k - 1 <= m
        BY <3>1
      <4>2. v[k] = w[k] /\ v[k - 1] = w[k - 1]
        BY <3>1, <4>1
      <4>3. w[k] = step[w[k - 1]]
        BY <2>1, <4>1
      <4> HIDE DEF v
      <4> QED BY <4>2, <4>3
    <3>2. CASE k = m + 1
      BY <3>2
    <3> QED BY <3>1, <3>2
  <2>6. v \in W(m + 1)
    <3> HIDE DEF v
    <3> QED BY <2>3, <2>4, <2>5
  <2> QED BY <2>6
<1>3. n \in Good
  <2> HIDE DEF Good
  <2> QED BY <1>1, <1>2, NumberInduction
<1> QED BY <1>3 DEF Walks

\* The same walk as a recursive function.
Iterations(n, D, base, step) ==
  {w \in [0 .. n -> D] : w = [k \in 0 .. n |-> IF k = 0 THEN base ELSE step[w[k - 1]]]}

LEMMA Iterates ==
  ASSUME NEW n \in Nat, NEW D, NEW base \in D, NEW step \in [D -> D]
  PROVE  Iterations(n, D, base, step) # {}
<1>3. PICK w : w \in Walks(n, D, base, step)
  <2>1. Walks(n, D, base, step) # {}
    BY WalkExists
  <2> QED BY <2>1
<1>4. /\ w \in [0 .. n -> D] /\ w[0] = base
      /\ \A k \in 1 .. n : w[k] = step[w[k - 1]]
  BY <1>3 DEF Walks
<1>5. w = [k \in 0 .. n |-> w[k]]
  BY <1>4
<1>6. [k \in 0 .. n |-> w[k]] = [k \in 0 .. n |-> IF k = 0 THEN base ELSE step[w[k - 1]]]
  <2>1. \A k \in 0 .. n : w[k] = IF k = 0 THEN base ELSE step[w[k - 1]]
    BY <1>4
  <2> QED BY <2>1
<1>7. w \in Iterations(n, D, base, step)
  BY <1>4, <1>5, <1>6 DEF Iterations
<1> QED BY <1>7
-----------------------------------------------------------------------------
(* Folds *)

\* The function that a fold over S computes: its value at a set is step's, taken
\* from the element picked of it, and from the value at the others.
Folds(g, base, step, pick, S) ==
  g = [T \in SUBSET S |-> IF T = {} THEN base ELSE step[pick[T]][g[T \ {pick[T]}]]]

\* Those of them that stay in X.
FoldsIn(X, base, step, pick, S) == {g \in [SUBSET S -> X] : Folds(g, base, step, pick, S)}

LEMMA FoldExists ==
  ASSUME NEW S, IsFiniteSet(S), NEW X, NEW base \in X, NEW step \in [S -> [X -> X]],
         NEW pick, \A T \in SUBSET S : T # {} => pick[T] \in T
  PROVE  FoldsIn(X, base, step, pick, S) # {}
<1> DEFINE D == [SUBSET S -> X]
           n == Cardinality(S) + 1
           Turn(g) == [T \in SUBSET S |->
                         IF T = {} THEN base ELSE step[pick[T]][g[T \ {pick[T]}]]]
           turn == [g \in D |-> Turn(g)]
           first == [T \in SUBSET S |-> base]
<1>1. Cardinality(S) \in Nat /\ n \in Nat
  BY FS_CardinalityType
<1>2. ASSUME NEW T \in SUBSET S
      PROVE  /\ IsFiniteSet(T) /\ Cardinality(T) \in Nat /\ Cardinality(T) < n
             /\ T # {} => /\ T \ {pick[T]} \in SUBSET S
                          /\ Cardinality(T \ {pick[T]}) = Cardinality(T) - 1
  <2>1. IsFiniteSet(T) /\ Cardinality(T) \in Nat /\ Cardinality(T) <= Cardinality(S)
    BY FS_Subset, FS_CardinalityType
  <2>2. T # {} => Cardinality(T \ {pick[T]}) = Cardinality(T) - 1
    BY <2>1, FS_RemoveElement
  <2> QED BY <1>1, <2>1, <2>2
<1>3. ASSUME NEW g \in D PROVE Turn(g) \in D
  <2>1. ASSUME NEW T \in SUBSET S, T # {} PROVE step[pick[T]][g[T \ {pick[T]}]] \in X
    <3>1. T \ {pick[T]} \in SUBSET S /\ pick[T] \in S
      BY <2>1
    <3>2. g[T \ {pick[T]}] \in X
      BY <3>1
    <3> QED BY <3>1, <3>2
  <2> QED BY <2>1
<1>4. turn \in [D -> D] /\ first \in D
  <2> HIDE DEF Turn, D
  <2>1. turn \in [D -> D]
    BY <1>3
  <2> QED BY <2>1 DEF D
<1>5. PICK w \in Walks(n, D, first, turn) : TRUE
  <2> HIDE DEF turn, first, D, n
  <2>1. Walks(n, D, first, turn) # {}
    BY <1>1, <1>4, WalkExists
  <2> QED BY <2>1
<1>6. ASSUME NEW k \in 1 .. n PROVE w[k] = Turn(w[k - 1]) /\ w[k - 1] \in D
  <2>1. k - 1 \in 0 .. n
    BY <1>1
  <2>2. w[k] = turn[w[k - 1]] /\ w[k - 1] \in D
    <3> HIDE DEF turn, first, D, n
    <3> QED BY <1>5, <2>1 DEF Walks
  <2> HIDE DEF D, Turn
  <2> QED BY <2>2
\* After k turns the value at a set of fewer than k elements is settled.
<1> DEFINE Settled(k) == \A T \in SUBSET S : Cardinality(T) < k => Turn(w[k])[T] = w[k][T]
           Good == {k \in 0 .. n : Settled(k)}
<1>7. 0 \in Good
  <2>1. Settled(0)
    <3>1. \A T \in SUBSET S : ~(Cardinality(T) < 0)
      <4> TAKE T \in SUBSET S
      <4>1. Cardinality(T) \in Nat
        BY <1>2
      <4> HIDE DEF n
      <4> QED BY <4>1
    <3> HIDE DEF n, Turn
    <3> QED BY <3>1
  <2> HIDE DEF Settled
  <2> QED BY <1>1, <2>1
<1>8. ASSUME NEW k \in 0 .. n - 1, k \in Good PROVE k + 1 \in Good
  <2>1. k + 1 \in 1 .. n /\ (k + 1) - 1 = k /\ k + 1 \in 0 .. n
    <3> HIDE DEF n
    <3> QED BY <1>1
  <2>2. w[k + 1] = Turn(w[k])
    <3> HIDE DEF Turn, D, n
    <3> QED BY <2>1, <1>6
  <2>3. Settled(k)
    BY <1>8
  <2>4. ASSUME NEW T \in SUBSET S, Cardinality(T) < k + 1
        PROVE  Turn(w[k + 1])[T] = w[k + 1][T]
    <3>1. CASE T = {}
      <4>1. Turn(w[k + 1])[T] = base /\ Turn(w[k])[T] = base
        BY <3>1
      <4> HIDE DEF Turn
      <4> QED BY <4>1, <2>2
    <3>2. CASE T # {}
      <4> DEFINE p == pick[T]
                 U == T \ {p}
      <4>1. U \in SUBSET S /\ Cardinality(U) < k
        <5>1. Cardinality(T) \in Nat /\ Cardinality(U) = Cardinality(T) - 1 /\ U \in SUBSET S
          <6> HIDE DEF n
          <6> QED BY <1>1, <1>2, <3>2
        <5> HIDE DEF U
        <5> QED BY <1>1, <5>1, <2>4
      <4>2. Turn(w[k])[U] = w[k][U]
        <5> HIDE DEF Turn, U
        <5> QED BY <2>3, <4>1
      <4>3. Turn(w[k + 1])[T] = step[p][w[k + 1][U]] /\ Turn(w[k])[T] = step[p][w[k][U]]
        BY <3>2
      <4> HIDE DEF Turn, U, p
      <4> QED BY <2>2, <4>2, <4>3
    <3> QED BY <3>1, <3>2
  <2>5. Settled(k + 1)
    <3> HIDE DEF Turn
    <3> QED BY <2>4
  <2> HIDE DEF Settled
  <2> QED BY <2>1, <2>5
<1>9. Settled(n)
  <2>1. \A k \in 0 .. n : k \in Good
    <3> HIDE DEF Good, n
    <3> QED BY <1>1, <1>7, <1>8, NumberInduction
  <2>2. n \in 0 .. n
    BY <1>1
  <2> HIDE DEF Settled, n
  <2> QED BY <2>1, <2>2
<1>10. w[n] \in D /\ Turn(w[n]) \in D
  <2>1. w[n] \in D
    <3>1. n \in 0 .. n
      BY <1>1
    <3> HIDE DEF D, n
    <3> QED BY <1>5, <3>1 DEF Walks
  <2> HIDE DEF D, Turn
  <2> QED BY <1>3, <2>1
<1>11. Turn(w[n]) = w[n]
  <2>1. \A T \in SUBSET S : Turn(w[n])[T] = w[n][T]
    <3> HIDE DEF Turn
    <3>1. \A T \in SUBSET S : Cardinality(T) < n
      <4> HIDE DEF n
      <4> QED BY <1>1, <1>2
    <3> HIDE DEF n
    <3> QED BY <1>9, <3>1
  <2> HIDE DEF Turn, n
  <2> QED BY <1>10, <2>1
<1>12. PICK g \in D : Turn(g) = g
  <2> HIDE DEF Turn, D
  <2> QED BY <1>10, <1>11
<1> QED BY <1>12 DEF Folds, FoldsIn
=============================================================================
