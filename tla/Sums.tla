-------------------------------- MODULE Sums --------------------------------
(***************************************************************************)
(* Sums over finite sets, as the balances, reservations and filings of the *)
(* models use them: SumFunctionOnSet(f, S) adds up f[x] for all x in S.    *)
(***************************************************************************)
EXTENDS Functions, FiniteSetTheorems, TLAPS

(***************************************************************************)
(* Induction, for a set of numbers or of subsets given as a set.           *)
(***************************************************************************)
LEMMA Induction ==
  ASSUME NEW Good, 0 \in Good, \A n \in Nat : n \in Good => n + 1 \in Good
  PROVE  Nat \subseteq Good
<1> SUFFICES ASSUME ~(Nat \subseteq Good) PROVE FALSE
  OBVIOUS
<1> DEFINE Bad == {0..k : k \in Nat \ Good}
           R == StrictSubsetOrdering(Nat)
<1>1. Bad \subseteq FiniteSubsetsOf(Nat)
  <2> SUFFICES ASSUME NEW k \in Nat PROVE 0..k \in FiniteSubsetsOf(Nat)
    OBVIOUS
  <2>1. IsFiniteSet(0..k) BY FS_Interval
  <2> QED BY <2>1 DEF FiniteSubsetsOf
<1>2. Bad # {} OBVIOUS
<1>3. PICK X \in Bad : \A Y \in Bad : <<Y, X>> \notin R
  <2>1. IsWellFoundedOn(R, FiniteSubsetsOf(Nat)) BY FS_StrictSubsetOrderingWellFounded
  <2> HIDE DEF Bad, R
  <2> QED BY <1>1, <1>2, <2>1, WFMin
<1>4. PICK k \in Nat \ Good : X = 0..k OBVIOUS
<1>5. k # 0 /\ k - 1 \in Nat /\ k - 1 \notin Good
  <2>1. k # 0 /\ k - 1 \in Nat OBVIOUS
  <2>2. (k - 1) + 1 = k OBVIOUS
  <2> QED BY <2>1, <2>2
<1>6. 0..(k - 1) \in Bad BY <1>5
<1>7. 0..(k - 1) \subseteq 0..k /\ 0..(k - 1) # 0..k BY <1>5
<1>8. <<0..(k - 1), X>> \in R
  <2>1. 0..(k - 1) \in SUBSET Nat /\ X \in SUBSET Nat BY <1>4
  <2> QED BY <1>4, <1>7, <2>1 DEF StrictSubsetOrdering
<1> QED BY <1>3, <1>6, <1>8

(***************************************************************************)
(* The equation behind a sum, and that some function satisfies it: for the *)
(* sets of at most n elements, for every n.                                *)
(***************************************************************************)
AnyOf(s) == CHOOSE x \in s : TRUE
AddsUp(g, f, D) == g = [s \in D |-> IF s = {} THEN 0 ELSE f[AnyOf(s)] + g[s \ {AnyOf(s)}]]

LEMMA SumIsItsEquation ==
  ASSUME NEW f, NEW S
  PROVE  SumFunctionOnSet(f, S) = (CHOOSE g : AddsUp(g, f, SUBSET S))[S]
BY DEF SumFunctionOnSet, FoldFunctionOnSet, MapThenFoldSet, AddsUp, AnyOf

Within(S, n) == {s \in SUBSET S : Cardinality(s) <= n}

LEMMA SumExists ==
  ASSUME NEW f, NEW S, IsFiniteSet(S)
  PROVE  \E g : AddsUp(g, f, SUBSET S)
<1> DEFINE Good == {n \in Nat : \E g : AddsUp(g, f, Within(S, n))}
<1>0. \A s \in SUBSET S : IsFiniteSet(s) /\ Cardinality(s) \in Nat /\ Cardinality(s) <= Cardinality(S)
  BY FS_Subset, FS_CardinalityType
<1>1. 0 \in Good
  <2>1. Within(S, 0) = {{}} BY <1>0, FS_EmptySet DEF Within
  <2>2. AddsUp([s \in {{}} |-> 0], f, {{}}) BY DEF AddsUp
  <2> QED BY <2>1, <2>2
<1>2. ASSUME NEW n \in Nat, n \in Good PROVE n + 1 \in Good
  <2>1. PICK g : AddsUp(g, f, Within(S, n)) BY <1>2
  <2> DEFINE h == [s \in Within(S, n + 1) |-> IF s = {} THEN 0 ELSE f[AnyOf(s)] + g[s \ {AnyOf(s)}]]
  <2>2. \A s \in Within(S, n) : s \in Within(S, n + 1) /\ h[s] = g[s]
    <3>1. \A s \in Within(S, n) : s \in Within(S, n + 1) BY <1>0 DEF Within
    <3>2. \A s \in Within(S, n) : g[s] = IF s = {} THEN 0 ELSE f[AnyOf(s)] + g[s \ {AnyOf(s)}]
      BY <2>1 DEF AddsUp
    <3> QED BY <3>1, <3>2
  <2>3. \A s \in Within(S, n + 1) : s # {} => s \ {AnyOf(s)} \in Within(S, n)
    <3> SUFFICES ASSUME NEW s \in Within(S, n + 1), s # {} PROVE s \ {AnyOf(s)} \in Within(S, n)
      OBVIOUS
    <3>1. AnyOf(s) \in s BY DEF AnyOf
    <3>2. IsFiniteSet(s) /\ Cardinality(s) \in Nat /\ s \subseteq S BY <1>0 DEF Within
    <3>3. Cardinality(s \ {AnyOf(s)}) = Cardinality(s) - 1 BY <3>1, <3>2, FS_RemoveElement
    <3>4. Cardinality(s) <= n + 1 BY DEF Within
    <3> QED BY <3>2, <3>3, <3>4 DEF Within
  <2>4. \A s \in Within(S, n + 1) : s # {} => h[s \ {AnyOf(s)}] = g[s \ {AnyOf(s)}]
    BY <2>2, <2>3
  <2>5. AddsUp(h, f, Within(S, n + 1)) BY <2>4 DEF AddsUp
  <2> HIDE DEF h
  <2> QED BY <2>5
<1>3. Nat \subseteq Good
  <2> HIDE DEF Good
  <2> QED BY <1>1, <1>2, Induction
<1>4. Cardinality(S) \in Good BY <1>0, <1>3
<1>5. Within(S, Cardinality(S)) = SUBSET S BY <1>0 DEF Within
<1> QED BY <1>4, <1>5

(***************************************************************************)
(* Induction over the subsets of a finite set.                             *)
(***************************************************************************)
LEMMA SubsetInduction ==
  ASSUME NEW S, IsFiniteSet(S), NEW Good,
         \A T \in SUBSET S : (\A U \in SUBSET T : U # T => U \in Good) => T \in Good
  PROVE  \A T \in SUBSET S : T \in Good
<1> SUFFICES ASSUME (SUBSET S) \ Good # {} PROVE FALSE
  OBVIOUS
<1> DEFINE Bad == (SUBSET S) \ Good
           R == StrictSubsetOrdering(S)
<1>1. Bad \subseteq FiniteSubsetsOf(S) BY FS_FiniteSubsetsOfFinite
<1>2. PICK T \in Bad : \A U \in Bad : <<U, T>> \notin R
  <2>1. IsWellFoundedOn(R, FiniteSubsetsOf(S)) BY FS_StrictSubsetOrderingWellFounded
  <2>2. Bad # {} OBVIOUS
  <2> HIDE DEF Bad, R
  <2> QED BY <1>1, <2>1, <2>2, WFMin
<1>3. \A U \in SUBSET T : U # T => U \in Good
  BY <1>2 DEF StrictSubsetOrdering
<1> QED BY <1>2, <1>3

\* A sum does not depend on the set whose subsets it is computed over.
LEMMA SumsAgree ==
  ASSUME NEW f, NEW S, IsFiniteSet(S), NEW g, NEW h, NEW D, NEW E,
         AddsUp(g, f, D), AddsUp(h, f, E), SUBSET S \subseteq D, SUBSET S \subseteq E
  PROVE  g[S] = h[S]
<1> DEFINE Good == {T \in SUBSET S : g[T] = h[T]}
<1>1. ASSUME NEW T \in SUBSET S, \A U \in SUBSET T : U # T => U \in Good
      PROVE  T \in Good
  <2>1. g[T] = IF T = {} THEN 0 ELSE f[AnyOf(T)] + g[T \ {AnyOf(T)}]
    BY DEF AddsUp
  <2>2. h[T] = IF T = {} THEN 0 ELSE f[AnyOf(T)] + h[T \ {AnyOf(T)}]
    BY DEF AddsUp
  <2>3. T # {} => AnyOf(T) \in T BY DEF AnyOf
  <2>4. T # {} => T \ {AnyOf(T)} \in Good BY <1>1, <2>3
  <2> QED BY <2>1, <2>2, <2>4
<1> HIDE DEF Good
<1>2. S \in Good BY <1>1, SubsetInduction
<1> QED BY <1>2 DEF Good

LEMMA SumOfNone ==
  ASSUME NEW f
  PROVE  SumFunctionOnSet(f, {}) = 0
<1>1. \E g : AddsUp(g, f, SUBSET {}) BY SumExists, FS_EmptySet
<1>2. AddsUp(CHOOSE g : AddsUp(g, f, SUBSET {}), f, SUBSET {}) BY <1>1
<1> QED BY <1>2, SumIsItsEquation DEF AddsUp

LEMMA SumUnfolds ==
  ASSUME NEW f, NEW S, IsFiniteSet(S), S # {}
  PROVE  SumFunctionOnSet(f, S) = f[AnyOf(S)] + SumFunctionOnSet(f, S \ {AnyOf(S)})
<1> DEFINE T == S \ {AnyOf(S)}
           g == CHOOSE g : AddsUp(g, f, SUBSET S)
           h == CHOOSE h : AddsUp(h, f, SUBSET T)
<1>1. IsFiniteSet(T) BY FS_RemoveElement
<1>2. AddsUp(g, f, SUBSET S)
  <2>1. \E k : AddsUp(k, f, SUBSET S) BY SumExists
  <2> QED BY <2>1
<1>3. AddsUp(h, f, SUBSET T)
  <2>1. \E k : AddsUp(k, f, SUBSET T) BY SumExists, <1>1
  <2> QED BY <2>1
<1>4. SumFunctionOnSet(f, S) = g[S] /\ SumFunctionOnSet(f, T) = h[T]
  BY SumIsItsEquation
<1> HIDE DEF g, h
<1>5. g[T] = h[T] BY <1>1, <1>2, <1>3, SumsAgree
<1>6. g[S] = f[AnyOf(S)] + g[T] BY <1>2 DEF AddsUp
<1> QED BY <1>4, <1>5, <1>6

(***************************************************************************)
(* What the proofs about the models cite.                                  *)
(***************************************************************************)
\* A sum of integers is one, whatever is in their function besides.
LEMMA SumType ==
  ASSUME NEW f, NEW S, IsFiniteSet(S), \A x \in S : f[x] \in Int
  PROVE  SumFunctionOnSet(f, S) \in Int
<1> DEFINE Good == {T \in SUBSET S : SumFunctionOnSet(f, T) \in Int}
<1>1. ASSUME NEW T \in SUBSET S, \A U \in SUBSET T : U # T => U \in Good
      PROVE  T \in Good
  <2>1. CASE T = {} BY <2>1, SumOfNone
  <2>2. CASE T # {}
    <3>1. AnyOf(T) \in T BY <2>2 DEF AnyOf
    <3>2. T \ {AnyOf(T)} \in Good BY <1>1, <3>1
    <3>3. SumFunctionOnSet(f, T) = f[AnyOf(T)] + SumFunctionOnSet(f, T \ {AnyOf(T)})
      BY <2>2, FS_Subset, SumUnfolds
    <3> QED BY <3>1, <3>2, <3>3
  <2> QED BY <2>1, <2>2
<1> HIDE DEF Good
<1>2. S \in Good BY <1>1, SubsetInduction
<1> QED BY <1>2 DEF Good

\* Equal terms have equal sums.
LEMMA SumOfEquals ==
  ASSUME NEW f, NEW g, NEW S, IsFiniteSet(S), \A x \in S : f[x] = g[x]
  PROVE  SumFunctionOnSet(f, S) = SumFunctionOnSet(g, S)
<1> DEFINE Good == {T \in SUBSET S : SumFunctionOnSet(f, T) = SumFunctionOnSet(g, T)}
<1>1. ASSUME NEW T \in SUBSET S, \A U \in SUBSET T : U # T => U \in Good
      PROVE  T \in Good
  <2>1. CASE T = {} BY <2>1, SumOfNone
  <2>2. CASE T # {}
    <3>1. AnyOf(T) \in T BY <2>2 DEF AnyOf
    <3>2. T \ {AnyOf(T)} \in Good BY <1>1, <3>1
    <3>3. IsFiniteSet(T) BY FS_Subset
    <3>4. SumFunctionOnSet(f, T) = f[AnyOf(T)] + SumFunctionOnSet(f, T \ {AnyOf(T)})
      BY <2>2, <3>3, SumUnfolds
    <3>5. SumFunctionOnSet(g, T) = g[AnyOf(T)] + SumFunctionOnSet(g, T \ {AnyOf(T)})
      BY <2>2, <3>3, SumUnfolds
    <3> QED BY <3>1, <3>2, <3>4, <3>5
  <2> QED BY <2>1, <2>2
<1> HIDE DEF Good
<1>2. S \in Good BY <1>1, SubsetInduction
<1> QED BY <1>2 DEF Good

\* Any element may be taken out of a sum, not only the one the fold begins with.
LEMMA SumWithout ==
  ASSUME NEW f, NEW S, IsFiniteSet(S), \A x \in S : f[x] \in Int, NEW y \in S
  PROVE  SumFunctionOnSet(f, S) = f[y] + SumFunctionOnSet(f, S \ {y})
<1> DEFINE Good == {T \in SUBSET S : \A x \in T : SumFunctionOnSet(f, T) = f[x] + SumFunctionOnSet(f, T \ {x})}
<1>1. ASSUME NEW T \in SUBSET S, \A U \in SUBSET T : U # T => U \in Good
      PROVE  T \in Good
  <2> SUFFICES ASSUME NEW x \in T PROVE SumFunctionOnSet(f, T) = f[x] + SumFunctionOnSet(f, T \ {x})
    OBVIOUS
  <2> DEFINE a == AnyOf(T)
  <2>1. a \in T BY DEF AnyOf
  <2>2. IsFiniteSet(T) BY FS_Subset
  <2>3. SumFunctionOnSet(f, T) = f[a] + SumFunctionOnSet(f, T \ {a})
    BY <2>2, SumUnfolds
  <2> HIDE DEF a
  <2>4. CASE x # a
    <3>1. T \ {a} \in Good /\ T \ {x} \in Good BY <1>1, <2>1
    <3>2. (T \ {a}) \ {x} = (T \ {x}) \ {a} OBVIOUS
    <3>3. SumFunctionOnSet(f, T \ {a}) = f[x] + SumFunctionOnSet(f, (T \ {a}) \ {x})
      BY <2>4, <3>1
    <3>4. SumFunctionOnSet(f, T \ {x}) = f[a] + SumFunctionOnSet(f, (T \ {x}) \ {a})
      BY <2>1, <2>4, <3>1
    <3>5. SumFunctionOnSet(f, (T \ {a}) \ {x}) \in Int
      <4>1. IsFiniteSet((T \ {a}) \ {x}) BY <2>2, FS_RemoveElement
      <4> QED BY <4>1, SumType
    <3>6. f[a] \in Int /\ f[x] \in Int BY <2>1
    <3> DEFINE rest == SumFunctionOnSet(f, (T \ {a}) \ {x})
               u == f[a]
               v == f[x]
    <3>7. /\ SumFunctionOnSet(f, T) = u + (v + rest)
          /\ SumFunctionOnSet(f, T \ {x}) = u + rest
      BY <2>3, <3>2, <3>3, <3>4
    <3>8. u \in Int /\ v \in Int /\ rest \in Int BY <3>5, <3>6
    <3> HIDE DEF rest, u, v
    <3>9. SumFunctionOnSet(f, T) = v + SumFunctionOnSet(f, T \ {x}) BY <3>7, <3>8
    <3> QED BY <3>9 DEF v
  <2> QED BY <2>3, <2>4
<1> HIDE DEF Good
<1>2. S \in Good BY <1>1, SubsetInduction
<1> QED BY <1>2 DEF Good

\* A sum of one more element.
LEMMA SumWith ==
  ASSUME NEW f, NEW S, IsFiniteSet(S), \A x \in S : f[x] \in Int,
         NEW y, y \notin S, f[y] \in Int
  PROVE  SumFunctionOnSet(f, S \cup {y}) = f[y] + SumFunctionOnSet(f, S)
<1>1. IsFiniteSet(S \cup {y}) BY FS_AddElement
<1>2. (S \cup {y}) \ {y} = S OBVIOUS
<1> QED BY <1>1, <1>2, SumWithout
=============================================================================
