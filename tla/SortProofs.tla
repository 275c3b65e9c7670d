----------------------------- MODULE SortProofs -----------------------------
(***************************************************************************)
(* What BatchSync's stable sort does to a batch of any length: it only     *)
(* puts the rows in another order, it keeps the rows of a pair in theirs,  *)
(* and batches that say the same come out the same.                        *)
(***************************************************************************)
EXTENDS BatchSync, Sums

LEMMA Counting == ASSUME NEW n \in Nat PROVE IsFiniteSet(1..n) /\ Cardinality(1..n) = n
<1>1. IsFiniteSet(1..n) /\ Cardinality(1..n) = IF 1 > n THEN 0 ELSE n - 1 + 1
  BY FS_Interval
<1> QED BY <1>1

\* A sequence of records, by its places.
LEMMA RowsTyped ==
  ASSUME NEW x \in Seq(Record)
  PROVE  /\ Len(x) \in Nat /\ DOMAIN x = 1..Len(x)
         /\ \A i \in DOMAIN x : i \in Nat /\ x[i] \in Record /\ x[i].pair \in Pairs
                                /\ Rank[x[i].pair] \in Nat
<1>1. Rank \in [Pairs -> Nat \ {0}] BY BatchSyncAssumption
<1>2. \A i \in DOMAIN x : x[i] \in Record /\ i \in Nat OBVIOUS
<1> QED BY <1>1, <1>2 DEF Record

(***************************************************************************)
(* Places.                                                                 *)
(***************************************************************************)
Ahead(x, i) == {j \in DOMAIN x : NotAfter(x, j, i)}

\* Places are ordered as the sort orders the rows.
LEMMA PlacesOrdered ==
  ASSUME NEW x \in Seq(Record), NEW i \in DOMAIN x, NEW j \in DOMAIN x
  PROVE  /\ Place(x, i) \in DOMAIN x
         /\ NotAfter(x, i, j) /\ i # j => Place(x, i) < Place(x, j)
<1>1. \A k \in DOMAIN x : k \in Nat /\ Rank[x[k].pair] \in Nat BY RowsTyped
<1>2. /\ IsFiniteSet(DOMAIN x) /\ Cardinality(DOMAIN x) = Len(x) /\ DOMAIN x = 1..Len(x)
      /\ Len(x) \in Nat
  BY Counting, RowsTyped
<1>3. \A k \in DOMAIN x : /\ Ahead(x, k) \subseteq DOMAIN x /\ k \in Ahead(x, k)
                          /\ Place(x, k) = Cardinality(Ahead(x, k))
  BY <1>1 DEF Ahead, Place, NotAfter
<1>4. \A k \in DOMAIN x : /\ IsFiniteSet(Ahead(x, k)) /\ Cardinality(Ahead(x, k)) \in Nat
                          /\ Cardinality(Ahead(x, k)) <= Len(x) /\ Cardinality(Ahead(x, k)) # 0
  <2> SUFFICES ASSUME NEW k \in DOMAIN x
               PROVE /\ IsFiniteSet(Ahead(x, k)) /\ Cardinality(Ahead(x, k)) \in Nat
                     /\ Cardinality(Ahead(x, k)) <= Len(x) /\ Cardinality(Ahead(x, k)) # 0
    OBVIOUS
  <2>1. Ahead(x, k) \in SUBSET DOMAIN x /\ Ahead(x, k) # {} BY <1>3
  <2>2. IsFiniteSet(Ahead(x, k)) BY <1>2, <2>1, FS_Subset
  <2>3. Cardinality(Ahead(x, k)) <= Cardinality(DOMAIN x) BY <1>2, <2>1, FS_Subset
  <2>4. Cardinality(Ahead(x, k)) \in Nat BY <2>2, FS_CardinalityType
  <2>5. Cardinality(Ahead(x, k)) # 0 BY <2>1, <2>2, FS_EmptySet
  <2> QED BY <1>2, <2>2, <2>3, <2>4, <2>5
<1>5. Place(x, i) \in DOMAIN x BY <1>2, <1>3, <1>4
<1>6. ASSUME NotAfter(x, i, j), i # j PROVE Place(x, i) < Place(x, j)
  <2>1. Ahead(x, i) \subseteq Ahead(x, j) /\ j \notin Ahead(x, i)
    BY <1>1, <1>6 DEF Ahead, NotAfter
  <2>2. Ahead(x, i) \in SUBSET Ahead(x, j) /\ Ahead(x, i) # Ahead(x, j)
    BY <1>3, <2>1
  <2>3. Cardinality(Ahead(x, i)) <= Cardinality(Ahead(x, j)) BY <1>4, <2>2, FS_Subset
  <2>4. Cardinality(Ahead(x, i)) # Cardinality(Ahead(x, j)) BY <1>4, <2>2, FS_Subset
  <2> QED BY <1>3, <1>4, <2>3, <2>4
<1> QED BY <1>5, <1>6

Placing(x) == [i \in DOMAIN x |-> Place(x, i)]

\* Every row has a place of its own, and every place a row.
LEMMA PlacesAreTaken ==
  ASSUME NEW x \in Seq(Record)
  PROVE  /\ Placing(x) \in Bijection(DOMAIN x, DOMAIN x)
         /\ \A i, j \in DOMAIN x : Place(x, i) = Place(x, j) => i = j
         /\ \A n \in DOMAIN x : \E i \in DOMAIN x : Place(x, i) = n
<1>1. \A i \in DOMAIN x : i \in Nat /\ Rank[x[i].pair] \in Nat BY RowsTyped
<1>2. Placing(x) \in [DOMAIN x -> DOMAIN x] BY PlacesOrdered DEF Placing
<1>3. ASSUME NEW i \in DOMAIN x, NEW j \in DOMAIN x, Place(x, i) = Place(x, j) PROVE i = j
  <2>1. NotAfter(x, i, j) \/ NotAfter(x, j, i) BY <1>1 DEF NotAfter
  <2>2. Place(x, i) \in Nat BY <1>1, PlacesOrdered
  <2>3. ~(Place(x, i) < Place(x, j)) /\ ~(Place(x, j) < Place(x, i)) BY <1>3, <2>2
  <2> QED BY <2>1, <2>3, PlacesOrdered
<1>4. Placing(x) \in Injection(DOMAIN x, DOMAIN x)
  BY <1>2, <1>3 DEF Placing, Injection, IsInjective
<1>5. IsFiniteSet(DOMAIN x) BY Counting, RowsTyped
<1>6. Placing(x) \in Surjection(DOMAIN x, DOMAIN x) BY <1>4, <1>5, FS_Injection
<1>7. \A n \in DOMAIN x : \E i \in DOMAIN x : Place(x, i) = n
  BY <1>6 DEF Surjection, Placing
<1> QED BY <1>3, <1>4, <1>6, <1>7 DEF Bijection

\* The row at a place is the one that belongs there.
LEMMA SortedAt ==
  ASSUME NEW x \in Seq(Record), NEW i \in DOMAIN x
  PROVE  Sorted(x)[Place(x, i)] = x[i]
<1> DEFINE n == Place(x, i)
           k == CHOOSE k \in DOMAIN x : Place(x, k) = n
<1>1. n \in DOMAIN x BY PlacesOrdered
<1>2. k \in DOMAIN x /\ Place(x, k) = n OBVIOUS
<1>3. Sorted(x)[n] = x[k] BY <1>1 DEF Sorted
<1> HIDE DEF k
<1>4. k = i BY <1>2, PlacesAreTaken
<1> QED BY <1>3, <1>4

\* Sorting loses, adds and changes no row.
LEMMA SortedTyped ==
  ASSUME NEW x \in Seq(Record)
  PROVE  /\ Sorted(x) \in Seq(Record) /\ DOMAIN Sorted(x) = DOMAIN x /\ Len(Sorted(x)) = Len(x)
         /\ Range(Sorted(x)) = Range(x)
<1>1. DOMAIN x = 1..Len(x) /\ Len(x) \in Nat /\ \A i \in DOMAIN x : x[i] \in Record
  BY RowsTyped
<1>2. DOMAIN Sorted(x) = DOMAIN x BY DEF Sorted
<1>3. \A n \in DOMAIN x : \E i \in DOMAIN x : Sorted(x)[n] = x[i]
  BY PlacesAreTaken, SortedAt
<1>4. \A i \in DOMAIN x : \E n \in DOMAIN x : Sorted(x)[n] = x[i]
  BY PlacesOrdered, SortedAt
<1>5. Sorted(x) \in [1..Len(x) -> Record]
  <2>1. Sorted(x) = [n \in DOMAIN x |-> Sorted(x)[n]] BY DEF Sorted
  <2>2. \A n \in DOMAIN x : Sorted(x)[n] \in Record BY <1>1, <1>3
  <2> QED BY <1>1, <2>1, <2>2
<1>6. Sorted(x) \in Seq(Record) /\ Len(Sorted(x)) = Len(x)
  BY <1>1, <1>5
<1>7. Range(Sorted(x)) = Range(x) BY <1>2, <1>3, <1>4 DEF Range
<1> QED BY <1>2, <1>6, <1>7

(***************************************************************************)
(* Batches that say the same.                                              *)
(***************************************************************************)
\* What SameBatch asks of the way from one batch to another.
Carries(pi, x, y) ==
  /\ pi \in Bijection(DOMAIN x, DOMAIN y)
  /\ \A i \in DOMAIN x : y[pi[i]] = x[i]
  /\ \A p \in Pairs : \A i, j \in RowsOf(x, p) : i < j => pi[i] < pi[j]

LEMMA SortedSaysTheSame ==
  ASSUME NEW x \in Seq(Record)
  PROVE  SameBatch(x, Sorted(x))
<1>1. /\ Placing(x) \in Bijection(DOMAIN x, DOMAIN Sorted(x))
      /\ \A i \in DOMAIN x : Placing(x)[i] = Place(x, i)
  BY PlacesAreTaken, SortedTyped DEF Placing
<1>2. \A i \in DOMAIN x : Sorted(x)[Placing(x)[i]] = x[i] BY <1>1, SortedAt
<1>3. ASSUME NEW p \in Pairs, NEW i \in RowsOf(x, p), NEW j \in RowsOf(x, p), i < j
      PROVE  Placing(x)[i] < Placing(x)[j]
  <2>1. i \in DOMAIN x /\ j \in DOMAIN x /\ x[i].pair = x[j].pair BY DEF RowsOf
  <2>2. i \in Nat /\ j \in Nat /\ i # j BY <1>3, <2>1, RowsTyped
  <2>3. NotAfter(x, i, j) BY <1>3, <2>1, <2>2 DEF NotAfter
  <2> QED BY <1>1, <2>1, <2>2, <2>3, PlacesOrdered
<1> QED BY <1>1, <1>2, <1>3 DEF SameBatch

LEMMA SayingTheSameIsMutual ==
  ASSUME NEW x \in Seq(Record), NEW y \in Seq(Record), SameBatch(x, y)
  PROVE  SameBatch(y, x)
<1>1. PICK pi : Carries(pi, x, y) BY DEF SameBatch, Carries
<1>2. /\ pi \in [DOMAIN x -> DOMAIN y]
      /\ \A i, j \in DOMAIN x : pi[i] = pi[j] => i = j
      /\ \A n \in DOMAIN y : \E i \in DOMAIN x : pi[i] = n
  BY <1>1 DEF Carries, Bijection, Injection, Surjection, IsInjective
<1> DEFINE back == [n \in DOMAIN y |-> CHOOSE i \in DOMAIN x : pi[i] = n]
<1>3. \A n \in DOMAIN y : back[n] \in DOMAIN x /\ pi[back[n]] = n BY <1>2
<1>4. back \in [DOMAIN y -> DOMAIN x] BY <1>3
<1> HIDE DEF back
<1>5. \A i \in DOMAIN x : back[pi[i]] = i BY <1>2, <1>3
<1>6. back \in Bijection(DOMAIN y, DOMAIN x)
  <2>1. \A m, n \in DOMAIN y : back[m] = back[n] => m = n BY <1>3
  <2>2. \A i \in DOMAIN x : \E n \in DOMAIN y : back[n] = i BY <1>2, <1>5
  <2> QED BY <1>4, <2>1, <2>2 DEF Bijection, Injection, Surjection, IsInjective
<1>7. \A n \in DOMAIN y : x[back[n]] = y[n] BY <1>1, <1>3 DEF Carries
<1>8. ASSUME NEW p \in Pairs, NEW m \in RowsOf(y, p), NEW n \in RowsOf(y, p), m < n
      PROVE  back[m] < back[n]
  <2>1. m \in DOMAIN y /\ n \in DOMAIN y /\ m \in Nat /\ n \in Nat BY RowsTyped DEF RowsOf
  <2>2. /\ back[m] \in DOMAIN x /\ back[n] \in DOMAIN x
        /\ back[m] \in Nat /\ back[n] \in Nat
    BY <1>3, <2>1, RowsTyped
  <2>3. back[m] \in RowsOf(x, p) /\ back[n] \in RowsOf(x, p)
    BY <1>7, <2>1, <2>2 DEF RowsOf
  <2>4. back[n] < back[m] => n < m BY <1>1, <1>3, <2>1, <2>3 DEF Carries
  <2>5. back[n] # back[m] BY <1>3, <1>8, <2>1
  <2> QED BY <1>8, <2>1, <2>2, <2>4, <2>5
<1> QED BY <1>6, <1>7, <1>8 DEF SameBatch

\* No two pairs share a sort key.  The key joins the two ids with a colon, which
\* the ids may hold too, so that this is not true of all ids.
DistinctKeys == \A p, q \in Pairs : Rank[p] = Rank[q] => p = q

\* Then the sorted rows stand for what a batch says: this is what lets the code
\* compare hashes of sorted rows.
LEMMA SameSorted ==
  ASSUME DistinctKeys, NEW x \in Seq(Record), NEW y \in Seq(Record), SameBatch(x, y)
  PROVE  Sorted(x) = Sorted(y)
<1>1. PICK pi : Carries(pi, x, y) BY DEF SameBatch, Carries
<1>2. /\ pi \in [DOMAIN x -> DOMAIN y]
      /\ \A i, j \in DOMAIN x : pi[i] = pi[j] => i = j
      /\ \A n \in DOMAIN y : \E i \in DOMAIN x : pi[i] = n
      /\ \A i \in DOMAIN x : y[pi[i]] = x[i]
  BY <1>1 DEF Carries, Bijection, Injection, Surjection, IsInjective
<1>3. /\ \A i \in DOMAIN x : i \in Nat /\ x[i].pair \in Pairs /\ Rank[x[i].pair] \in Nat
      /\ \A n \in DOMAIN y : n \in Nat
  BY RowsTyped
<1>4. DOMAIN x = DOMAIN y
  <2>1. /\ DOMAIN x = 1..Len(x) /\ DOMAIN y = 1..Len(y) /\ Len(x) \in Nat /\ Len(y) \in Nat
        /\ IsFiniteSet(DOMAIN x) /\ Cardinality(DOMAIN x) = Len(x) /\ Cardinality(DOMAIN y) = Len(y)
    BY Counting, RowsTyped
  <2>2. ExistsBijection(DOMAIN x, DOMAIN y) BY <1>1 DEF Carries, ExistsBijection
  <2>3. Len(x) = Len(y) BY <2>1, <2>2, FS_Bijection
  <2> QED BY <2>1, <2>3
<1>5. ASSUME NEW i \in DOMAIN x, NEW j \in DOMAIN x
      PROVE  NotAfter(x, j, i) <=> NotAfter(y, pi[j], pi[i])
  <2>1. /\ pi[i] \in DOMAIN y /\ pi[j] \in DOMAIN y /\ pi[i] \in Nat /\ pi[j] \in Nat
        /\ i \in Nat /\ j \in Nat
    BY <1>2, <1>3
  <2>2. ASSUME Rank[x[i].pair] = Rank[x[j].pair] PROVE j <= i <=> pi[j] <= pi[i]
    <3>1. x[i].pair = x[j].pair BY <1>3, <2>2 DEF DistinctKeys
    <3>2. i \in RowsOf(x, x[i].pair) /\ j \in RowsOf(x, x[i].pair) BY <3>1 DEF RowsOf
    <3>3. (i < j => pi[i] < pi[j]) /\ (j < i => pi[j] < pi[i]) BY <1>1, <1>3, <3>2 DEF Carries
    <3> QED BY <2>1, <3>3
  <2> QED BY <1>2, <2>1, <2>2 DEF NotAfter
<1>6. ASSUME NEW i \in DOMAIN x PROVE Place(y, pi[i]) = Place(x, i)
  <2> DEFINE A == Ahead(x, i)
             B == Ahead(y, pi[i])
             f == [j \in A |-> pi[j]]
  <2>1. A \subseteq DOMAIN x /\ B \subseteq DOMAIN y BY DEF Ahead
  <2>2. \A j \in A : pi[j] \in B BY <1>2, <1>5 DEF Ahead
  <2>3. \A n \in B : \E j \in A : pi[j] = n BY <1>2, <1>5 DEF Ahead
  <2>4. f \in Bijection(A, B)
    <3>1. f \in [A -> B] BY <2>2
    <3>2. \A j, k \in A : f[j] = f[k] => j = k BY <1>2, <2>1
    <3>3. \A n \in B : \E j \in A : f[j] = n BY <2>3
    <3> HIDE DEF f, A, B
    <3> QED BY <3>1, <3>2, <3>3 DEF Bijection, Injection, Surjection, IsInjective
  <2>5. IsFiniteSet(A)
    <3>1. IsFiniteSet(DOMAIN x) BY Counting, RowsTyped
    <3> QED BY <2>1, <3>1, FS_Subset
  <2> HIDE DEF f
  <2>6. Cardinality(A) = Cardinality(B) BY <2>4, <2>5, FS_Bijection DEF ExistsBijection
  <2> QED BY <2>6 DEF Ahead, Place
<1>7. ASSUME NEW n \in DOMAIN x PROVE Sorted(x)[n] = Sorted(y)[n]
  <2>1. PICK i \in DOMAIN x : Place(x, i) = n BY PlacesAreTaken
  <2>2. Sorted(x)[n] = x[i] BY <2>1, SortedAt
  <2>3. Sorted(y)[n] = y[pi[i]] BY <1>2, <1>6, <2>1, SortedAt
  <2> QED BY <1>2, <2>2, <2>3
<1>8. /\ Sorted(x) = [n \in DOMAIN x |-> Sorted(x)[n]]
      /\ Sorted(y) = [n \in DOMAIN y |-> Sorted(y)[n]]
  BY DEF Sorted
<1> QED BY <1>4, <1>7, <1>8

\* What is sorted stays as it is.
LEMMA SortedTwice ==
  ASSUME DistinctKeys, NEW x \in Seq(Record)
  PROVE  Sorted(Sorted(x)) = Sorted(x)
<1>1. Sorted(x) \in Seq(Record) BY SortedTyped
<1> QED BY <1>1, SortedSaysTheSame, SameSorted

(***************************************************************************)
(* The last row of a pair.                                                 *)
(***************************************************************************)
LEMMA LastRow ==
  ASSUME NEW x \in Seq(Record), NEW p \in Pairs, RowsOf(x, p) # {}
  PROVE  Max(RowsOf(x, p)) \in RowsOf(x, p) /\ \A i \in RowsOf(x, p) : Max(RowsOf(x, p)) >= i
<1> DEFINE R == RowsOf(x, p)
           Good == {n \in Nat : \A S \in SUBSET (1..n) : S # {} => \E k \in S : \A i \in S : k >= i}
<1>1. 0 \in Good
  <2>1. 1..0 = {} OBVIOUS
  <2> QED BY <2>1
<1>2. ASSUME NEW n \in Nat, n \in Good PROVE n + 1 \in Good
  <2> SUFFICES ASSUME NEW S \in SUBSET (1..n + 1), S # {}
               PROVE \E k \in S : \A i \in S : k >= i
    OBVIOUS
  <2>1. CASE n + 1 \in S BY <2>1
  <2>2. CASE n + 1 \notin S
    <3>1. S \in SUBSET (1..n) BY <2>2
    <3> QED BY <1>2, <3>1
  <2> QED BY <2>1, <2>2
<1>3. Nat \subseteq Good
  <2> HIDE DEF Good
  <2> QED BY <1>1, <1>2, Induction
<1>4. Len(x) \in Nat /\ R \in SUBSET (1..Len(x)) BY RowsTyped DEF RowsOf
<1>5. \E k \in R : \A i \in R : k >= i BY <1>3, <1>4
<1> QED BY <1>5 DEF Max

\* Sorting keeps it last.
LEMMA LastRowSorted ==
  ASSUME NEW x \in Seq(Record), NEW p \in Pairs, RowsOf(x, p) # {}
  PROVE  \E n \in DOMAIN x : /\ Sorted(x)[n] = x[Max(RowsOf(x, p))]
                             /\ \A m \in DOMAIN x : Sorted(x)[m].pair = p => m <= n
<1> DEFINE k == Max(RowsOf(x, p))
<1>1. k \in DOMAIN x /\ x[k].pair = p /\ \A i \in DOMAIN x : x[i].pair = p => k >= i
  BY LastRow DEF RowsOf
<1>2. Place(x, k) \in DOMAIN x /\ Sorted(x)[Place(x, k)] = x[k] BY <1>1, PlacesOrdered, SortedAt
<1> HIDE DEF k
<1>3. ASSUME NEW m \in DOMAIN x, Sorted(x)[m].pair = p PROVE m <= Place(x, k)
  <2>1. PICK i \in DOMAIN x : Place(x, i) = m /\ Sorted(x)[m] = x[i] BY PlacesAreTaken, SortedAt
  <2>2. i \in Nat /\ k \in Nat /\ m \in Nat /\ Place(x, k) \in Nat BY <1>1, <1>2, RowsTyped
  <2>3. k >= i BY <1>1, <1>3, <2>1
  <2>4. CASE i = k BY <2>1, <2>2, <2>4
  <2>5. CASE i # k
    <3>1. NotAfter(x, i, k) BY <1>1, <1>3, <2>1, <2>2, <2>3 DEF NotAfter
    <3>2. Place(x, i) < Place(x, k) BY <1>1, <2>5, <3>1, PlacesOrdered
    <3> QED BY <2>1, <2>2, <3>2
  <2> QED BY <2>4, <2>5
<1> QED BY <1>1, <1>2, <1>3 DEF k

(***************************************************************************)
(* What the simulator sends: its valid balances, as they are.              *)
(***************************************************************************)
LEMMA SequenceOfSet ==
  ASSUME NEW S, IsFiniteSet(S)
  PROVE  SetToSeq(S) \in Seq(S)
<1> DEFINE n == Cardinality(S)
<1>1. n \in Nat /\ ExistsBijection(1..n, S) BY FS_CardinalityType
<1>2. \E f \in [1..n -> S] : IsInjective(f)
  BY <1>1 DEF ExistsBijection, Bijection, Injection
<1>3. SetToSeq(S) \in [1..n -> S] BY <1>2 DEF SetToSeq
<1> QED BY <1>1, <1>3

LEMMA PushedRows ==
  ASSUME official \in [Pairs -> Int \cup {NoRow}], IsFiniteSet({p \in Pairs : official[p] # NoRow})
  PROVE  /\ AllValid \in Seq(Record)
         /\ \A i \in DOMAIN AllValid : AllValid[i].balance = official[AllValid[i].pair]
<1> DEFINE named == {p \in Pairs : official[p] # NoRow}
           valid == {RowFor(p) : p \in named}
           f == [p \in named |-> RowFor(p)]
<1>1. f \in Surjection(named, valid) BY DEF Surjection
<1> HIDE DEF f
<1>2. IsFiniteSet(valid)
  <2> HIDE DEF valid, named
  <2>1. IsFiniteSet(named) BY DEF named
  <2> QED BY <1>1, <2>1, FS_Surjection
<1>3. \A row \in valid : row \in Record /\ row.balance = official[row.pair]
  BY DEF Record, RowFor
<1>4. AllValid = Sorted(SetToSeq(valid)) BY DEF AllValid
<1> HIDE DEF valid
<1>5. SetToSeq(valid) \in Seq(valid) BY <1>2, SequenceOfSet
<1>6. SetToSeq(valid) \in Seq(Record) /\ \A i \in DOMAIN SetToSeq(valid) : SetToSeq(valid)[i] \in valid
  BY <1>3, <1>5
<1>7. AllValid \in Seq(Record) /\ Range(AllValid) = Range(SetToSeq(valid))
  BY <1>4, <1>6, SortedTyped
<1>8. \A i \in DOMAIN AllValid : AllValid[i] \in valid
  BY <1>6, <1>7 DEF Range
<1> QED BY <1>3, <1>7, <1>8
=============================================================================
