-------------------------- MODULE SelectionProofs --------------------------
(***************************************************************************)
(* Theorems about Selection: what is sorted is there once and in order, and *)
(* what is selected from a sequence keeps its order.                        *)
(***************************************************************************)
EXTENDS Selection, SequencesExt, FiniteSetTheorems, SequenceTheorems, TLAPS

StrictlyOrders(before, S) ==
  /\ \A x \in S : <<x, x>> \notin before
  /\ \A x, y \in S : x # y => <<x, y>> \in before \/ <<y, x>> \in before
  /\ \A x, y, z \in S : <<x, y>> \in before /\ <<y, z>> \in before => <<x, z>> \in before

LEMMA PlaceType ==
  ASSUME NEW S, IsFiniteSet(S), NEW before, StrictlyOrders(before, S), NEW x \in S
  PROVE  PlaceOf(x, S, before) \in 1..Cardinality(S)
<1> DEFINE Lower == {y \in S : <<y, x>> \in before}
<1>1. Lower \in SUBSET S /\ Lower # S
  BY DEF StrictlyOrders
<1>2. IsFiniteSet(Lower) /\ Cardinality(Lower) \in Nat /\ Cardinality(S) \in Nat
  BY <1>1, FS_Subset, FS_CardinalityType
<1>3. Cardinality(Lower) <= Cardinality(S) /\ Cardinality(Lower) # Cardinality(S)
  BY <1>1, FS_Subset
<1> QED
  BY <1>2, <1>3 DEF PlaceOf

LEMMA PlaceRises ==
  ASSUME NEW S, IsFiniteSet(S), NEW before, StrictlyOrders(before, S),
         NEW x \in S, NEW y \in S, <<x, y>> \in before
  PROVE  PlaceOf(x, S, before) < PlaceOf(y, S, before)
<1> DEFINE Lower(z) == {w \in S : <<w, z>> \in before}
<1>1. Lower(x) \in SUBSET Lower(y) /\ x \in Lower(y) /\ x \notin Lower(x)
  BY DEF StrictlyOrders
<1>2. IsFiniteSet(Lower(x)) /\ IsFiniteSet(Lower(y))
  <2>1. Lower(x) \in SUBSET S /\ Lower(y) \in SUBSET S
    OBVIOUS
  <2> QED
    BY <2>1, FS_Subset
<1>3. Cardinality(Lower(x)) \in Nat /\ Cardinality(Lower(y)) \in Nat
  BY <1>2, FS_CardinalityType
<1>4. Cardinality(Lower(x)) < Cardinality(Lower(y))
  <2>1. Cardinality(Lower(x)) <= Cardinality(Lower(y))
        /\ (Cardinality(Lower(y)) = Cardinality(Lower(x)) => Lower(y) = Lower(x))
    BY <1>1, <1>2, FS_Subset
  <2>2. Lower(x) # Lower(y)
    BY <1>1
  <2> QED
    BY <2>1, <2>2, <1>3
<1> QED
  BY <1>3, <1>4 DEF PlaceOf

(* Every element has its own place, so every place is taken.                *)
LEMMA EveryPlaceTaken ==
  ASSUME NEW S, IsFiniteSet(S), NEW before, StrictlyOrders(before, S)
  PROVE  \A k \in 1..Cardinality(S) :
           /\ \E x \in S : PlaceOf(x, S, before) = k
           /\ \A x, y \in S : PlaceOf(x, S, before) = k /\ PlaceOf(y, S, before) = k => x = y
<1> DEFINE f == [x \in S |-> PlaceOf(x, S, before)]
           n == Cardinality(S)
<1>1. n \in Nat
  BY FS_CardinalityType
<1>2. \A x, y \in S : x # y => PlaceOf(x, S, before) # PlaceOf(y, S, before)
  <2> SUFFICES ASSUME NEW x \in S, NEW y \in S, x # y
               PROVE  PlaceOf(x, S, before) # PlaceOf(y, S, before)
    OBVIOUS
  <2>1. PlaceOf(x, S, before) \in Nat /\ PlaceOf(y, S, before) \in Nat
    BY PlaceType, <1>1
  <2>2. <<x, y>> \in before \/ <<y, x>> \in before
    BY DEF StrictlyOrders
  <2>3. PlaceOf(x, S, before) < PlaceOf(y, S, before)
        \/ PlaceOf(y, S, before) < PlaceOf(x, S, before)
    BY <2>2, PlaceRises
  <2> QED
    BY <2>1, <2>3
<1>3. f \in Injection(S, 1..n)
  <2>1. f \in [S -> 1..n]
    BY PlaceType
  <2> QED
    BY <2>1, <1>2 DEF Injection, IsInjective
<1>4. IsFiniteSet(1..n) /\ Cardinality(1..n) = n
  BY <1>1, FS_Interval
<1>5. f \in Surjection(S, 1..n)
  <2> HIDE DEF f
  <2> QED
    BY <1>3, <1>4, FS_Injection
<1> QED
  BY <1>2, <1>5 DEF Surjection

(* sorted(): every element once, each after those before it.                *)
THEOREM ArrangedSorts ==
  ASSUME NEW S, IsFiniteSet(S), NEW before, StrictlyOrders(before, S)
  PROVE  LET a == Arranged(S, before)
             n == Cardinality(S)
         IN /\ n \in Nat /\ a \in [1..n -> S]
            /\ \A x \in S : \E k \in 1..n : a[k] = x
            /\ \A j, k \in 1..n : j < k <=> <<a[j], a[k]>> \in before
            /\ \A k \in 1..n : PlaceOf(a[k], S, before) = k
<1> DEFINE a == Arranged(S, before)
           n == Cardinality(S)
<1>1. n \in Nat
  BY FS_CardinalityType
<1>2. \A k \in 1..n : a[k] \in S /\ PlaceOf(a[k], S, before) = k
  <2> TAKE k \in 1..n
  <2>1. PICK x \in S : PlaceOf(x, S, before) = k
    BY EveryPlaceTaken
  <2>2. a[k] = CHOOSE y \in S : PlaceOf(y, S, before) = k
    BY DEF Arranged
  <2> HIDE DEF a
  <2> QED
    BY <2>1, <2>2
<1>3. a \in [1..n -> S]
  BY <1>2 DEF Arranged
<1>4. \A x \in S : \E k \in 1..n : a[k] = x
  <2> TAKE x \in S
  <2> DEFINE k == PlaceOf(x, S, before)
  <2>1. k \in 1..n
    BY PlaceType
  <2>2. a[k] \in S /\ PlaceOf(a[k], S, before) = k
    BY <2>1, <1>2
  <2>3. a[k] = x
    BY <2>1, <2>2, EveryPlaceTaken
  <2> QED
    BY <2>1, <2>3
<1>5. \A j, k \in 1..n : j < k <=> <<a[j], a[k]>> \in before
  <2> TAKE j, k \in 1..n
  <2> HIDE DEF a
  <2>1. a[j] \in S /\ a[k] \in S
    BY <1>2
  <2>2. PlaceOf(a[j], S, before) = j /\ PlaceOf(a[k], S, before) = k
    BY <1>2
  <2>3. <<a[j], a[k]>> \in before => j < k
    BY <2>1, <2>2, PlaceRises
  <2>4. <<a[k], a[j]>> \in before => k < j
    BY <2>1, <2>2, PlaceRises
  <2>5. j # k => <<a[j], a[k]>> \in before \/ <<a[k], a[j]>> \in before
    BY <2>1, <2>2 DEF StrictlyOrders
  <2> QED
    BY <2>3, <2>4, <2>5
<1> QED
  BY <1>1, <1>2, <1>3, <1>4, <1>5
-----------------------------------------------------------------------------
LEMMA AscendingOrders ==
  ASSUME NEW S \in SUBSET Int
  PROVE  StrictlyOrders(Ascending(S), S)
BY DEF StrictlyOrders, Ascending

(* A finite set of numbers has a least: the first of them arranged.         *)
LEMMA LeastOfSet ==
  ASSUME NEW S, S \subseteq Nat, IsFiniteSet(S), S # {}
  PROVE  \E x \in S : \A y \in S : x <= y
<1> DEFINE a == Arranged(S, Ascending(S))
           n == Cardinality(S)
<1>2. S \in SUBSET Int
  OBVIOUS
<1>3. StrictlyOrders(Ascending(S), S)
  BY <1>2, AscendingOrders
<1>4. /\ n \in Nat /\ a \in [1..n -> S]
      /\ \A x \in S : \E k \in 1..n : a[k] = x
      /\ \A j, k \in 1..n : j < k <=> <<a[j], a[k]>> \in Ascending(S)
  BY <1>3, ArrangedSorts
<1> HIDE DEF a, n
<1>5. 1 \in 1..n
  <2>1. \E k : k \in 1..n
    BY <1>4
  <2> QED
    BY <1>4, <2>1
<1>6. ASSUME NEW y \in S
      PROVE  a[1] <= y
  <2>1. PICK k \in 1..n : a[k] = y
    BY <1>4
  <2>2. CASE k = 1
    BY <1>4, <2>1, <2>2
  <2>3. CASE k # 1
    <3>1. 1 < k
      BY <1>4, <2>3
    <3>2. <<a[1], a[k]>> \in Ascending(S)
      BY <1>4, <1>5, <3>1
    <3>3. a[1] < a[k]
      BY <3>2 DEF Ascending
    <3>4. a[1] \in Nat /\ y \in Nat
      BY <1>4, <1>5
    <3> QED
      BY <2>1, <3>3, <3>4
  <2> QED
    BY <2>2, <2>3
<1> QED
  BY <1>4, <1>5, <1>6

LEMMA SeqOfFunction ==
  ASSUME NEW S, NEW n \in Nat, NEW f \in [1..n -> S]
  PROVE  f \in Seq(S) /\ Len(f) = n /\ DOMAIN f = 1..n
OBVIOUS

(* The position h[k] of s the k-th element of r stems from: r holds what s  *)
(* holds at the positions in I, each once and in the order of s.            *)
Selects(h, r, s, I) ==
  /\ h \in [1..Len(r) -> I]
  /\ \A k \in 1..Len(r) : r[k] = s[h[k]]
  /\ \A i \in I : \E k \in 1..Len(r) : h[k] = i
  /\ \A j, k \in 1..Len(r) : j < k <=> h[j] < h[k]
  /\ \A k \in 1..Len(r) : k = 1 + Cardinality({i \in I : i < h[k]})

(* A list comprehension with a condition: all the elements it is to keep,   *)
(* and no other, in their order.                                            *)
THEOREM SelectedKeepsOrder ==
  ASSUME NEW S, NEW s \in Seq(S), NEW I \in SUBSET DOMAIN s
  PROVE  /\ IsFiniteSet(I) /\ Cardinality(I) \in Nat
         /\ Selected(s, I) \in Seq(S) /\ Len(Selected(s, I)) = Cardinality(I)
         /\ \E h : Selects(h, Selected(s, I), s, I)
<1> DEFINE r == Selected(s, I)
           n == Cardinality(I)
           h == Arranged(I, Ascending(I))
<1>1. Len(s) \in Nat /\ DOMAIN s = 1..Len(s) /\ I \in SUBSET (1..Len(s))
  BY LenProperties
<1>2. IsFiniteSet(I) /\ n \in Nat
  <2>1. IsFiniteSet(1..Len(s))
    BY <1>1, FS_Interval
  <2>2. IsFiniteSet(I)
    BY <1>1, <2>1, FS_Subset
  <2> QED
    BY <2>2, FS_CardinalityType
<1>3. StrictlyOrders(Ascending(I), I)
  BY <1>1, AscendingOrders
<1>4. /\ h \in [1..n -> I]
      /\ \A i \in I : \E k \in 1..n : h[k] = i
      /\ \A j, k \in 1..n : j < k <=> <<h[j], h[k]>> \in Ascending(I)
      /\ \A k \in 1..n : PlaceOf(h[k], I, Ascending(I)) = k
  BY <1>2, <1>3, ArrangedSorts
<1>5. r = [k \in 1..n |-> s[h[k]]]
  BY <1>4 DEF Selected
<1> HIDE DEF h
<1>6. r \in [1..n -> S]
  BY <1>1, <1>4, <1>5, ElementOfSeq
<1>7. r \in Seq(S) /\ Len(r) = n
  BY <1>2, <1>6, SeqOfFunction
<1>8. \A j, k \in 1..n : j < k <=> h[j] < h[k]
  BY <1>4 DEF Ascending
<1>9. \A k \in 1..n : k = 1 + Cardinality({i \in I : i < h[k]})
  <2> TAKE k \in 1..n
  <2>1. {i \in I : <<i, h[k]>> \in Ascending(I)} = {i \in I : i < h[k]}
    BY <1>4 DEF Ascending
  <2> QED
    BY <2>1, <1>4 DEF PlaceOf
<1>10. \A k \in 1..n : r[k] = s[h[k]]
  BY <1>5
<1>11. Selects(h, r, s, I)
  BY <1>4, <1>7, <1>8, <1>9, <1>10 DEF Selects
<1> QED
  BY <1>2, <1>7, <1>11
-----------------------------------------------------------------------------
LEMMA MinOfTwo ==
  ASSUME NEW a \in Int, NEW b \in Int
  PROVE  Min({a, b}) = IF a <= b THEN a ELSE b
<1>1. \E x \in {a, b} : \A y \in {a, b} : x <= y
  OBVIOUS
<1> QED
  BY <1>1 DEF Min

(* A slice: what s holds after the position from, as far as s goes.         *)
THEOREM SliceHolds ==
  ASSUME NEW S, NEW s \in Seq(S), NEW from \in Nat, NEW to \in Nat
  PROVE  /\ Slice(s, from, to) \in Seq(S)
         /\ from <= to => Len(Slice(s, from, to)) <= to - from
         /\ \A k \in DOMAIN Slice(s, from, to) :
              from + k \in DOMAIN s /\ from + k <= to /\ Slice(s, from, to)[k] = s[from + k]
         /\ \A i \in DOMAIN s :
              i > from /\ (i <= to \/ Len(Slice(s, from, to)) < to - from) =>
                i - from \in DOMAIN Slice(s, from, to)
<1> DEFINE m == Len(s)
           last == Min({to, m})
           r == Slice(s, from, to)
<1>1. m \in Nat /\ DOMAIN s = 1..m
  BY LenProperties
<1>2. last = IF to <= m THEN to ELSE m
  BY <1>1, MinOfTwo
<1>3. last \in Nat /\ last <= to /\ last <= m /\ (last = to \/ last = m)
  BY <1>1, <1>2
<1>4. r = SubSeq(s, from + 1, last)
  BY DEF Slice
<1> HIDE DEF m, last, r
<1>5. \A i \in (from + 1)..last : s[i] \in S
  <2>1. \A i \in (from + 1)..last : i \in 1..m
    BY <1>1, <1>3
  <2> QED
    BY <2>1, ElementOfSeq DEF m
<1>6. /\ r \in Seq(S)
      /\ Len(r) = IF from + 1 <= last THEN last - (from + 1) + 1 ELSE 0
      /\ \A k \in 1..(last - (from + 1) + 1) : r[k] = s[(from + 1) + k - 1]
  BY <1>3, <1>4, <1>5, SubSeqProperties
<1>7. Len(r) \in Nat /\ DOMAIN r = 1..Len(r)
  BY <1>6, LenProperties
<1>8. Len(r) = IF from < last THEN last - from ELSE 0
  BY <1>3, <1>6
<1>9. ASSUME NEW k \in 1..Len(r)
      PROVE  from + k \in 1..m /\ from + k <= to /\ r[k] = s[from + k]
  <2>1. k \in 1..(last - (from + 1) + 1) /\ (from + 1) + k - 1 = from + k
    BY <1>3, <1>7, <1>8
  <2>2. r[k] = s[from + k]
    BY <2>1, <1>6
  <2> QED
    BY <2>1, <2>2, <1>1, <1>3
<1>10. ASSUME NEW i \in 1..m, i > from, i <= to \/ Len(r) < to - from
       PROVE  i - from \in 1..Len(r)
  BY <1>10, <1>1, <1>3, <1>8
<1>11. from <= to => Len(r) <= to - from
  BY <1>3, <1>8
<1> QED
  BY <1>1, <1>6, <1>7, <1>9, <1>10, <1>11 DEF r

(* A sequence that names every element of a finite set once.                *)
LEMMA SeqOfSet ==
  ASSUME NEW S, IsFiniteSet(S), NEW s \in SetToSeqs(S)
  PROVE  s \in Seq(S) /\ IsInjective(s) /\ ToSet(s) = S /\ Len(s) = Cardinality(S)
<1> DEFINE n == Cardinality(S)
<1>1. n \in Nat
  BY FS_CardinalityType
<1>2. s \in [1..n -> S] /\ \A i, j \in 1..n : i # j => s[i] # s[j]
  BY DEF SetToSeqs
<1>3. IsFiniteSet(1..n) /\ Cardinality(1..n) = n
  BY <1>1, FS_Interval
<1>4. s \in Seq(S) /\ Len(s) = n /\ DOMAIN s = 1..n
  <2> HIDE DEF n
  <2> QED
    BY <1>1, <1>2, SeqOfFunction
<1>5. IsInjective(s)
  BY <1>2, <1>4 DEF IsInjective
<1>6. s \in Injection(1..n, S)
  BY <1>2, <1>5 DEF Injection
<1>7. s \in Surjection(1..n, S)
  BY <1>3, <1>6, FS_Injection
<1> QED
  BY <1>4, <1>5, <1>7 DEF Surjection, ToSet
=============================================================================
