--------------------------- MODULE RankingProofs ---------------------------
(***************************************************************************)
(* Theorems of Ranking, for every value of its constants, with their        *)
(* proofs.                                                                  *)
(***************************************************************************)
EXTENDS Ranking, SelectionProofs

(* s is a list of different members of S.                                   *)
Distinct(s, S) == s \in Seq(S) /\ IsInjective(s)

Falling(s, scores) ==
  \A i, j \in DOMAIN s : i < j => scores[s[i]] >= scores[s[j]]

(* s[:n]: the first elements, all of them if there are no more than n.      *)
LEMMA FirstOfHolds ==
  ASSUME NEW S, NEW s, Distinct(s, S), NEW n \in Nat
  PROVE  /\ Distinct(FirstOf(s, n), S)
         /\ Len(FirstOf(s, n)) <= n /\ Len(FirstOf(s, n)) \in Nat
         /\ \A k \in DOMAIN FirstOf(s, n) : k \in DOMAIN s /\ FirstOf(s, n)[k] = s[k]
         /\ \A i \in DOMAIN s :
              i \in DOMAIN FirstOf(s, n) \/ (i > n /\ Len(FirstOf(s, n)) = n)
<1> DEFINE r == FirstOf(s, n)
<1>1. s \in Seq(S) /\ n \in Nat /\ 0 \in Nat /\ r = Slice(s, 0, n)
  BY DEF FirstOf, Distinct
<1> HIDE DEF r
<1>2. /\ r \in Seq(S)
      /\ 0 <= n => Len(r) <= n - 0
      /\ \A k \in DOMAIN r : 0 + k \in DOMAIN s /\ 0 + k <= n /\ r[k] = s[0 + k]
      /\ \A i \in DOMAIN s :
           i > 0 /\ (i <= n \/ Len(r) < n - 0) => i - 0 \in DOMAIN r
  BY <1>1, SliceHolds
<1>3. /\ Len(r) \in Nat /\ DOMAIN r = 1..Len(r)
      /\ DOMAIN s = 1..Len(s) /\ Len(s) \in Nat
  BY <1>1, <1>2, LenProperties
<1>4. \A k \in DOMAIN r : k \in DOMAIN s /\ r[k] = s[k]
  <2> TAKE k \in DOMAIN r
  <2>1. 0 + k = k
    BY <1>3
  <2> QED
    BY <1>2, <2>1
<1>5. IsInjective(r)
  BY <1>4 DEF Distinct, IsInjective
<1>6. Len(r) <= n
  BY <1>2, <1>3
<1>7. ASSUME NEW i \in DOMAIN s, i \notin DOMAIN r
      PROVE  i > n /\ Len(r) = n
  <2>1. i \in Nat /\ i > 0 /\ i - 0 = i /\ n - 0 = n
    BY <1>3
  <2>2. ~ (i <= n) /\ ~ (Len(r) < n)
    BY <1>2, <1>7, <2>1
  <2>3. Len(r) <= n /\ Len(r) \in Int
    BY <1>3, <1>6
  <2> QED
    BY <2>1, <2>2, <2>3
<1> QED
  BY <1>2, <1>3, <1>4, <1>5, <1>6, <1>7 DEF r, Distinct

LEMMA BetterOrders ==
  ASSUME NEW S, NEW s, Distinct(s, S), NEW scores \in [S -> Int]
  PROVE  StrictlyOrders(Better(s, scores), DOMAIN s)
<1>1. /\ DOMAIN s \subseteq Int
      /\ \A i \in DOMAIN s : scores[s[i]] \in Int
  BY LenProperties, ElementOfSeq DEF Distinct
<1> QED
  BY <1>1 DEF StrictlyOrders, Better

(* The rerank keeps every candidate and puts the better ones first.         *)
LEMMA RerankHolds ==
  ASSUME NEW S, NEW s, Distinct(s, S), NEW scores \in [S -> Int]
  PROVE  /\ Distinct(Rerank(s, scores), S)
         /\ ToSet(Rerank(s, scores)) = ToSet(s)
         /\ Falling(Rerank(s, scores), scores)
<1> DEFINE r == Rerank(s, scores)
           n == Len(s)
           a == Arranged(DOMAIN s, Better(s, scores))
<1>1. s \in Seq(S) /\ IsInjective(s) /\ n \in Nat /\ DOMAIN s = 1..n
  BY LenProperties DEF Distinct
<1>2. IsFiniteSet(DOMAIN s) /\ Cardinality(DOMAIN s) = n
  <2> HIDE DEF n
  <2>1. IsFiniteSet(1..n) /\ Cardinality(1..n) = n
    BY <1>1, FS_Interval
  <2> QED
    BY <1>1, <2>1
<1>3. /\ a \in [1..n -> DOMAIN s]
      /\ \A i \in DOMAIN s : \E k \in 1..n : a[k] = i
      /\ \A j, k \in 1..n : j < k <=> <<a[j], a[k]>> \in Better(s, scores)
  BY <1>2, BetterOrders, ArrangedSorts
<1>4. r = [k \in 1..n |-> s[a[k]]]
  BY <1>3 DEF Rerank
<1> HIDE DEF a, r
<1>5. r \in [1..n -> S]
  BY <1>1, <1>3, <1>4, ElementOfSeq
<1>6. r \in Seq(S) /\ DOMAIN r = 1..n
  <2> HIDE DEF n
  <2> QED
    BY <1>1, <1>5, SeqOfFunction
<1>7. \A k \in 1..n : r[k] = s[a[k]]
  BY <1>4
<1>8. ASSUME NEW j \in 1..n, NEW k \in 1..n, r[j] = r[k]
      PROVE  j = k
  <2>1. a[j] = a[k]
    BY <1>1, <1>3, <1>7, <1>8 DEF IsInjective
  <2>2. ~ (<<a[j], a[j]>> \in Better(s, scores))
    BY <1>3, BetterOrders DEF StrictlyOrders
  <2> QED
    BY <1>1, <1>3, <2>1, <2>2
<1>9. ToSet(r) = ToSet(s)
  <2>1. DOMAIN r = DOMAIN s
    BY <1>1, <1>6
  <2>2. \A k \in DOMAIN r : a[k] \in DOMAIN s /\ r[k] = s[a[k]]
    BY <1>3, <1>6, <1>7
  <2>3. \A i \in DOMAIN s : \E k \in DOMAIN r : a[k] = i
    BY <1>3, <1>6
  <2> HIDE DEF n
  <2>4. ToSet(r) \subseteq ToSet(s)
    BY <2>2 DEF ToSet
  <2>5. ToSet(s) \subseteq ToSet(r)
    BY <2>2, <2>3 DEF ToSet
  <2> QED
    BY <2>4, <2>5
<1>10. ASSUME NEW j \in 1..n, NEW k \in 1..n, j < k
       PROVE  scores[r[j]] >= scores[r[k]]
  <2>1. <<a[j], a[k]>> \in Better(s, scores)
    BY <1>3, <1>10
  <2>2. scores[r[j]] > scores[r[k]] \/ scores[r[j]] = scores[r[k]]
    BY <1>7, <2>1 DEF Better
  <2>3. scores[r[j]] \in Int /\ scores[r[k]] \in Int
    BY <1>5
  <2> QED
    BY <2>2, <2>3
<1> QED
  BY <1>6, <1>8, <1>9, <1>10 DEF Distinct, IsInjective, Falling, r

(* The gate drops what does not pass, and nothing else.                     *)
LEMMA GateHolds ==
  ASSUME NEW S, NEW s, Distinct(s, S), NEW scores \in [S -> Int], Falling(s, scores)
  PROVE  /\ Distinct(Gate(s, scores), S)
         /\ ToSet(Gate(s, scores)) = {t \in ToSet(s) : Passes(t, scores)}
         /\ Falling(Gate(s, scores), scores)
<1> DEFINE I == {i \in DOMAIN s : Passes(s[i], scores)}
           r == Gate(s, scores)
<1>1. s \in Seq(S) /\ IsInjective(s) /\ I \in SUBSET DOMAIN s /\ r = Selected(s, I)
  BY DEF Distinct, Gate
<1> HIDE DEF r
<1>2. r \in Seq(S) /\ \E h : Selects(h, r, s, I)
  <2> HIDE DEF I
  <2> QED
    BY <1>1, SelectedKeepsOrder
<1>3. Len(r) \in Nat /\ DOMAIN r = 1..Len(r)
  BY <1>2, LenProperties
<1>4. PICK h : /\ h \in [DOMAIN r -> I]
               /\ \A k \in DOMAIN r : r[k] = s[h[k]]
               /\ \A i \in I : \E k \in DOMAIN r : h[k] = i
               /\ \A j, k \in DOMAIN r : j < k <=> h[j] < h[k]
  BY <1>2, <1>3 DEF Selects
<1>5. \A k \in DOMAIN r : h[k] \in DOMAIN s /\ Passes(s[h[k]], scores)
  BY <1>4
<1>6. ASSUME NEW j \in DOMAIN r, NEW k \in DOMAIN r, r[j] = r[k]
      PROVE  j = k
  <2>1. h[j] = h[k]
    BY <1>1, <1>4, <1>5, <1>6 DEF IsInjective
  <2>2. h[j] \in Int
    BY <1>1, <1>5, LenProperties
  <2>3. ~ (j < k) /\ ~ (k < j)
    BY <1>4, <2>1, <2>2
  <2> QED
    BY <1>3, <2>3
<1>7. ToSet(r) = {t \in ToSet(s) : Passes(t, scores)}
  BY <1>4, <1>5 DEF ToSet
<1>8. Falling(r, scores)
  BY <1>4, <1>5 DEF Falling
<1> QED
  BY <1>2, <1>6, <1>7, <1>8 DEF Distinct, IsInjective, r

LEMMA DistinctCounts ==
  ASSUME NEW S, NEW s, Distinct(s, S)
  PROVE  /\ IsFiniteSet(ToSet(s)) /\ Cardinality(ToSet(s)) = Len(s)
         /\ ToSet(s) \subseteq S
         /\ \A t : t \in ToSet(s) <=> \E i \in DOMAIN s : s[i] = t
<1> DEFINE n == Len(s)
<1>1. s \in Seq(S) /\ IsInjective(s) /\ n \in Nat /\ DOMAIN s = 1..n
  BY LenProperties DEF Distinct
<1> HIDE DEF n
<1>2. \A t : t \in ToSet(s) <=> \E i \in DOMAIN s : s[i] = t
  BY DEF ToSet
<1>3. \A i \in 1..n : s[i] \in S
  BY <1>1, ElementOfSeq
<1>4. s \in Bijection(1..n, ToSet(s))
  <2>1. s \in [1..n -> ToSet(s)]
    BY <1>1, <1>2
  <2> QED
    BY <1>1, <1>2, <2>1 DEF IsInjective, Bijection, Injection, Surjection
<1>5. IsFiniteSet(1..n) /\ Cardinality(1..n) = n
  BY <1>1, FS_Interval
<1>6. IsFiniteSet(ToSet(s)) /\ Cardinality(ToSet(s)) = n
  BY <1>4, <1>5, FS_Bijection DEF ExistsBijection
<1> QED
  BY <1>1, <1>2, <1>3, <1>6 DEF n
-----------------------------------------------------------------------------
(* What the docstring of compute_matches promises of the list it returns,   *)
(* pool being the candidates.                                               *)
BestOf(matches, pool, scores) ==
  /\ Falling(matches, scores)
  /\ ToSet(matches) \subseteq {t \in pool : Passes(t, scores)}
  /\ Len(matches) <= MaxMatches
  /\ \A t \in pool \ ToSet(matches) : Passes(t, scores) =>
       /\ Len(matches) = MaxMatches
       /\ \A u \in ToSet(matches) : scores[u] >= scores[t]

LEMMA CutHolds ==
  ASSUME NEW S, NEW s, Distinct(s, S), NEW scores \in [S -> Int], Falling(s, scores),
         NEW pool, ToSet(s) = {t \in pool : Passes(t, scores)}
  PROVE  BestOf(FirstOf(s, MaxMatches), pool, scores)
<1> DEFINE r == FirstOf(s, MaxMatches)
<1>1. MaxMatches \in Nat
  BY RankingConstants
<1>2. /\ Distinct(r, S)
      /\ Len(r) <= MaxMatches /\ Len(r) \in Nat
      /\ \A k \in DOMAIN r : k \in DOMAIN s /\ r[k] = s[k]
      /\ \A i \in DOMAIN s : i \in DOMAIN r \/ (i > MaxMatches /\ Len(r) = MaxMatches)
  BY <1>1, FirstOfHolds
<1> HIDE DEF r
<1>3. /\ \A t : t \in ToSet(r) <=> \E i \in DOMAIN r : r[i] = t
      /\ \A t : t \in ToSet(s) <=> \E i \in DOMAIN s : s[i] = t
  BY <1>2, DistinctCounts
<1>4. Falling(r, scores)
  BY <1>2 DEF Falling
<1>5. ToSet(r) \subseteq {t \in pool : Passes(t, scores)}
  BY <1>2, <1>3
<1>6. ASSUME NEW t \in pool \ ToSet(r), Passes(t, scores)
      PROVE  /\ Len(r) = MaxMatches
             /\ \A u \in ToSet(r) : scores[u] >= scores[t]
  <2>1. PICK i \in DOMAIN s : s[i] = t
    BY <1>3, <1>6
  <2>2. i \notin DOMAIN r
    BY <1>2, <1>3, <1>6, <2>1
  <2>3. i > MaxMatches /\ Len(r) = MaxMatches
    BY <1>2, <2>2
  <2>4. ASSUME NEW u \in ToSet(r)
        PROVE  scores[u] >= scores[t]
    <3>1. PICK k \in DOMAIN r : r[k] = u
      BY <1>3
    <3>2. k \in DOMAIN s /\ s[k] = u
      BY <1>2, <3>1
    <3>3. i \in Int /\ k \in Int /\ k <= MaxMatches
      BY <1>2, <2>3, LenProperties DEF Distinct
    <3>4. k < i
      BY <1>1, <2>3, <3>3
    <3> QED
      BY <2>1, <3>2, <3>4 DEF Falling
  <2> QED
    BY <2>3, <2>4
<1> QED
  BY <1>2, <1>4, <1>5, <1>6 DEF BestOf, r

(* retrieval/matching.py, for every fused order and all scores: what        *)
(* compute_matches returns is free of duplicates, in falling order, over    *)
(* the threshold, without the ticket itself; it is as long as the           *)
(* candidates allow, and none left out is better.                           *)
THEOREM ComputedAreBest ==
  ASSUME NEW S, NEW order, Distinct(order, S), NEW scores \in [S -> Int]
  PROVE  /\ Distinct(ComputeMatches(order, scores), S)
         /\ BestOf(ComputeMatches(order, scores), ToSet(Candidates(order)), scores)
<1> DEFINE c == Candidates(order)
           r == Rerank(c, scores)
           g == Gate(r, scores)
<1>1. PoolSize \in Nat /\ MaxMatches \in Nat
  BY RankingConstants
<1>2. Distinct(c, S)
  BY <1>1, FirstOfHolds DEF Candidates
<1> HIDE DEF c
<1>3. Distinct(r, S) /\ ToSet(r) = ToSet(c) /\ Falling(r, scores)
  BY <1>2, RerankHolds
<1> HIDE DEF r
<1>4. /\ Distinct(g, S) /\ ToSet(g) = {t \in ToSet(r) : Passes(t, scores)}
      /\ Falling(g, scores)
  BY <1>3, GateHolds
<1> HIDE DEF g
<1>5. Distinct(FirstOf(g, MaxMatches), S)
  BY <1>1, <1>4, FirstOfHolds
<1>6. BestOf(FirstOf(g, MaxMatches), ToSet(c), scores)
  BY <1>3, <1>4, CutHolds
<1> QED
  BY <1>5, <1>6 DEF ComputeMatches, c, r, g
-----------------------------------------------------------------------------
LEMMA TypeGives ==
  ASSUME TypeOK
  PROVE  /\ Distinct(fused, Ticket) /\ score \in [Ticket -> Int]
         /\ IsFiniteSet(Indexed) /\ Indexed \subseteq Ticket
<1>1. Distinct(fused, Ticket)
  BY DEF TypeOK, Distinct
<1>2. \A t \in Ticket : score[t] \in Int
  BY RankingConstants DEF TypeOK
<1>3. score \in [Ticket -> Int]
  BY <1>2 DEF TypeOK
<1> QED
  BY <1>1, <1>3, DistinctCounts DEF Indexed

(* TypeOK holds in every reachable state: the fused list names no point     *)
(* twice, which is what one point id for one ticket is for.                 *)
THEOREM RankingTypeCorrect == Spec => []TypeOK
<1>1. Init => TypeOK
  <2> SUFFICES ASSUME Init PROVE TypeOK
    OBVIOUS
  <2>1. fused \in Seq(Ticket) /\ DOMAIN fused = {}
    BY DEF Init
  <2> QED
    BY <2>1 DEF Init, TypeOK, IsInjective
<1>2. TypeOK /\ [Next]_vars => TypeOK'
  <2> SUFFICES ASSUME TypeOK, [Next]_vars
               PROVE  TypeOK'
    OBVIOUS
  <2>1. ASSUME NEW t \in Ticket, IndexTicket(t)
        PROVE  TypeOK'
    <3>1. IsFiniteSet(Indexed \cup {t}) /\ Indexed \cup {t} \subseteq Ticket
      BY TypeGives, FS_AddElement
    <3>2. fused' \in SetToSeqs(Indexed \cup {t})
      BY <2>1 DEF IndexTicket
    <3>3. fused' \in Seq(Indexed \cup {t}) /\ IsInjective(fused')
      BY <3>1, <3>2, SeqOfSet
    <3>4. fused' \in Seq(Ticket)
      BY <3>1, <3>3
    <3>5. score' \in [Ticket -> Score]
      BY <2>1 DEF IndexTicket, TypeOK
    <3> QED
      BY <3>3, <3>4, <3>5 DEF TypeOK
  <2>2. ASSUME NEW t \in Ticket, DeindexTicket(t)
        PROVE  TypeOK'
    <3>1. IsFiniteSet(Indexed \ {t}) /\ Indexed \ {t} \subseteq Ticket
      BY TypeGives, FS_RemoveElement
    <3>2. fused' \in SetToSeqs(Indexed \ {t})
      BY <2>2 DEF DeindexTicket
    <3>3. fused' \in Seq(Indexed \ {t}) /\ IsInjective(fused')
      BY <3>1, <3>2, SeqOfSet
    <3>4. fused' \in Seq(Ticket)
      BY <3>1, <3>3
    <3>5. score' \in [Ticket -> Score]
      BY <2>2 DEF DeindexTicket, TypeOK
    <3> QED
      BY <3>3, <3>4, <3>5 DEF TypeOK
  <2>3. CASE UNCHANGED vars
    BY <2>3 DEF vars, TypeOK
  <2> QED
    BY <2>1, <2>2, <2>3 DEF Next
<1> QED
  BY <1>1, <1>2, PTL DEF Spec

(* top_k of the fused search: candidates are points, and all of them if     *)
(* they fit the pool.                                                       *)
LEMMA PoolHolds ==
  ASSUME NEW S, NEW order, Distinct(order, S)
  PROVE  /\ ToSet(Candidates(order)) \subseteq ToSet(order)
         /\ Cardinality(ToSet(order)) <= PoolSize =>
              ToSet(Candidates(order)) = ToSet(order)
<1> DEFINE c == Candidates(order)
<1>1. PoolSize \in Nat
  BY RankingConstants
<1>2. /\ Distinct(c, S)
      /\ \A k \in DOMAIN c : k \in DOMAIN order /\ c[k] = order[k]
      /\ \A i \in DOMAIN order :
           i \in DOMAIN c \/ (i > PoolSize /\ Len(c) = PoolSize)
  BY <1>1, FirstOfHolds DEF Candidates
<1> HIDE DEF c
<1>3. /\ \A t : t \in ToSet(c) <=> \E i \in DOMAIN c : c[i] = t
      /\ \A t : t \in ToSet(order) <=> \E i \in DOMAIN order : order[i] = t
      /\ Cardinality(ToSet(order)) = Len(order)
  BY <1>2, DistinctCounts
<1>4. ToSet(c) \subseteq ToSet(order)
  BY <1>2, <1>3
<1>5. ASSUME Cardinality(ToSet(order)) <= PoolSize
      PROVE  ToSet(order) \subseteq ToSet(c)
  <2>1. ASSUME NEW i \in DOMAIN order
        PROVE  i \in DOMAIN c
    <3>1. i \in Int /\ i <= Len(order) /\ Len(order) \in Int
      BY LenProperties DEF Distinct
    <3>2. Len(order) <= PoolSize
      BY <1>3, <1>5
    <3>3. ~ (i > PoolSize)
      BY <1>1, <3>1, <3>2
    <3> QED
      BY <1>2, <3>3
  <2> QED
    BY <1>2, <1>3, <2>1
<1> QED
  BY <1>4, <1>5 DEF c
-----------------------------------------------------------------------------
LEMMA ShownHolds ==
  ASSUME TypeOK
  PROVE  /\ Distinct(ComputeMatches(fused, score), Ticket)
         /\ BestOf(ComputeMatches(fused, score), ToSet(Candidates(fused)), score)
         /\ ToSet(Candidates(fused)) \subseteq Indexed
         /\ Cardinality(Indexed) <= PoolSize => ToSet(Candidates(fused)) = Indexed
         /\ Cardinality(Shown) = Len(ComputeMatches(fused, score))
         /\ IsFiniteSet(Shown) /\ Shown = ToSet(ComputeMatches(fused, score))
         /\ Passing = {t \in Indexed : Passes(t, score)}
<1>1. Distinct(fused, Ticket) /\ score \in [Ticket -> Int]
  BY TypeGives
<1>2. /\ Distinct(ComputeMatches(fused, score), Ticket)
      /\ BestOf(ComputeMatches(fused, score), ToSet(Candidates(fused)), score)
  BY <1>1, ComputedAreBest
<1>3. Passing = {t \in Indexed : Passes(t, score)}
  BY DEF Passing, Passes
<1> QED
  BY <1>1, <1>2, <1>3, PoolHolds, DistinctCounts DEF Indexed, Shown, ShownFor

LEMMA TypeMakesBest == TypeOK => MatchesAreBest
<1> SUFFICES ASSUME TypeOK
             PROVE  MatchesAreBest
  OBVIOUS
<1> DEFINE matches == ComputeMatches(fused, score)
           pool == ToSet(Candidates(fused))
<1>1. /\ Distinct(matches, Ticket) /\ BestOf(matches, pool, score)
      /\ pool \subseteq Indexed
      /\ Cardinality(Shown) = Len(matches) /\ Shown = ToSet(matches)
      /\ Passing = {t \in Indexed : Passes(t, score)}
  BY ShownHolds
<1> HIDE DEF matches, pool
<1>2. IsInjective(matches)
  BY <1>1 DEF Distinct
<1>3. Shown \subseteq Passing
  BY <1>1 DEF BestOf
<1>4. \A i, j \in DOMAIN matches : i < j => score[matches[i]] >= score[matches[j]]
  BY <1>1 DEF BestOf, Falling
<1>5. \A t \in (Passing \cap pool) \ Shown :
        /\ Cardinality(Shown) = MaxMatches
        /\ \A u \in Shown : score[u] >= score[t]
  BY <1>1 DEF BestOf
<1> QED
  BY <1>2, <1>3, <1>4, <1>5 DEF MatchesAreBest, matches, pool

(* The list compute_matches returns is the one a definition without sorting *)
(* or slicing picks, in every reachable state.                              *)
THEOREM ShowsTheBest == Spec => []MatchesAreBest
  BY RankingTypeCorrect, TypeMakesBest, PTL

LEMMA TypeMakesAgree == TypeOK => AgreesWithMatchesOf
<1> SUFFICES ASSUME TypeOK, Cardinality(Indexed) <= PoolSize,
                    Cardinality(Passing) <= MaxMatches
             PROVE  Shown = Passing
  BY DEF AgreesWithMatchesOf
<1> DEFINE matches == ComputeMatches(fused, score)
<1>1. /\ BestOf(matches, Indexed, score)
      /\ Cardinality(Shown) = Len(matches) /\ IsFiniteSet(Shown)
      /\ Shown = ToSet(matches)
      /\ Passing = {t \in Indexed : Passes(t, score)}
  BY ShownHolds
<1> HIDE DEF matches
<1>2. Shown \subseteq Passing
  BY <1>1 DEF BestOf
<1>3. ASSUME NEW t \in Passing \ Shown
      PROVE  FALSE
  <2>1. Cardinality(Shown) = MaxMatches
    BY <1>1, <1>3 DEF BestOf
  <2>2. /\ IsFiniteSet(Passing)
    BY TypeGives, <1>1, FS_Subset
  <2>3. IsFiniteSet(Shown \cup {t}) /\ Shown \cup {t} \subseteq Passing
    BY <1>1, <1>2, <1>3, FS_AddElement
  <2>4. Cardinality(Shown \cup {t}) = Cardinality(Shown) + 1
    BY <1>1, <1>3, FS_AddElement
  <2>5. Cardinality(Shown \cup {t}) <= Cardinality(Passing)
    BY <2>2, <2>3, FS_Subset
  <2>6. Cardinality(Passing) \in Nat /\ Cardinality(Shown) \in Nat
    BY <1>1, <2>2, FS_CardinalityType
  <2> QED
    BY <2>1, <2>4, <2>5, <2>6
<1> QED
  BY <1>2, <1>3

(* What Service assumes of the pipeline holds in every reachable state.     *)
THEOREM AgreesWithTheService == Spec => []AgreesWithMatchesOf
  BY RankingTypeCorrect, TypeMakesAgree, PTL
-----------------------------------------------------------------------------
LEMMA Displaced ==
  ASSUME NEW S, NEW o1, NEW o2, Distinct(o1, S), Distinct(o2, S),
         NEW s1 \in [S -> Int], NEW s2 \in [S -> Int], NEW t \in S,
         t \notin ToSet(o1), ToSet(o2) = ToSet(o1) \cup {t},
         Cardinality(ToSet(o1)) < PoolSize,
         \A x \in S \ {t} : s1[x] = s2[x],
         NEW u \in ShownFor(o2, s2) \ (ShownFor(o1, s1) \cup {t})
  PROVE  \E v \in ShownFor(o1, s1) \ ShownFor(o2, s2) : s1[v] = s1[u]
<1> DEFINE m1 == ComputeMatches(o1, s1)
           m2 == ComputeMatches(o2, s2)
           A == ShownFor(o1, s1)
           B == ShownFor(o2, s2)
<1>1. /\ Cardinality(ToSet(o1)) <= PoolSize /\ Cardinality(ToSet(o2)) <= PoolSize
      /\ ToSet(o1) \subseteq S /\ ToSet(o2) \subseteq S
  <2>1. IsFiniteSet(ToSet(o1)) /\ ToSet(o1) \subseteq S /\ ToSet(o2) \subseteq S
    BY DistinctCounts
  <2>2. Cardinality(ToSet(o1) \cup {t}) = Cardinality(ToSet(o1)) + 1
    BY <2>1, FS_AddElement
  <2>3. Cardinality(ToSet(o1)) \in Nat /\ PoolSize \in Nat
    BY <2>1, FS_CardinalityType, RankingConstants
  <2> QED
    BY <2>1, <2>2, <2>3
<1>2. /\ Distinct(m1, S) /\ BestOf(m1, ToSet(o1), s1)
      /\ Distinct(m2, S) /\ BestOf(m2, ToSet(o2), s2)
  <2>1. /\ ToSet(Candidates(o1)) = ToSet(o1)
        /\ ToSet(Candidates(o2)) = ToSet(o2)
    BY <1>1, PoolHolds
  <2>2. Distinct(m1, S) /\ BestOf(m1, ToSet(Candidates(o1)), s1)
    BY ComputedAreBest
  <2>3. Distinct(m2, S) /\ BestOf(m2, ToSet(Candidates(o2)), s2)
    BY ComputedAreBest
  <2> QED
    BY <2>1, <2>2, <2>3
<1>3. A = ToSet(m1) /\ B = ToSet(m2)
  BY DEF ShownFor
<1> HIDE DEF m1, m2
<1>4. /\ IsFiniteSet(A) /\ Cardinality(A) = Len(m1) /\ Len(m1) \in Nat
      /\ IsFiniteSet(B) /\ Cardinality(B) = Len(m2) /\ Len(m2) \in Nat
  BY <1>2, <1>3, DistinctCounts, LenProperties DEF Distinct
<1> HIDE DEF A, B
<1>5. \A x \in S \ {t} : Passes(x, s1) <=> Passes(x, s2)
  BY DEF Passes
<1>6. u \in B /\ u \notin A /\ u # t
  BY DEF A, B
<1>7. u \in ToSet(o1) /\ Passes(u, s1)
  <2>1. u \in ToSet(o2) /\ Passes(u, s2)
    BY <1>2, <1>3, <1>6 DEF BestOf
  <2> QED
    BY <1>1, <1>5, <1>6, <2>1
<1>8. Len(m1) = MaxMatches /\ \A v \in A : s1[v] >= s1[u]
  BY <1>2, <1>3, <1>6, <1>7 DEF BestOf
<1>9. \E v \in A : v \notin B
  <2> SUFFICES ASSUME A \subseteq B
               PROVE  FALSE
    OBVIOUS
  <2>1. A \cup {u} \subseteq B
    BY <1>6
  <2>2. Cardinality(A \cup {u}) = Cardinality(A) + 1
    BY <1>4, <1>6, FS_AddElement
  <2>3. Cardinality(A \cup {u}) <= Cardinality(B)
    BY <1>4, <2>1, FS_Subset
  <2>4. Len(m2) <= MaxMatches
    BY <1>2 DEF BestOf
  <2> QED
    BY <1>4, <1>8, <2>2, <2>3, <2>4
<1>10. PICK v \in A : v \notin B
  BY <1>9
<1>11. v \in ToSet(o1) /\ v # t /\ v \in ToSet(o2) /\ Passes(v, s2)
  <2>1. v \in ToSet(o1) /\ Passes(v, s1)
    BY <1>2, <1>3, <1>10 DEF BestOf
  <2> QED
    BY <1>1, <1>5, <2>1
<1>12. s2[u] >= s2[v]
  BY <1>2, <1>3, <1>6, <1>10, <1>11 DEF BestOf
<1>13. s1[u] = s2[u] /\ s1[v] = s2[v] /\ s1[u] \in Int /\ s1[v] \in Int
  BY <1>1, <1>6, <1>7, <1>11
<1>14. s1[v] = s1[u]
  BY <1>8, <1>10, <1>12, <1>13
<1> QED
  BY <1>10, <1>14 DEF A, B

(* docs/adr/0011, the reach of one indexing: while the points fit the pool, *)
(* every step of every behaviour brings in beside the new ticket only what  *)
(* was level with a ticket that goes.                                       *)
THEOREM NewcomersOnlyDisplace == Spec => NewcomerOnlyDisplaces
<1> DEFINE Displaces ==
      LET before == Shown
          after  == ShownFor(fused', score')
      IN \A t \in Ticket :
           (t \notin Indexed /\ Indexed' = Indexed \cup {t}
            /\ Cardinality(Indexed) < PoolSize) =>
             \A u \in after \ (before \cup {t}) :
               \E v \in before \ after : score[v] = score[u]
<1>1. TypeOK /\ TypeOK' /\ [Next]_vars => Displaces
  <2> SUFFICES ASSUME TypeOK, TypeOK', [Next]_vars, NEW t \in Ticket,
                      t \notin Indexed, Indexed' = Indexed \cup {t},
                      Cardinality(Indexed) < PoolSize,
                      NEW u \in ShownFor(fused', score') \ (Shown \cup {t})
               PROVE  \E v \in Shown \ ShownFor(fused', score') : score[v] = score[u]
    OBVIOUS
  <2>1. ASSUME NEW x \in Ticket, IndexTicket(x)
        PROVE  \A y \in Ticket \ {t} : score[y] = score'[y]
    <3>1. IsFiniteSet(Indexed \cup {x})
      BY TypeGives, FS_AddElement
    <3>2. fused' \in SetToSeqs(Indexed \cup {x})
      BY <2>1 DEF IndexTicket
    <3>3. Indexed' = Indexed \cup {x}
      BY <3>1, <3>2, SeqOfSet DEF Indexed
    <3>4. x = t
      BY <3>3
    <3> QED
      BY <2>1, <3>4 DEF IndexTicket, TypeOK
  <2>2. ASSUME NEW x \in Ticket, DeindexTicket(x)
        PROVE  FALSE
    <3>1. IsFiniteSet(Indexed \ {x})
      BY TypeGives, FS_RemoveElement
    <3>2. fused' \in SetToSeqs(Indexed \ {x})
      BY <2>2 DEF DeindexTicket
    <3>3. Indexed' = Indexed \ {x}
      BY <3>1, <3>2, SeqOfSet DEF Indexed
    <3> QED
      BY <3>3
  <2>3. ASSUME UNCHANGED vars
        PROVE  FALSE
    <3>1. Indexed' = Indexed
      BY <2>3 DEF vars, Indexed
    <3> QED
      BY <3>1
  <2>4. \A y \in Ticket \ {t} : score[y] = score'[y]
    BY <2>1, <2>2, <2>3 DEF Next
  <2>5. PICK f1 : f1 = fused
    OBVIOUS
  <2>6. PICK f2 : f2 = fused'
    OBVIOUS
  <2>7. PICK s1 : s1 = score
    OBVIOUS
  <2>8. PICK s2 : s2 = score'
    OBVIOUS
  <2>9. /\ Distinct(f1, Ticket) /\ s1 \in [Ticket -> Int]
        /\ Distinct(f2, Ticket) /\ s2 \in [Ticket -> Int]
    <3>1. Distinct(f2, Ticket)
      BY <2>6 DEF TypeOK, Distinct
    <3>2. \A y \in Ticket : s2[y] \in Int
      BY <2>8, RankingConstants DEF TypeOK
    <3>3. s2 \in [Ticket -> Int]
      BY <2>8, <3>2 DEF TypeOK
    <3> QED
      BY <2>5, <2>7, <3>1, <3>3, TypeGives
  <2>10. /\ ToSet(f1) = Indexed /\ ToSet(f2) = Indexed'
         /\ ShownFor(f1, s1) = Shown /\ ShownFor(f2, s2) = ShownFor(fused', score')
    BY <2>5, <2>6, <2>7, <2>8 DEF Indexed, Shown
  <2>11. /\ t \notin ToSet(f1) /\ ToSet(f2) = ToSet(f1) \cup {t}
         /\ Cardinality(ToSet(f1)) < PoolSize
         /\ \A y \in Ticket \ {t} : s1[y] = s2[y]
         /\ u \in ShownFor(f2, s2) \ (ShownFor(f1, s1) \cup {t})
    BY <2>4, <2>7, <2>8, <2>10
  <2>12. \E v \in ShownFor(f1, s1) \ ShownFor(f2, s2) : s1[v] = s1[u]
    BY <2>9, <2>11, Displaced
  <2> QED
    BY <2>7, <2>10, <2>12
<1> QED
  BY <1>1, RankingTypeCorrect, PTL DEF Spec, NewcomerOnlyDisplaces
=============================================================================
