-------------------------- MODULE EvaluationProofs --------------------------
(***************************************************************************)
(* Theorems of Seeding and Evaluation, for every value of the constants,    *)
(* with their proofs.                                                       *)
(***************************************************************************)
EXTENDS Evaluation, SelectionProofs

Groups  == {"member", "distractor", "query"}
Entries == [group   : Groups,
            cluster : {ClusterIds[i] : i \in 1..8} \cup {None},
            mark    : {"low-lexical-overlap", "near-miss", "cross-cluster-confusable", None}]

Distractors == {e \in Entries : e.group = "distractor"}
NoNearMiss  == {e \in Entries : e.mark # "near-miss"}

LEMMA FixtureParts ==
  /\ CLUSTERS \in Seq(NoNearMiss) /\ Len(CLUSTERS) = 40
  /\ DISTRACTORS \in Seq(Distractors)
  /\ DEMO_QUERIES \in Seq(NoNearMiss)
<1>1. Len(ClusterIds) = 8 /\ DOMAIN ClusterIds = 1..8
  BY DEF ClusterIds
<1>2. ASSUME NEW g \in Groups, NEW c \in {ClusterIds[i] : i \in 1..8} \cup {None},
             NEW m \in {"low-lexical-overlap", "near-miss", "cross-cluster-confusable", None}
      PROVE  /\ Entry(g, c, m) \in Entries
             /\ g = "distractor" => Entry(g, c, m) \in Distractors
             /\ m # "near-miss" => Entry(g, c, m) \in NoNearMiss
  BY DEF Entry, Entries, Distractors, NoNearMiss
<1>3. ASSUME NEW n \in Nat, NEW S, NEW e \in S
      PROVE  Times(n, e) \in Seq(S)
  <2>1. Times(n, e) \in [1..n -> S]
    BY DEF Times
  <2> QED
    BY <2>1, SeqOfFunction
<1>4. ASSUME NEW m \in {"near-miss", None}
      PROVE  OnePerCluster("distractor", m) \in Seq(Distractors)
  <2>1. \A i \in 1..8 : Entry("distractor", ClusterIds[i], m) \in Distractors
    BY <1>2 DEF Groups
  <2>2. OnePerCluster("distractor", m) \in [1..8 -> Distractors]
    BY <1>1, <2>1 DEF OnePerCluster
  <2> QED
    BY <2>2, SeqOfFunction
<1>5. CLUSTERS \in Seq(NoNearMiss) /\ Len(CLUSTERS) = 40
  <2>1. ASSUME NEW k \in 1..40
        PROVE  1 + (k - 1) \div 5 \in 1..8
    OBVIOUS
  <2>2. \A k \in 1..40 :
          Entry("member", ClusterIds[1 + (k - 1) \div 5],
                IF k % 5 = 0 THEN "low-lexical-overlap" ELSE None) \in NoNearMiss
    <3> TAKE k \in 1..40
    <3>1. PICK i \in 1..8 : i = 1 + (k - 1) \div 5
      BY <2>1
    <3>2. PICK m \in {"low-lexical-overlap", None} :
            m = IF k % 5 = 0 THEN "low-lexical-overlap" ELSE None
      OBVIOUS
    <3>3. m # "near-miss"
      BY NoneIsNoMark
    <3> QED
      BY <1>2, <3>1, <3>2, <3>3 DEF Groups
  <2>3. 5 * Len(ClusterIds) = 40
    BY <1>1
  <2>4. CLUSTERS \in [1..40 -> NoNearMiss]
    BY <2>2, <2>3 DEF CLUSTERS
  <2> QED
    BY <2>4, SeqOfFunction
<1>6. DISTRACTORS \in Seq(Distractors)
  <2>1. /\ OnePerCluster("distractor", None) \in Seq(Distractors)
        /\ OnePerCluster("distractor", "near-miss") \in Seq(Distractors)
    BY <1>4
  <2>2. /\ Times(8, Entry("distractor", None, None)) \in Seq(Distractors)
        /\ Times(3, Entry("distractor", None, "cross-cluster-confusable")) \in Seq(Distractors)
    BY <1>2, <1>3 DEF Groups
  <2> QED
    BY <2>1, <2>2 DEF DISTRACTORS
<1>7. DEMO_QUERIES \in Seq(NoNearMiss)
  <2>1. Times(2, Entry("query", None, None)) \in Seq(NoNearMiss)
    BY <1>2, <1>3, NoneIsNoMark DEF Groups
  <2>2. /\ Entry("query", ClusterIds[1], None) \in NoNearMiss
        /\ Entry("query", ClusterIds[4], None) \in NoNearMiss
        /\ Entry("query", ClusterIds[8], None) \in NoNearMiss
    BY <1>2, NoneIsNoMark DEF Groups
  <2>3. <<Entry("query", ClusterIds[1], None), Entry("query", ClusterIds[4], None),
          Entry("query", ClusterIds[8], None)>> \in Seq(NoNearMiss)
    BY <2>2
  <2> QED
    BY <2>1, <2>3 DEF DEMO_QUERIES
<1> QED
  BY <1>5, <1>6, <1>7

LEMMA FixtureType ==
  /\ Fixture \in Seq(Entries) /\ IsFiniteSet(DOMAIN Fixture) /\ DOMAIN Fixture \subseteq Nat
<1>1. Fixture \in Seq(Entries)
  <2>1. CLUSTERS \in Seq(Entries) /\ DISTRACTORS \in Seq(Entries) /\ DEMO_QUERIES \in Seq(Entries)
    BY FixtureParts DEF Distractors, NoNearMiss
  <2> QED
    BY <2>1 DEF Fixture
<1>2. Len(Fixture) \in Nat /\ DOMAIN Fixture = 1..Len(Fixture)
  BY <1>1, LenProperties
<1>3. IsFiniteSet(1..Len(Fixture))
  BY <1>2, FS_Interval
<1> QED
  BY <1>1, <1>2, <1>3

Joined(s, a, b, c) ==
  /\ Len(a) \in Nat /\ DOMAIN a = 1..Len(a)
  /\ Len(b) \in Nat /\ DOMAIN b = 1..Len(b)
  /\ Len(c) \in Nat /\ DOMAIN c = 1..Len(c)
  /\ DOMAIN s = 1..(Len(a) + Len(b) + Len(c))
  /\ \A p \in 1..(Len(a) + Len(b) + Len(c)) :
       /\ p <= Len(a) => s[p] = a[p]
       /\ p > Len(a) /\ p <= Len(a) + Len(b) => s[p] = b[p - Len(a)]
       /\ p > Len(a) + Len(b) => s[p] = c[p - (Len(a) + Len(b))]

LEMMA JoinedThree ==
  ASSUME NEW S, NEW a \in Seq(S), NEW b \in Seq(S), NEW c \in Seq(S), NEW s,
         s = (a \o b) \o c
  PROVE  Joined(s, a, b, c)
BY DEF Joined

(* A near-miss is one of the distractors, and the only one of its cluster.  *)
LEMMA NearMissTexts ==
  /\ \A p \in DOMAIN Fixture : Fixture[p].mark = "near-miss" => Fixture[p].group = "distractor"
  /\ \A p, o \in DOMAIN Fixture :
       /\ Fixture[p].mark = "near-miss" /\ Fixture[o].mark = "near-miss"
       /\ Fixture[p].cluster = Fixture[o].cluster
       => p = o
<1> DEFINE m == Len(DISTRACTORS)
           n == Len(DEMO_QUERIES)
<1>1. /\ Len(CLUSTERS) = 40 /\ DOMAIN CLUSTERS = 1..40
      /\ m \in Nat /\ DOMAIN DISTRACTORS = 1..m
      /\ n \in Nat /\ DOMAIN DEMO_QUERIES = 1..n
      /\ DOMAIN Fixture = 1..(40 + m + n)
      /\ \A p \in 1..(40 + m + n) :
           /\ p <= 40 => Fixture[p] = CLUSTERS[p]
           /\ p > 40 /\ p <= 40 + m => Fixture[p] = DISTRACTORS[p - 40]
           /\ p > 40 + m => Fixture[p] = DEMO_QUERIES[p - (40 + m)]
  <2>1. /\ CLUSTERS \in Seq(Entries) /\ DISTRACTORS \in Seq(Entries)
        /\ DEMO_QUERIES \in Seq(Entries)
    BY FixtureParts DEF Distractors, NoNearMiss
  <2>2. Len(CLUSTERS) = 40 /\ Fixture = (CLUSTERS \o DISTRACTORS) \o DEMO_QUERIES
    BY FixtureParts DEF Fixture
  <2>3. Joined(Fixture, CLUSTERS, DISTRACTORS, DEMO_QUERIES)
    BY <2>1, <2>2, JoinedThree
  <2> QED
    BY <2>2, <2>3 DEF Joined
<1>2. ASSUME NEW p \in DOMAIN Fixture
      PROVE  /\ p \in Nat /\ p > 0 /\ p <= 40 + m + n
             /\ p <= 40 => Fixture[p] = CLUSTERS[p]
             /\ p > 40 /\ p <= 40 + m => Fixture[p] = DISTRACTORS[p - 40]
             /\ p > 40 + m => Fixture[p] = DEMO_QUERIES[p - (40 + m)]
  <2>1. p \in 1..(40 + m + n)
    BY <1>1
  <2>2. m \in Nat /\ n \in Nat
    BY <1>1
  <2> HIDE DEF m, n
  <2>3. p \in Nat /\ p > 0 /\ p <= 40 + m + n
    BY <2>1, <2>2
  <2> QED
    BY <1>1, <2>1, <2>3
<1> HIDE DEF m, n
<1>3. ASSUME NEW p \in DOMAIN Fixture, Fixture[p].mark = "near-miss"
      PROVE  /\ p - 40 \in DOMAIN DISTRACTORS /\ Fixture[p] = DISTRACTORS[p - 40]
             /\ p \in Int
  <2>1. p \in Nat /\ p > 0 /\ p <= 40 + m + n
    BY <1>2
  <2>2. CASE p <= 40
    <3>1. DOMAIN CLUSTERS = 1..40
      BY <1>1
    <3>2. p \in DOMAIN CLUSTERS
      BY <2>1, <2>2, <3>1
    <3>3. Fixture[p] = CLUSTERS[p]
      BY <1>2, <2>2
    <3>4. Fixture[p] \in NoNearMiss
      BY <3>2, <3>3, FixtureParts, ElementOfSeq, LenProperties
    <3> QED
      BY <1>3, <3>4 DEF NoNearMiss
  <2>3. CASE p > 40 + m
    <3>1. p - (40 + m) \in 1..n
      BY <1>1, <2>1, <2>3
    <3>2. Fixture[p] \in NoNearMiss
      BY <1>1, <1>2, <2>3, <3>1, FixtureParts, ElementOfSeq
    <3> QED
      BY <1>3, <3>2 DEF NoNearMiss
  <2>4. CASE p > 40 /\ p <= 40 + m
    BY <1>1, <1>2, <2>1, <2>4
  <2> QED
    BY <1>1, <2>1, <2>2, <2>3, <2>4
<1>4. ASSUME NEW p \in DOMAIN Fixture, Fixture[p].mark = "near-miss"
      PROVE  Fixture[p].group = "distractor"
  BY <1>1, <1>3, <1>4, FixtureParts, ElementOfSeq DEF Distractors
<1>5. ASSUME NEW p \in DOMAIN Fixture, Fixture[p].mark = "near-miss",
             NEW o \in DOMAIN Fixture, Fixture[o].mark = "near-miss",
             Fixture[p].cluster = Fixture[o].cluster
      PROVE  p = o
  <2>1. /\ p - 40 \in DOMAIN DISTRACTORS /\ Fixture[p] = DISTRACTORS[p - 40] /\ p \in Int
        /\ o - 40 \in DOMAIN DISTRACTORS /\ Fixture[o] = DISTRACTORS[o - 40] /\ o \in Int
    BY <1>3, <1>5
  <2>2. p - 40 = o - 40
    BY <1>5, <2>1, OneNearMissPerCluster
  <2> QED
    BY <2>1, <2>2
<1> QED
  BY <1>4, <1>5

(* The order in which a run goes through what it seeds.                     *)
LEMMA OrderType ==
  /\ IsFiniteSet(Picked) /\ Cardinality(Picked) \in Nat /\ Cardinality(Picked) > 0
  /\ Order \in Seq(Picked) /\ Len(Order) = Cardinality(Picked)
  /\ DOMAIN Order = 1..Cardinality(Picked)
  /\ \A p \in Picked : \E i \in DOMAIN Order : Order[i] = p
  /\ \A i, j \in DOMAIN Order : Order[i] = Order[j] => i = j
  /\ \A i \in DOMAIN Order : Order[i] \in Picked /\ Fixture[Order[i]] \in Entries
<1> DEFINE n == Cardinality(Picked)
<1>1. IsFiniteSet(Picked) /\ Picked \in SUBSET Int /\ Picked # {}
  BY FixtureType, PickedOfFixture, FS_Subset
<1>2. n \in Nat /\ n # 0
  BY <1>1, FS_CardinalityType, FS_EmptySet
<1>3. StrictlyOrders(Ascending(Picked), Picked)
  BY <1>1, AscendingOrders
<1>4. /\ Order \in [1..n -> Picked]
      /\ \A p \in Picked : \E i \in 1..n : Order[i] = p
      /\ \A i, j \in 1..n : i < j <=> <<Order[i], Order[j]>> \in Ascending(Picked)
  BY <1>1, <1>3, ArrangedSorts DEF Order
<1> HIDE DEF n
<1>5. Order \in Seq(Picked) /\ Len(Order) = n /\ DOMAIN Order = 1..n
  BY <1>2, <1>4, SeqOfFunction
<1>6. \A p \in Picked : Fixture[p] \in Entries
  BY PickedOfFixture, FixtureType, ElementOfSeq, LenProperties
<1>7. n > 0
  BY <1>2
<1>8. \A i \in DOMAIN Order : Order[i] \in Picked /\ Fixture[Order[i]] \in Entries
  BY <1>4, <1>5, <1>6
<1>9. \A p \in Picked : \E i \in DOMAIN Order : Order[i] = p
  BY <1>4, <1>5
<1>10. ASSUME NEW i \in 1..n, NEW j \in 1..n, Order[i] = Order[j]
       PROVE  i = j
  <2>1. ~ (<<Order[i], Order[i]>> \in Ascending(Picked))
    BY <1>3, <1>4 DEF StrictlyOrders
  <2>2. ~ (i < j) /\ ~ (j < i)
    BY <1>4, <1>10, <2>1
  <2> QED
    BY <1>2, <2>2
<1> QED
  BY <1>1, <1>2, <1>5, <1>7, <1>8, <1>9, <1>10 DEF n
-----------------------------------------------------------------------------
(* The tickets of a run are numbered in a row from the one it is called by, *)
(* and their places follow Order, also those of a run that failed.          *)
Placed(held) ==
  \A n \in DOMAIN held :
    LET k == n - held[n].run + 1
    IN /\ held[n].run \in 1..n /\ k \in DOMAIN Order /\ held[n].place = Order[k]
       /\ held[n].resolved => Fixture[Order[k]].group # "query"

(* The k-th ticket of the run called r, as that run leaves it.              *)
Made(held, r, k) ==
  LET n == r + k - 1
  IN /\ n \in DOMAIN held /\ k \in DOMAIN Order
     /\ held[n].run = r /\ held[n].place = Order[k]
     /\ held[n].resolved <=> Fixture[Order[k]].group # "query"

(* The rows are the beginning of what the run called r is to write down,    *)
(* and what they say of the tickets is so.                                  *)
Accounts(held, rows, r) ==
  /\ r \in Nat
  /\ \A i \in DOMAIN rows :
       Made(held, r, i) /\ rows[i] = Note(r + i - 1, Fixture[Order[i]])

Notes == {Note(n, Fixture[p]) : n \in Nat, p \in Picked}

Runs == [pc : {"idle", "login", "create", "resolve", "write", "done", "failed"},
         run : Nat \ {0}, next : Nat \ {0}, noted : Seq(Notes)]

TicketsInv ==
  /\ tickets \in Seq(Row) /\ Len(tickets) <= MaxTickets
  /\ Placed(tickets)

RunInv ==
  /\ seed \in Runs
  /\ Seeding => /\ Accounts(tickets, seed.noted, seed.run)
                /\ Len(seed.noted) = seed.next - 1
                /\ seed.next <= Len(Order) + 1
  /\ seed.pc \in {"login", "create"} => Len(tickets) = seed.run + seed.next - 2
  /\ seed.pc = "resolve" =>
       /\ seed.next \in DOMAIN Order /\ Len(tickets) = seed.run + seed.next - 1
       /\ tickets[Len(tickets)].run = seed.run
       /\ ~ tickets[Len(tickets)].resolved
       /\ Fixture[Order[seed.next]].group # "query"
  /\ seed.pc = "write" => seed.next > Len(Order)

Written(held, rows) ==
  /\ rows \in Seq(Notes) /\ Len(rows) = Len(Order)
  /\ \E r \in DOMAIN held : Accounts(held, rows, r)

\* nothing is said of a broken manifest, nor of one of another site
ManifestInv == Readable /\ origin = "here" => Written(tickets, manifest)

SeedInv == TicketsInv /\ RunInv /\ ManifestInv

LEMMA NoteFields ==
  ASSUME NEW n, NEW e
  PROVE  /\ Note(n, e).ticket_name = n /\ Note(n, e).group = e.group
         /\ Note(n, e).cluster = e.cluster
BY DEF Note

(* What holds of tickets goes on to hold while others are created.          *)
LEMMA AccountsGrow ==
  ASSUME NEW held, NEW new, NEW rows, NEW r, Accounts(held, rows, r),
         \A n \in DOMAIN held : n \in DOMAIN new /\ new[n] = held[n]
  PROVE  Accounts(new, rows, r)
BY DEF Accounts, Made

LEMMA WrittenGrows ==
  ASSUME NEW held, NEW new, NEW rows, Written(held, rows),
         \A n \in DOMAIN held : n \in DOMAIN new /\ new[n] = held[n]
  PROVE  Written(new, rows)
BY AccountsGrow DEF Written

LEMMA AppendGrows ==
  ASSUME NEW S, NEW s \in Seq(S), NEW x \in S
  PROVE  /\ Append(s, x) \in Seq(S) /\ Len(Append(s, x)) = Len(s) + 1
         /\ DOMAIN Append(s, x) = DOMAIN s \cup {Len(s) + 1}
         /\ DOMAIN s = 1..Len(s) /\ Len(s) \in Nat
         /\ \A i \in DOMAIN s : Append(s, x)[i] = s[i]
         /\ Append(s, x)[Len(s) + 1] = x
OBVIOUS

LEMMA SeedInitial == Init => SeedInv
<1> SUFFICES ASSUME Init PROVE SeedInv
  OBVIOUS
<1>1. /\ tickets = <<>> /\ manifest = None
      /\ seed = [pc |-> "idle", run |-> 1, next |-> 1, noted |-> <<>>]
  BY DEF Init, SeedInit
<1>2. TicketsInv
  BY <1>1, PickedOfFixture DEF TicketsInv, Placed
<1>3. RunInv
  BY <1>1 DEF RunInv, Runs, Seeding
<1> QED
  BY <1>1, <1>2, <1>3 DEF SeedInv, ManifestInv, Readable

LEMMA BeginSeedKeeps ==
  ASSUME SeedInv, BeginSeed
  PROVE  SeedInv'
<1>1. /\ tickets' = tickets /\ manifest' = manifest /\ origin' = origin
      /\ seed' = [pc |-> "login", run |-> Len(tickets) + 1, next |-> 1, noted |-> <<>>]
  BY DEF BeginSeed, fileVars
<1>2. tickets \in Seq(Row) /\ Len(tickets) \in Nat
  BY LenProperties DEF SeedInv, TicketsInv
<1>3. TicketsInv' /\ ManifestInv'
  BY <1>1 DEF SeedInv, TicketsInv, ManifestInv, Readable
<1>4. /\ seed'.pc = "login" /\ seed'.run = Len(tickets) + 1 /\ seed'.next = 1
      /\ seed'.noted = <<>>
  BY <1>1
<1>5. Accounts(tickets', seed'.noted, seed'.run)
  BY <1>2, <1>4 DEF Accounts
<1>6. /\ seed'.next <= Len(Order) + 1 /\ Len(seed'.noted) = seed'.next - 1
      /\ Len(tickets') = seed'.run + seed'.next - 2
  BY <1>1, <1>2, <1>4, OrderType
<1>7. seed' \in Runs
  BY <1>1, <1>2 DEF Runs
<1>8. RunInv'
  BY <1>4, <1>5, <1>6, <1>7 DEF RunInv, Runs
<1> QED
  BY <1>3, <1>8 DEF SeedInv

LEMMA SeedLoginKeeps ==
  ASSUME SeedInv, SeedLogin
  PROVE  SeedInv'
<1>1. /\ tickets' = tickets /\ manifest' = manifest /\ origin' = origin
      /\ seed.pc = "login"
      /\ seed' = [seed EXCEPT !.pc = "create"]
  BY DEF SeedLogin, fileVars
<1>2. RunInv
  BY DEF SeedInv
<1>3. TicketsInv' /\ ManifestInv'
  BY <1>1 DEF SeedInv, TicketsInv, ManifestInv, Readable
<1>4. /\ seed' \in Runs
      /\ seed'.pc = "create" /\ seed'.run = seed.run /\ seed'.next = seed.next
      /\ seed'.noted = seed.noted
  BY <1>1, <1>2 DEF RunInv, Runs
<1>5. RunInv'
  BY <1>1, <1>2, <1>4 DEF RunInv, Seeding
<1> QED
  BY <1>3, <1>5 DEF SeedInv

LEMMA OpenManifestKeeps ==
  ASSUME SeedInv, OpenManifest
  PROVE  SeedInv'
<1>1. /\ tickets' = tickets /\ manifest' = Partial /\ seed.pc = "create"
      /\ seed.next > Len(Order) /\ seed' = [seed EXCEPT !.pc = "write"]
  BY DEF OpenManifest
<1>2. RunInv /\ TicketsInv' /\ ManifestInv'
  BY <1>1 DEF SeedInv, TicketsInv, ManifestInv, Readable
<1>3. /\ seed' \in Runs
      /\ seed'.pc = "write" /\ seed'.run = seed.run /\ seed'.next = seed.next
      /\ seed'.noted = seed.noted
  BY <1>1, <1>2 DEF RunInv, Runs
<1>4. RunInv'
  BY <1>1, <1>2, <1>3 DEF RunInv, Seeding
<1> QED
  BY <1>2, <1>4 DEF SeedInv

LEMMA WriteManifestKeeps ==
  ASSUME SeedInv, WriteManifest
  PROVE  SeedInv'
<1>1. /\ tickets' = tickets /\ manifest' = seed.noted /\ seed.pc = "write"
      /\ seed' = [seed EXCEPT !.pc = "done"]
  BY DEF WriteManifest
<1>2. /\ RunInv /\ TicketsInv /\ TicketsInv'
      /\ seed.next > Len(Order)
  BY <1>1 DEF SeedInv, TicketsInv, RunInv
<1>3. /\ seed' \in Runs
      /\ seed'.pc = "done"
  BY <1>1, <1>2 DEF RunInv, Runs
<1>4. /\ Accounts(tickets, seed.noted, seed.run) /\ seed.noted \in Seq(Notes)
      /\ Len(seed.noted) = seed.next - 1 /\ seed.next <= Len(Order) + 1
      /\ seed.next \in Nat /\ seed.run \in Nat
  BY <1>1, <1>2 DEF RunInv, Runs, Seeding
<1>5. Len(seed.noted) = Len(Order) /\ DOMAIN seed.noted = 1..Len(Order)
  <2>1. Len(Order) \in Nat
    BY OrderType
  <2>2. Len(seed.noted) = Len(Order)
    BY <1>2, <1>4, <2>1
  <2> QED
    BY <1>4, <2>2, LenProperties
<1>6. seed.run \in DOMAIN tickets
  <2>1. 1 \in DOMAIN seed.noted
    BY <1>5, OrderType
  <2>2. seed.run + 1 - 1 \in DOMAIN tickets
    BY <1>4, <2>1 DEF Accounts, Made
  <2> QED
    BY <1>4, <2>2
<1>7. Written(tickets', manifest')
  BY <1>1, <1>4, <1>5, <1>6 DEF Written
<1> QED
  BY <1>2, <1>3, <1>7 DEF SeedInv, RunInv, ManifestInv, Seeding

LEMMA SeedFailsKeeps ==
  ASSUME SeedInv, SeedFails
  PROVE  SeedInv'
<1>1. /\ tickets' = tickets /\ manifest' = manifest /\ origin' = origin
      /\ seed' = [seed EXCEPT !.pc = "failed"]
  BY DEF SeedFails, fileVars
<1>2. TicketsInv' /\ ManifestInv'
  BY <1>1 DEF SeedInv, TicketsInv, ManifestInv, Readable
<1>3. /\ seed' \in Runs
      /\ seed'.pc = "failed"
  BY <1>1 DEF SeedInv, RunInv, Runs
<1> QED
  BY <1>2, <1>3 DEF SeedInv, RunInv, Seeding

LEMMA SeedElsewhereKeeps ==
  ASSUME SeedInv, SeedElsewhere
  PROVE  SeedInv'
<1>1. tickets' = tickets /\ seed' = seed /\ origin' = "elsewhere"
  BY DEF SeedElsewhere
<1> QED
  BY <1>1 DEF SeedInv, TicketsInv, RunInv, ManifestInv, Seeding

(* One ticket more is noted.                                                *)
Noted(rows, n, k) == Append(rows, Note(n, Fixture[Order[k]]))

LEMMA NotingHolds ==
  ASSUME NEW held, NEW rows \in Seq(Notes), NEW r \in Nat \ {0}, NEW k \in Nat,
         Accounts(held, rows, r), Made(held, r, k), Len(rows) = k - 1,
         NEW new, new = Noted(rows, r + k - 1, k)
  PROVE  /\ new \in Seq(Notes) /\ Len(new) = k
         /\ Accounts(held, new, r)
<1> DEFINE note == Note(r + k - 1, Fixture[Order[k]])
<1>1. k \in DOMAIN Order
  BY DEF Made
<1>2. k \in Nat \ {0} /\ r + k - 1 \in Nat /\ Order[k] \in Picked
  BY <1>1, OrderType
<1>3. note \in Notes
  BY <1>2 DEF Notes
<1> HIDE DEF note
<1>4. /\ new \in Seq(Notes) /\ Len(new) = Len(rows) + 1
      /\ DOMAIN new = DOMAIN rows \cup {Len(rows) + 1}
      /\ \A i \in DOMAIN rows : new[i] = rows[i]
      /\ new[Len(rows) + 1] = note
  BY <1>3, AppendGrows DEF note, Noted
<1>5. Len(rows) + 1 = k
  BY <1>2, LenProperties
<1>6. DOMAIN new = DOMAIN rows \cup {k} /\ new[k] = note
  BY <1>4, <1>5
<1>7. Accounts(held, new, r)
  BY <1>4, <1>6 DEF Accounts, note
<1> QED
  BY <1>4, <1>5, <1>7

LEMMA RunGoesOn ==
  ASSUME NEW held, NEW run \in Runs, NEW next,
         Accounts(held, run.noted, run.run), Made(held, run.run, run.next),
         Len(run.noted) = run.next - 1, Len(held) = run.run + run.next - 1,
         next = [run EXCEPT !.pc = "create", !.next = @ + 1,
                            !.noted = Append(@, Note(Len(held), Fixture[Order[run.next]]))]
  PROVE  /\ next \in Runs /\ next.pc = "create"
         /\ Accounts(held, next.noted, next.run) /\ Len(next.noted) = next.next - 1
         /\ next.next <= Len(Order) + 1
         /\ Len(held) = next.run + next.next - 2
<1>1. PICK r : r = run.run
  OBVIOUS
<1>2. PICK k : k = run.next
  OBVIOUS
<1>3. PICK rows : rows = run.noted
  OBVIOUS
<1>4. PICK new : new = Noted(rows, r + k - 1, k)
  OBVIOUS
<1>5. r \in Nat \ {0} /\ k \in Nat \ {0} /\ rows \in Seq(Notes)
  BY <1>1, <1>2, <1>3 DEF Runs
<1>6. /\ Accounts(held, rows, r) /\ Made(held, r, k)
      /\ Len(rows) = k - 1 /\ Len(held) = r + k - 1
  BY <1>1, <1>2, <1>3
<1>7. new \in Seq(Notes) /\ Len(new) = k /\ Accounts(held, new, r)
  BY <1>4, <1>5, <1>6, NotingHolds
<1>8. next = [run EXCEPT !.pc = "create", !.next = k + 1, !.noted = new]
  BY <1>1, <1>2, <1>3, <1>4, <1>6 DEF Noted
<1>9. k + 1 \in Nat \ {0}
  BY <1>5
<1>10. /\ next \in Runs /\ next.pc = "create" /\ next.run = r
       /\ next.next = k + 1 /\ next.noted = new
  BY <1>1, <1>7, <1>8, <1>9 DEF Runs
<1>11. k <= Len(Order) /\ Len(Order) \in Nat
  BY <1>6, OrderType DEF Made
<1>12. Len(new) = (k + 1) - 1 /\ k + 1 <= Len(Order) + 1 /\ Len(held) = r + (k + 1) - 2
  BY <1>5, <1>6, <1>7, <1>11
<1> QED
  BY <1>7, <1>10, <1>12

LEMMA CreateTicketKeeps ==
  ASSUME SeedInv, CreateTicket
  PROVE  SeedInv'
<1> DEFINE n == Len(tickets) + 1
           place == Order[seed.next]
           row == [place |-> place, run |-> seed.run, resolved |-> FALSE]
<1>1. /\ seed.pc = "create" /\ seed.next <= Len(Order) /\ Len(tickets) < MaxTickets
      /\ tickets' = Append(tickets, row) /\ manifest' = manifest /\ origin' = origin
      /\ seed' = IF Fixture[place].group = "query" THEN Noting(Len(tickets'), place)
                                                   ELSE [seed EXCEPT !.pc = "resolve"]
  BY DEF CreateTicket, fileVars
<1>2. /\ tickets \in Seq(Row) /\ Len(tickets) \in Nat /\ Placed(tickets)
      /\ MaxTickets \in Nat
  BY LenProperties, PickedOfFixture DEF SeedInv, TicketsInv
<1>3. /\ seed \in Runs
      /\ Accounts(tickets, seed.noted, seed.run) /\ Len(seed.noted) = seed.next - 1
      /\ Len(tickets) = seed.run + seed.next - 2
  BY <1>1 DEF SeedInv, RunInv, Seeding
<1>4. seed.next \in DOMAIN Order /\ place \in Picked /\ seed.run \in Nat \ {0}
      /\ seed.next \in Nat \ {0} /\ seed.noted \in Seq(Notes)
  BY <1>1, <1>3, OrderType DEF Runs
<1>5. n = seed.run + seed.next - 1 /\ n - seed.run + 1 = seed.next
      /\ seed.run \in 1..n /\ n <= MaxTickets /\ n \in Nat
  <2>1. \A a, b \in Nat \ {0}, c \in Nat : c = a + b - 2 =>
          /\ c + 1 = a + b - 1 /\ (c + 1) - a + 1 = b /\ a \in 1..(c + 1)
    OBVIOUS
  <2>2. Len(tickets) = seed.run + seed.next - 2
    BY <1>3
  <2>3. n <= MaxTickets /\ n \in Nat
    BY <1>1, <1>2
  <2> QED
    BY <1>2, <1>4, <2>1, <2>2, <2>3
<1>6. row \in Row
  BY <1>4, <1>5, <1>2 DEF Row
<1>7. row.run = seed.run /\ row.place = place /\ row.resolved = FALSE
  OBVIOUS
<1> HIDE DEF row
<1>8. /\ tickets' \in Seq(Row) /\ Len(tickets') = n
      /\ DOMAIN tickets' = DOMAIN tickets \cup {n} /\ tickets'[n] = row
      /\ \A i \in DOMAIN tickets : tickets'[i] = tickets[i]
  BY <1>1, <1>2, <1>6, AppendGrows
<1> HIDE DEF n
<1>9. Placed(tickets')
  <2> SUFFICES ASSUME NEW i \in DOMAIN tickets'
               PROVE  LET t == tickets'[i]
                          k == i - t.run + 1
                      IN /\ t.run \in 1..i /\ k \in DOMAIN Order /\ t.place = Order[k]
                         /\ t.resolved => Fixture[Order[k]].group # "query"
    BY DEF Placed
  <2>1. CASE i \in DOMAIN tickets
    BY <1>2, <1>8, <2>1 DEF Placed
  <2>2. CASE i = n
    BY <1>4, <1>5, <1>7, <1>8, <2>2
  <2> QED
    BY <1>8, <2>1, <2>2
<1>10. TicketsInv'
  BY <1>5, <1>8, <1>9 DEF TicketsInv
<1>11. \A i \in DOMAIN tickets : i \in DOMAIN tickets' /\ tickets'[i] = tickets[i]
  BY <1>8
<1>12. ManifestInv'
  BY <1>1, <1>11, WrittenGrows DEF SeedInv, ManifestInv, Readable
<1>13. Accounts(tickets', seed.noted, seed.run)
  BY <1>3, <1>11, AccountsGrow
<1>14. /\ n \in DOMAIN tickets' /\ tickets'[n].run = seed.run
       /\ tickets'[n].place = place /\ ~ tickets'[n].resolved
  BY <1>7, <1>8
<1>15. RunInv'
  <2>1. CASE Fixture[place].group = "query"
    <3>1. seed' = [seed EXCEPT !.pc = "create", !.next = @ + 1,
                              !.noted = Append(@, Note(n, Fixture[place]))]
      BY <1>1, <1>8, <2>1 DEF Noting
    <3>2. PICK held : held = tickets'
      OBVIOUS
    <3>3. PICK next : next = seed'
      OBVIOUS
    <3>4. /\ Len(held) = seed.run + seed.next - 1
          /\ Accounts(held, seed.noted, seed.run)
      BY <1>5, <1>8, <1>13, <3>2
    <3>5. Made(held, seed.run, seed.next)
      BY <1>4, <1>5, <1>14, <2>1, <3>2 DEF Made
    <3>6. next = [seed EXCEPT !.pc = "create", !.next = @ + 1,
                             !.noted = Append(@, Note(Len(held), Fixture[place]))]
      BY <1>8, <3>1, <3>2, <3>3
    <3>7. /\ next \in Runs /\ next.pc = "create"
          /\ Accounts(held, next.noted, next.run) /\ Len(next.noted) = next.next - 1
          /\ next.next <= Len(Order) + 1
          /\ Len(held) = next.run + next.next - 2
      BY <1>3, <3>4, <3>5, <3>6, RunGoesOn
    <3> QED
      BY <3>2, <3>3, <3>7 DEF RunInv
  <2>2. CASE Fixture[place].group # "query"
    <3>1. seed' = [seed EXCEPT !.pc = "resolve"]
      BY <1>1, <2>2
    <3>2. /\ seed' \in Runs
          /\ seed'.pc = "resolve" /\ seed'.run = seed.run /\ seed'.next = seed.next
          /\ seed'.noted = seed.noted
      BY <1>3, <3>1 DEF Runs
    <3>3. seed'.next <= Len(Order) + 1
      BY <1>1, <1>4, <3>2, OrderType
    <3> QED
      BY <1>3, <1>4, <1>5, <1>8, <1>13, <1>14, <2>2, <3>2, <3>3 DEF RunInv, Runs
  <2> QED
    BY <2>1, <2>2
<1> QED
  BY <1>10, <1>12, <1>15 DEF SeedInv

LEMMA ResolveTicketKeeps ==
  ASSUME SeedInv, ResolveTicket
  PROVE  SeedInv'
<1> DEFINE n == Len(tickets)
           place == Order[seed.next]
<1>1. /\ seed.pc = "resolve" /\ tickets' = [tickets EXCEPT ![n].resolved = TRUE]
      /\ seed' = Noting(n, place) /\ manifest' = manifest /\ origin' = origin
  BY DEF ResolveTicket, fileVars
<1>2. /\ tickets \in Seq(Row) /\ n \in Nat /\ DOMAIN tickets = 1..n /\ Placed(tickets)
      /\ n <= MaxTickets
  BY LenProperties DEF SeedInv, TicketsInv
<1>3. /\ seed \in Runs
      /\ Accounts(tickets, seed.noted, seed.run) /\ Len(seed.noted) = seed.next - 1
      /\ seed.next \in DOMAIN Order /\ n = seed.run + seed.next - 1
      /\ tickets[n].run = seed.run /\ ~ tickets[n].resolved
      /\ Fixture[place].group # "query"
  BY <1>1 DEF SeedInv, RunInv, Seeding
<1>4. /\ seed.run \in Nat \ {0} /\ seed.next \in Nat \ {0} /\ seed.next <= Len(Order)
      /\ seed.noted \in Seq(Notes)
  BY <1>3, OrderType DEF Runs
<1> HIDE DEF n
<1>5. n \in DOMAIN tickets /\ n - seed.run + 1 = seed.next
  BY <1>2, <1>3, <1>4
<1>6. tickets[n].place = place
  BY <1>2, <1>3, <1>5 DEF Placed
<1>7. \A i \in DOMAIN tickets : tickets[i] \in Row
  BY <1>2, ElementOfSeq
<1>8. /\ DOMAIN tickets' = DOMAIN tickets
      /\ \A i \in DOMAIN tickets : i # n => tickets'[i] = tickets[i]
      /\ tickets'[n] = [tickets[n] EXCEPT !.resolved = TRUE]
  BY <1>1, <1>5
<1>9. /\ tickets'[n] \in Row /\ tickets'[n].place = tickets[n].place
      /\ tickets'[n].run = tickets[n].run /\ tickets'[n].resolved = TRUE
  BY <1>5, <1>7, <1>8 DEF Row
<1>10. tickets' \in Seq(Row) /\ Len(tickets') = n
  <2>1. tickets' \in [1..n -> Row]
    BY <1>1, <1>2, <1>7, <1>8, <1>9
  <2> QED
    BY <1>2, <2>1, SeqOfFunction
<1>11. \A i \in DOMAIN tickets :
         tickets'[i].run = tickets[i].run /\ tickets'[i].place = tickets[i].place
  BY <1>8, <1>9
<1>12. Placed(tickets')
  <2> SUFFICES ASSUME NEW i \in DOMAIN tickets
               PROVE  LET t == tickets'[i]
                          k == i - t.run + 1
                      IN /\ t.run \in 1..i /\ k \in DOMAIN Order /\ t.place = Order[k]
                         /\ t.resolved => Fixture[Order[k]].group # "query"
    BY <1>8 DEF Placed
  <2>1. CASE i # n
    BY <1>2, <1>8, <2>1 DEF Placed
  <2>2. CASE i = n
    BY <1>2, <1>3, <1>5, <1>11, <2>2 DEF Placed
  <2> QED
    BY <2>1, <2>2
<1>13. TicketsInv'
  BY <1>2, <1>10, <1>12 DEF TicketsInv
<1>14. ASSUME NEW rows, NEW r, Accounts(tickets, rows, r)
       PROVE  Accounts(tickets', rows, r)
  <2> SUFFICES ASSUME NEW i \in DOMAIN rows
               PROVE  Made(tickets', r, i)
    BY <1>14 DEF Accounts
  <2>1. PICK m : m = r + i - 1
    OBVIOUS
  <2>2. /\ m \in DOMAIN tickets /\ i \in DOMAIN Order
        /\ tickets[m].run = r /\ tickets[m].place = Order[i]
        /\ tickets[m].resolved <=> Fixture[Order[i]].group # "query"
    BY <1>14, <2>1 DEF Accounts, Made
  <2>3. CASE m # n
    BY <1>8, <2>1, <2>2, <2>3 DEF Made
  <2>4. CASE m = n
    <3>1. Order[i] = place
      BY <1>6, <2>2, <2>4
    <3> QED
      BY <1>3, <2>2, <2>4, <3>1
  <2> QED
    BY <2>3, <2>4
<1>15. ManifestInv'
  BY <1>1, <1>8, <1>14 DEF SeedInv, ManifestInv, Readable, Written
<1>16. RunInv'
  <2>1. PICK held : held = tickets'
    OBVIOUS
  <2>2. PICK next : next = seed'
    OBVIOUS
  <2>3. Accounts(tickets', seed.noted, seed.run)
    BY <1>3, <1>14
  <2>4. /\ Len(held) = seed.run + seed.next - 1
        /\ Accounts(held, seed.noted, seed.run)
    BY <1>3, <1>10, <2>1, <2>3
  <2>5. Made(held, seed.run, seed.next)
    <3>1. /\ n \in DOMAIN held /\ held[n].run = seed.run /\ held[n].place = place
          /\ held[n].resolved
      BY <1>3, <1>5, <1>6, <1>8, <1>9, <2>1
    <3> QED
      BY <1>3, <3>1 DEF Made
  <2>6. next = [seed EXCEPT !.pc = "create", !.next = @ + 1,
                           !.noted = Append(@, Note(Len(held), Fixture[place]))]
    BY <1>1, <1>10, <2>1, <2>2 DEF Noting
  <2>7. /\ next \in Runs /\ next.pc = "create"
        /\ Accounts(held, next.noted, next.run) /\ Len(next.noted) = next.next - 1
        /\ next.next <= Len(Order) + 1
        /\ Len(held) = next.run + next.next - 2
    BY <1>3, <2>4, <2>5, <2>6, RunGoesOn
  <2> QED
    BY <2>1, <2>2, <2>7 DEF RunInv
<1> QED
  BY <1>13, <1>15, <1>16 DEF SeedInv

LEMMA SeedStepKeeps ==
  ASSUME SeedInv, SeedStep
  PROVE  SeedInv'
BY BeginSeedKeeps, SeedLoginKeeps, CreateTicketKeeps, ResolveTicketKeeps,
   OpenManifestKeeps, WriteManifestKeeps, SeedFailsKeeps, SeedElsewhereKeeps DEF SeedStep

LEMMA SeedUnchanged ==
  ASSUME SeedInv, UNCHANGED seedVars
  PROVE  SeedInv'
BY DEF seedVars, fileVars, SeedInv, TicketsInv, RunInv, ManifestInv, Readable, Seeding
-----------------------------------------------------------------------------
LEMMA SeedAlways == Spec => []SeedInv
<1>1. SeedInv /\ [Next]_vars => SeedInv'
  <2> SUFFICES ASSUME SeedInv, [Next]_vars
               PROVE  SeedInv'
    OBVIOUS
  <2>1. CASE SeedAlone
    BY <2>1, SeedStepKeeps DEF SeedAlone
  <2>2. CASE UNCHANGED seedVars
    BY <2>2, SeedUnchanged
  <2>3. CASE IngestFull
    BY <2>2, <2>3 DEF IngestFull
  <2>4. ASSUME NEW name \in Tools, BeginTool(name)
        PROVE  SeedInv'
    BY <2>2, <2>4 DEF BeginTool
  <2>5. CASE QueryStep
    BY <2>2, <2>5 DEF QueryStep
  <2>6. CASE Report
    BY <2>2, <2>6 DEF Report
  <2>7. CASE ToolFails
    BY <2>2, <2>7 DEF ToolFails
  <2>8. CASE UNCHANGED vars
    BY <2>2, <2>8 DEF vars
  <2> QED
    BY <2>1, <2>3, <2>4, <2>5, <2>6, <2>7, <2>8 DEF Next
<1> QED
  BY <1>1, SeedInitial, PTL DEF Spec

LEMMA WrittenIsComplete == SeedInv => ManifestIsComplete
<1> SUFFICES ASSUME SeedInv, Readable, origin = "here"
             PROVE  \E run \in DOMAIN tickets :
                      /\ {tickets[manifest[i].ticket_name].place : i \in DOMAIN manifest} = Picked
                      /\ Len(manifest) = Cardinality(Picked)
                      /\ \A i \in DOMAIN manifest :
                           LET ticket == tickets[manifest[i].ticket_name]
                           IN /\ ticket.run = run
                              /\ Fixture[ticket.place].group = manifest[i].group
                              /\ ticket.resolved <=> manifest[i].group # "query"
  BY DEF ManifestIsComplete
<1>1. /\ manifest \in Seq(Notes) /\ Len(manifest) = Len(Order)
      /\ \E r \in DOMAIN tickets : Accounts(tickets, manifest, r)
  BY DEF SeedInv, ManifestInv, Written
<1>2. PICK r \in DOMAIN tickets : Accounts(tickets, manifest, r)
  BY <1>1
<1>3. DOMAIN manifest = DOMAIN Order /\ Len(manifest) = Cardinality(Picked)
  BY <1>1, OrderType, LenProperties
<1>4. ASSUME NEW i \in DOMAIN manifest
      PROVE  LET n == manifest[i].ticket_name
             IN /\ tickets[n].place = Order[i] /\ tickets[n].run = r
                /\ Fixture[Order[i]].group = manifest[i].group
                /\ tickets[n].resolved <=> manifest[i].group # "query"
  <2>1. PICK n : n = r + i - 1
    OBVIOUS
  <2>2. /\ tickets[n].run = r /\ tickets[n].place = Order[i]
        /\ tickets[n].resolved <=> Fixture[Order[i]].group # "query"
        /\ manifest[i] = Note(n, Fixture[Order[i]])
    BY <1>2, <2>1 DEF Accounts, Made
  <2>3. manifest[i].ticket_name = n /\ manifest[i].group = Fixture[Order[i]].group
    BY <2>2, NoteFields
  <2> QED
    BY <2>2, <2>3
<1>5. {tickets[manifest[i].ticket_name].place : i \in DOMAIN manifest} = Picked
  <2>1. \A i \in DOMAIN manifest : tickets[manifest[i].ticket_name].place \in Picked
    BY <1>3, <1>4, OrderType
  <2>2. \A p \in Picked : \E i \in DOMAIN manifest : tickets[manifest[i].ticket_name].place = p
    BY <1>3, <1>4, OrderType
  <2> QED
    BY <2>1, <2>2
<1> QED
  BY <1>3, <1>4, <1>5

(* A readable manifest of this site accounts for the whole fixture, however *)
(* many runs of the script failed before and after the one that wrote it,   *)
(* at a call or while they wrote.                                           *)
THEOREM ManifestAlwaysComplete == Spec => []ManifestIsComplete
  BY SeedAlways, WrittenIsComplete, PTL

(* A ticket keeps its place and its run.                                    *)
LEMMA TicketsStay ==
  ASSUME SeedInv, SeedStep
  PROVE  \A n \in DOMAIN tickets :
           /\ n \in DOMAIN tickets' /\ tickets'[n].place = tickets[n].place
           /\ tickets'[n].run = tickets[n].run
<1>1. tickets \in Seq(Row) /\ Len(tickets) \in Nat
  BY LenProperties DEF SeedInv, TicketsInv
<1>2. CASE tickets' = tickets
  BY <1>2
<1>3. CASE CreateTicket
  <2>1. PICK row : tickets' = Append(tickets, row)
    BY <1>3 DEF CreateTicket
  <2>2. \A n \in DOMAIN tickets : n \in DOMAIN tickets' /\ tickets'[n] = tickets[n]
    BY <1>1, <2>1
  <2> QED
    BY <2>2
<1>4. CASE ResolveTicket
  <2>1. tickets' = [tickets EXCEPT ![Len(tickets)].resolved = TRUE]
    BY <1>4 DEF ResolveTicket
  <2>2. \A n \in DOMAIN tickets : tickets[n] \in Row
    BY <1>1, LenProperties, ElementOfSeq
  <2>3. ASSUME NEW n \in DOMAIN tickets
        PROVE  /\ n \in DOMAIN tickets' /\ tickets'[n].place = tickets[n].place
               /\ tickets'[n].run = tickets[n].run
    <3>1. tickets[n] \in Row
      BY <2>2
    <3>2. CASE n = Len(tickets)
      <4>1. tickets'[n] = [tickets[n] EXCEPT !.resolved = TRUE]
        BY <2>1, <3>2
      <4> QED
        BY <2>1, <3>1, <4>1 DEF Row
    <3>3. CASE n # Len(tickets)
      BY <2>1, <3>3
    <3> QED
      BY <3>2, <3>3
  <2> QED
    BY <2>3
<1> QED
  BY <1>2, <1>3, <1>4
     DEF SeedStep, BeginSeed, SeedLogin, OpenManifest, WriteManifest, SeedFails, SeedElsewhere
-----------------------------------------------------------------------------
(* What the tools conclude from the rows of a manifest, for the rows that   *)
(* a run wrote down.                                                        *)
TextIn(held, n) == Fixture[held[n].place]

TogetherIn(held, q, t) ==
  held[q].run = held[t].run /\ TextIn(held, q).cluster = TextIn(held, t).cluster

SiblingsIn(held, q, t) ==
  /\ q # t /\ TogetherIn(held, q, t)
  /\ TextIn(held, q).group = "member" /\ TextIn(held, t).group = "member"

(* rows is a whole manifest, by the run called r.                           *)
WrittenBy(held, rows, r) ==
  /\ held \in Seq(Row) /\ Placed(held)
  /\ rows \in Seq(Notes) /\ Len(rows) = Len(Order)
  /\ r \in Nat /\ Accounts(held, rows, r)

LEMMA RowsHold ==
  ASSUME NEW held, NEW rows, NEW r, WrittenBy(held, rows, r)
  PROVE  /\ DOMAIN rows = DOMAIN Order
         /\ \A i \in DOMAIN rows :
              LET n == rows[i].ticket_name
              IN /\ n = r + i - 1 /\ n \in DOMAIN held /\ held[n].run = r
                 /\ held[n].place = Order[i]
                 /\ rows[i] = Note(n, TextIn(held, n))
                 /\ rows[i].group = TextIn(held, n).group
                 /\ rows[i].cluster = TextIn(held, n).cluster
         /\ \A i, j \in DOMAIN rows : rows[i].ticket_name = rows[j].ticket_name => i = j
         /\ \A n \in DOMAIN held : held[n].run = r =>
              \E i \in DOMAIN rows : rows[i].ticket_name = n
<1>1. /\ DOMAIN rows = DOMAIN Order /\ DOMAIN rows \subseteq Nat /\ r \in Nat
      /\ DOMAIN held \subseteq Nat
  BY OrderType, LenProperties DEF WrittenBy
<1>2. ASSUME NEW i \in DOMAIN rows
      PROVE  LET n == rows[i].ticket_name
             IN /\ n = r + i - 1 /\ n \in DOMAIN held /\ held[n].run = r
                /\ held[n].place = Order[i]
                /\ rows[i] = Note(n, TextIn(held, n))
                /\ rows[i].group = TextIn(held, n).group
                /\ rows[i].cluster = TextIn(held, n).cluster
  <2>1. PICK n : n = r + i - 1
    OBVIOUS
  <2>2. /\ n \in DOMAIN held /\ held[n].run = r /\ held[n].place = Order[i]
        /\ rows[i] = Note(n, Fixture[Order[i]])
    BY <2>1 DEF WrittenBy, Accounts, Made
  <2>3. rows[i] = Note(n, TextIn(held, n))
    BY <2>2 DEF TextIn
  <2>4. /\ rows[i].ticket_name = n /\ rows[i].group = TextIn(held, n).group
        /\ rows[i].cluster = TextIn(held, n).cluster
    BY <2>3, NoteFields
  <2> QED
    BY <2>1, <2>2, <2>3, <2>4
<1>3. ASSUME NEW i \in DOMAIN rows, NEW j \in DOMAIN rows,
             rows[i].ticket_name = rows[j].ticket_name
      PROVE  i = j
  <2>1. r + i - 1 = r + j - 1
    BY <1>2, <1>3
  <2> QED
    BY <1>1, <2>1
<1>4. ASSUME NEW n \in DOMAIN held, held[n].run = r
      PROVE  \E i \in DOMAIN rows : rows[i].ticket_name = n
  <2>1. PICK i : i = n - r + 1
    OBVIOUS
  <2>2. i \in DOMAIN rows
    BY <1>1, <1>4, <2>1 DEF WrittenBy, Placed
  <2>3. n = r + i - 1
    BY <1>1, <2>1
  <2>4. rows[i].ticket_name = r + i - 1
    BY <1>2, <2>2
  <2> QED
    BY <2>2, <2>3, <2>4
<1> QED
  BY <1>1, <1>2, <1>3, <1>4

(* The queries are the tickets of the run that are in a cluster, each once. *)
LEMMA QueriesHold ==
  ASSUME NEW held, NEW rows, NEW r, WrittenBy(held, rows, r)
  PROVE  LET qs == Queries(rows)
         IN /\ qs \in Seq(Notes)
            /\ \A i \in DOMAIN qs : \E k \in DOMAIN rows :
                 qs[i] = rows[k] /\ rows[k].group = "member"
            /\ \A k \in DOMAIN rows : rows[k].group = "member" =>
                 \E i \in DOMAIN qs : qs[i] = rows[k]
            /\ \A i, j \in DOMAIN qs : qs[i].ticket_name = qs[j].ticket_name => i = j
<1> DEFINE I == {k \in DOMAIN rows : rows[k].group = "member"}
           qs == Queries(rows)
<1>1. rows \in Seq(Notes) /\ I \in SUBSET DOMAIN rows /\ qs = Selected(rows, I)
  BY DEF WrittenBy, Queries
<1>2. \A k : k \in I <=> k \in DOMAIN rows /\ rows[k].group = "member"
  OBVIOUS
<1> HIDE DEF I, qs
<1>3. qs \in Seq(Notes) /\ \E h : Selects(h, qs, rows, I)
  BY <1>1, SelectedKeepsOrder
<1>4. Len(qs) \in Nat /\ DOMAIN qs = 1..Len(qs)
  BY <1>3, LenProperties
<1>5. PICK h : /\ h \in [DOMAIN qs -> I]
               /\ \A k \in DOMAIN qs : qs[k] = rows[h[k]]
               /\ \A i \in I : \E k \in DOMAIN qs : h[k] = i
               /\ \A j, k \in DOMAIN qs : j < k <=> h[j] < h[k]
  BY <1>3, <1>4 DEF Selects
<1>6. \A i \in DOMAIN qs : \E k \in DOMAIN rows : qs[i] = rows[k] /\ rows[k].group = "member"
  BY <1>2, <1>5
<1>7. \A k \in DOMAIN rows : rows[k].group = "member" => \E i \in DOMAIN qs : qs[i] = rows[k]
  BY <1>2, <1>5
<1>8. ASSUME NEW i \in DOMAIN qs, NEW j \in DOMAIN qs,
             qs[i].ticket_name = qs[j].ticket_name
      PROVE  i = j
  <2>1. h[i] \in DOMAIN rows /\ h[j] \in DOMAIN rows /\ qs[i] = rows[h[i]] /\ qs[j] = rows[h[j]]
    BY <1>2, <1>5
  <2>2. h[i] = h[j]
    BY <1>8, <2>1, RowsHold
  <2>3. h[i] \in Int
    BY <1>1, <2>1, LenProperties
  <2>4. ~ (i < j) /\ ~ (j < i)
    BY <1>5, <2>2, <2>3
  <2> QED
    BY <1>4, <2>4
<1> QED
  BY <1>3, <1>6, <1>7, <1>8 DEF qs

(* The relevance judgements are the ground truth of the tickets.            *)
LEMMA QrelsHold ==
  ASSUME NEW held, NEW rows, NEW r, WrittenBy(held, rows, r)
  PROVE  /\ \A n : n \in Names(rows) <=>
              n \in DOMAIN held /\ held[n].run = r /\ TextIn(held, n).group = "member"
         /\ DOMAIN Qrels(rows) = Names(rows)
         /\ \A q \in Names(rows), t \in DOMAIN held :
              t \in Qrels(rows)[q] <=> SiblingsIn(held, q, t)
<1>1. \A n : n \in Names(rows) <=> \E i \in DOMAIN Queries(rows) : Queries(rows)[i].ticket_name = n
  BY DEF Names, ToSet
<1>2. \A n : n \in Names(rows) <=>
        \E k \in DOMAIN rows : rows[k].group = "member" /\ rows[k].ticket_name = n
  BY <1>1, QueriesHold
<1>3. /\ \A i \in DOMAIN rows :
            LET n == rows[i].ticket_name
            IN /\ n \in DOMAIN held /\ held[n].run = r
               /\ rows[i].group = TextIn(held, n).group
               /\ rows[i].cluster = TextIn(held, n).cluster
      /\ \A i, j \in DOMAIN rows : rows[i].ticket_name = rows[j].ticket_name => i = j
      /\ \A n \in DOMAIN held : held[n].run = r =>
           \E i \in DOMAIN rows : rows[i].ticket_name = n
  BY RowsHold
<1>4. \A n : n \in Names(rows) <=>
        n \in DOMAIN held /\ held[n].run = r /\ TextIn(held, n).group = "member"
  <2> TAKE n
  <2>1. ASSUME n \in Names(rows)
        PROVE  n \in DOMAIN held /\ held[n].run = r /\ TextIn(held, n).group = "member"
    BY <1>2, <1>3, <2>1
  <2>2. ASSUME n \in DOMAIN held, held[n].run = r, TextIn(held, n).group = "member"
        PROVE  n \in Names(rows)
    BY <1>2, <1>3, <2>2
  <2> QED
    BY <2>1, <2>2
<1>5. ASSUME NEW n \in Names(rows)
      PROVE  ClusterOf(rows, n) = TextIn(held, n).cluster
  <2>1. \A row : row \in ToSet(rows) <=> \E i \in DOMAIN rows : rows[i] = row
    BY DEF ToSet
  <2>2. PICK i \in DOMAIN rows : rows[i].ticket_name = n
    BY <1>2
  <2>3. \A row \in ToSet(rows) : row.ticket_name = n => row = rows[i]
    BY <1>3, <2>1, <2>2
  <2>4. rows[i] \in ToSet(rows)
    BY <2>1
  <2>5. (CHOOSE row \in ToSet(rows) : row.ticket_name = n) = rows[i]
    BY <2>2, <2>3, <2>4
  <2>6. rows[i].cluster = TextIn(held, n).cluster
    BY <1>3, <2>2
  <2> QED
    BY <2>5, <2>6 DEF ClusterOf
<1>6. ASSUME NEW q \in Names(rows), NEW t \in DOMAIN held
      PROVE  t \in Qrels(rows)[q] <=> SiblingsIn(held, q, t)
  <2>1. Qrels(rows)[q] = {n \in Names(rows) \ {q} : ClusterOf(rows, n) = ClusterOf(rows, q)}
    BY DEF Qrels
  <2>2. t \in Qrels(rows)[q] <=>
          t \in Names(rows) /\ t # q /\ TextIn(held, t).cluster = TextIn(held, q).cluster
    BY <1>5, <2>1
  <2>3. held[q].run = r /\ TextIn(held, q).group = "member"
    BY <1>4
  <2>4. SiblingsIn(held, q, t) <=>
          /\ q # t /\ held[t].run = r /\ TextIn(held, t).group = "member"
          /\ TextIn(held, q).cluster = TextIn(held, t).cluster
    BY <2>3 DEF SiblingsIn, TogetherIn
  <2>5. t \in Names(rows) <=> held[t].run = r /\ TextIn(held, t).group = "member"
    BY <1>4
  <2> QED
    BY <2>2, <2>4, <2>5
<1>7. DOMAIN Qrels(rows) = Names(rows)
  BY DEF Qrels
<1> QED
  BY <1>4, <1>6, <1>7

(* A query adds its own scored pairs to what is counted, D being the        *)
(* tickets scored and f their scores.                                       *)
PairsOf(q, D, f)     == {<<q, t, f[t]>> : t \in D}
PairedIn(q, D, f, Y) == {t \in D : <<q, t, f[t]>> \in Y}
InBoth(S, Y)         == S \cap Y
WithPairs(S, q, D, f) == S \cup PairsOf(q, D, f)
NotYet(S, q)          == \A x \in S : x[1] # q

LEMMA PairsCount ==
  ASSUME NEW S, IsFiniteSet(S), NEW D, IsFiniteSet(D), NEW q, NEW f,
         NotYet(S, q), NEW Y
  PROVE  /\ IsFiniteSet(WithPairs(S, q, D, f))
         /\ Cardinality(InBoth(WithPairs(S, q, D, f), Y)) =
              Cardinality(InBoth(S, Y)) + Cardinality(PairedIn(q, D, f, Y))
         /\ Cardinality(InBoth(S, Y)) \in Nat
         /\ Cardinality(PairedIn(q, D, f, Y)) \in Nat
<1> DEFINE A == {<<q, t, f[t]>> : t \in D}
           E == {t \in D : <<q, t, f[t]>> \in Y}
           g == [t \in E |-> <<q, t, f[t]>>]
           a == [t \in D |-> <<q, t, f[t]>>]
<1>1. IsFiniteSet(E) /\ Cardinality(E) \in Nat
  BY FS_Subset, FS_CardinalityType
<1>2. IsFiniteSet(A)
  <2>1. a \in Surjection(D, A)
    BY DEF Surjection
  <2> QED
    BY <2>1, FS_Surjection
<1>3. IsFiniteSet(A \cap Y) /\ Cardinality(A \cap Y) = Cardinality(E)
  <2>1. g \in Bijection(E, A \cap Y)
    BY DEF Bijection, Injection, Surjection, IsInjective
  <2> HIDE DEF g, E, A
  <2> QED
    BY <1>1, <2>1, FS_Bijection DEF ExistsBijection
<1>4. IsFiniteSet(S \cap Y) /\ Cardinality(S \cap Y) \in Nat
  BY FS_Subset, FS_CardinalityType
<1>5. IsFiniteSet(S \cup A)
  BY <1>2, FS_Union
<1>6. (S \cap Y) \cap (A \cap Y) = {}
  BY DEF NotYet
<1>7. (S \cup A) \cap Y = (S \cap Y) \cup (A \cap Y)
  OBVIOUS
<1> HIDE DEF A, E
<1>8. Cardinality((S \cap Y) \cup (A \cap Y)) = Cardinality(S \cap Y) + Cardinality(A \cap Y)
  <2>1. Cardinality((S \cap Y) \cap (A \cap Y)) = 0
    BY <1>6, FS_EmptySet
  <2>2. Cardinality((S \cap Y) \cup (A \cap Y)) =
          Cardinality(S \cap Y) + Cardinality(A \cap Y)
            - Cardinality((S \cap Y) \cap (A \cap Y))
    BY <1>3, <1>4, FS_Union
  <2>3. Cardinality(S \cap Y) \in Int /\ Cardinality(A \cap Y) \in Int
    BY <1>1, <1>3, <1>4
  <2> QED
    BY <2>1, <2>2, <2>3
<1>9. Cardinality((S \cup A) \cap Y) = Cardinality(S \cap Y) + Cardinality(E)
  BY <1>1, <1>3, <1>4, <1>7, <1>8
<1> QED
  BY <1>1, <1>4, <1>5, <1>9 DEF A, E, PairsOf, PairedIn, InBoth, WithPairs

LEMMA CopiesAdd ==
  ASSUME NEW B, NEW C, NEW x
  PROVE  Copies(x, B (+) C) = Copies(x, B) + Copies(x, C)
<1>1. /\ DOMAIN (B (+) C) = (DOMAIN B) \cup (DOMAIN C)
      /\ x \in (DOMAIN B) \cup (DOMAIN C) =>
           (B (+) C)[x] = (IF x \in DOMAIN B THEN B[x] ELSE 0)
                          + (IF x \in DOMAIN C THEN C[x] ELSE 0)
  BY DEF (+)
<1>2. CASE x \in (DOMAIN B) \cup (DOMAIN C)
  BY <1>1, <1>2 DEF Copies
<1>3. CASE x \notin (DOMAIN B) \cup (DOMAIN C)
  BY <1>1, <1>3 DEF Copies
<1> QED
  BY <1>2, <1>3

(* What has been labeled are the pairs scored so far: g says which, and the  *)
(* label is the true one.                                                   *)
Lists(g, held, labeled, S) ==
  /\ g \in Bijection(DOMAIN labeled, S)
  /\ \A i \in DOMAIN labeled :
       /\ labeled[i][1] = g[i][3]
       /\ labeled[i][2] <=> SiblingsIn(held, g[i][1], g[i][2])

LabelsHold(held, labeled, S) ==
  /\ labeled \in Seq(Score \X BOOLEAN)
  /\ \E g : Lists(g, held, labeled, S)

LEMMA LabeledType ==
  ASSUME NEW f, IsFiniteSet(DOMAIN f), DOMAIN f \subseteq Int, f \in [DOMAIN f -> Score],
         NEW relevant
  PROVE  LET new == Labeled(f, relevant)
             order == Arranged(DOMAIN f, Ascending(DOMAIN f))
             n == Cardinality(DOMAIN f)
         IN /\ n \in Nat /\ new \in Seq(Score \X BOOLEAN) /\ Len(new) = n
            /\ order \in [1..n -> DOMAIN f]
            /\ \A t \in DOMAIN f : \E k \in 1..n : order[k] = t
            /\ \A j, k \in 1..n : order[j] = order[k] => j = k
            /\ \A k \in 1..n : new[k][1] = f[order[k]] /\ (new[k][2] <=> order[k] \in relevant)
<1> DEFINE D == DOMAIN f
           new == Labeled(f, relevant)
           order == Arranged(D, Ascending(D))
           n == Cardinality(D)
<1>1. StrictlyOrders(Ascending(D), D)
  BY AscendingOrders
<1>2. /\ n \in Nat /\ order \in [1..n -> D]
      /\ \A t \in D : \E k \in 1..n : order[k] = t
      /\ \A j, k \in 1..n : j < k <=> <<order[j], order[k]>> \in Ascending(D)
  BY <1>1, ArrangedSorts
<1>3. new = [k \in DOMAIN order |-> <<f[order[k]], order[k] \in relevant>>]
  BY DEF Labeled
<1> HIDE DEF order, n, D, new
<1>4. ASSUME NEW j \in 1..n, NEW k \in 1..n, order[j] = order[k]
      PROVE  j = k
  <2>1. ~ (<<order[j], order[j]>> \in Ascending(D))
    BY <1>1, <1>2 DEF StrictlyOrders
  <2>2. ~ (j < k) /\ ~ (k < j)
    BY <1>2, <1>4, <2>1
  <2> QED
    BY <1>2, <2>2
<1>5. DOMAIN order = 1..n /\ \A k \in 1..n : order[k] \in D /\ f[order[k]] \in Score
  BY <1>2 DEF D
<1>6. new \in [1..n -> Score \X BOOLEAN]
  <2>1. ASSUME NEW k \in 1..n
        PROVE  <<f[order[k]], order[k] \in relevant>> \in Score \X BOOLEAN
    <3>1. PICK b \in BOOLEAN : b <=> order[k] \in relevant
      OBVIOUS
    <3>2. <<f[order[k]], b>> \in Score \X BOOLEAN
      BY <1>5
    <3>3. (order[k] \in relevant) = b
      BY <3>1
    <3> QED
      BY <3>2, <3>3
  <2>2. new = [k \in 1..n |-> <<f[order[k]], order[k] \in relevant>>]
    BY <1>3, <1>5
  <2> QED
    BY <2>1, <2>2
<1>7. new \in Seq(Score \X BOOLEAN) /\ Len(new) = n
  BY <1>2, <1>6, SeqOfFunction
<1>8. \A k \in 1..n : new[k][1] = f[order[k]] /\ (new[k][2] <=> order[k] \in relevant)
  BY <1>3, <1>5
<1> QED
  BY <1>2, <1>4, <1>7, <1>8 DEF D, new, order, n

(* s, followed by what a query adds to it.                                  *)
ListedOn(s, f, relevant) == s \o Labeled(f, relevant)

LEMMA LabelStep ==
  ASSUME NEW held, NEW labeled, NEW S, LabelsHold(held, labeled, S),
         NEW q, NotYet(S, q),
         NEW f, IsFiniteSet(DOMAIN f), DOMAIN f \subseteq Int, f \in [DOMAIN f -> Score],
         NEW relevant, \A t \in DOMAIN f : t \in relevant <=> SiblingsIn(held, q, t)
  PROVE  LabelsHold(held, ListedOn(labeled, f, relevant), WithPairs(S, q, DOMAIN f, f))
<1>1. PICK new, order, n :
        /\ new = Labeled(f, relevant)
        /\ order = Arranged(DOMAIN f, Ascending(DOMAIN f)) /\ n = Cardinality(DOMAIN f)
  OBVIOUS
<1>2. /\ n \in Nat /\ new \in Seq(Score \X BOOLEAN) /\ Len(new) = n
      /\ order \in [1..n -> DOMAIN f]
      /\ \A t \in DOMAIN f : \E k \in 1..n : order[k] = t
      /\ \A j, k \in 1..n : order[j] = order[k] => j = k
      /\ \A k \in 1..n : new[k][1] = f[order[k]] /\ (new[k][2] <=> order[k] \in relevant)
  BY <1>1, LabeledType
<1>3. PICK g : Lists(g, held, labeled, S)
  BY DEF LabelsHold
<1>4. PICK m \in Nat : m = Len(labeled)
  BY LenProperties DEF LabelsHold
<1>5. labeled \in Seq(Score \X BOOLEAN) /\ DOMAIN labeled = 1..m
  BY <1>4, LenProperties DEF LabelsHold
<1>6. PICK both : both = labeled \o new
  OBVIOUS
<1>7. /\ both \in Seq(Score \X BOOLEAN) /\ DOMAIN both = 1..(m + n)
      /\ \A i \in 1..m : both[i] = labeled[i]
      /\ \A k \in 1..n : both[m + k] = new[k]
  BY <1>2, <1>4, <1>5, <1>6
<1>8. PICK all : all = WithPairs(S, q, DOMAIN f, f)
  OBVIOUS
<1>9. \A x : x \in all <=> x \in S \/ \E t \in DOMAIN f : x = <<q, t, f[t]>>
  BY <1>8 DEF WithPairs, PairsOf
<1>10. /\ g \in [1..m -> S] /\ \A i, j \in 1..m : g[i] = g[j] => i = j
       /\ \A x \in S : \E i \in 1..m : g[i] = x
  BY <1>3, <1>5 DEF Lists, Bijection, Injection, Surjection, IsInjective
<1>11. PICK h : h = [i \in 1..(m + n) |->
                      IF i \in 1..m THEN g[i] ELSE <<q, order[i - m], f[order[i - m]]>>]
  OBVIOUS
<1>12. ASSUME NEW i \in 1..(m + n), i \notin 1..m
       PROVE  /\ i - m \in 1..n /\ i = m + (i - m) /\ order[i - m] \in DOMAIN f
              /\ h[i] = <<q, order[i - m], f[order[i - m]]>>
  <2>1. i - m \in 1..n /\ i = m + (i - m)
    BY <1>2, <1>12
  <2> QED
    BY <1>2, <1>11, <1>12, <2>1
<1>13. /\ DOMAIN h = 1..(m + n) /\ \A i \in 1..m : i \in 1..(m + n) /\ h[i] = g[i]
  BY <1>2, <1>11
<1>14. ASSUME NEW k \in 1..n
       PROVE  /\ m + k \in 1..(m + n) /\ m + k \notin 1..m /\ (m + k) - m = k
              /\ h[m + k] = <<q, order[k], f[order[k]]>>
  <2>1. m + k \in 1..(m + n) /\ m + k \notin 1..m /\ (m + k) - m = k
    BY <1>2
  <2> QED
    BY <1>11, <2>1
<1>15. \A i \in 1..(m + n) : h[i] \in all
  BY <1>9, <1>10, <1>12, <1>13
<1>16. ASSUME NEW x \in all
       PROVE  \E i \in 1..(m + n) : h[i] = x
  <2>1. CASE x \in S
    BY <1>10, <1>13, <2>1
  <2>2. ASSUME NEW t \in DOMAIN f, x = <<q, t, f[t]>>
        PROVE  \E i \in 1..(m + n) : h[i] = x
    <3>1. PICK k \in 1..n : order[k] = t
      BY <1>2
    <3>2. m + k \in 1..(m + n) /\ h[m + k] = <<q, order[k], f[order[k]]>>
      BY <1>14
    <3> QED
      BY <2>2, <3>1, <3>2
  <2> QED
    BY <1>9, <2>1, <2>2
<1>17. ASSUME NEW i \in 1..(m + n), NEW j \in 1..(m + n), h[i] = h[j]
       PROVE  i = j
  <2>1. CASE i \in 1..m /\ j \in 1..m
    BY <1>10, <1>13, <1>17, <2>1
  <2>2. CASE i \notin 1..m /\ j \notin 1..m
    <3>1. order[i - m] = order[j - m]
      BY <1>12, <1>17, <2>2
    <3>2. i - m = j - m
      BY <1>2, <1>12, <2>2, <3>1
    <3> QED
      BY <1>12, <2>2, <3>2
  <2>3. \A k, l \in 1..(m + n) : k \in 1..m /\ l \notin 1..m => h[k] # h[l]
    <3> TAKE k \in 1..(m + n), l \in 1..(m + n)
    <3> HAVE k \in 1..m /\ l \notin 1..m
    <3>1. h[k] \in S
      BY <1>10, <1>13
    <3>2. h[k][1] # q
      BY <3>1 DEF NotYet
    <3>3. h[l][1] = q
      BY <1>12
    <3> QED
      BY <3>2, <3>3
  <2> QED
    BY <1>17, <2>1, <2>2, <2>3
<1>18. h \in Bijection(DOMAIN both, all)
  <2>1. h \in [1..(m + n) -> all]
    BY <1>13, <1>15, <1>11
  <2> QED
    BY <1>7, <1>16, <1>17, <2>1 DEF Bijection, Injection, Surjection, IsInjective
<1>19. ASSUME NEW i \in DOMAIN both
       PROVE  /\ both[i][1] = h[i][3]
              /\ both[i][2] <=> SiblingsIn(held, h[i][1], h[i][2])
  <2>1. CASE i \in 1..m
    BY <1>3, <1>5, <1>7, <1>13, <2>1 DEF Lists
  <2>2. CASE i \notin 1..m
    <3>1. PICK k \in 1..n : i = m + k /\ order[k] \in DOMAIN f
      BY <1>7, <1>12, <2>2
    <3>2. both[i] = new[k] /\ h[i] = <<q, order[k], f[order[k]]>>
      BY <1>7, <1>14, <3>1
    <3> QED
      BY <1>2, <3>1, <3>2
  <2> QED
    BY <2>1, <2>2
<1>20. Lists(h, held, both, all)
  BY <1>18, <1>19 DEF Lists
<1> QED
  BY <1>1, <1>6, <1>7, <1>8, <1>20 DEF LabelsHold, ListedOn

(* So whatever is counted over the list is counted over the pairs.          *)
Back(g, A, X) == {i \in A : g[i] \in X}

LEMMA BijectionCounts ==
  ASSUME NEW A, IsFiniteSet(A), NEW S, NEW g \in Bijection(A, S), NEW X, X \subseteq S
  PROVE  /\ IsFiniteSet(X) /\ Cardinality(X) \in Nat
         /\ Cardinality(Back(g, A, X)) = Cardinality(X)
<1> DEFINE I == {i \in A : g[i] \in X}
           h == [i \in I |-> g[i]]
<1>1. IsFiniteSet(I) /\ Cardinality(I) \in Nat
  BY FS_Subset, FS_CardinalityType
<1>2. h \in Bijection(I, X)
  BY DEF Bijection, Injection, Surjection, IsInjective
<1> HIDE DEF h, I
<1>3. IsFiniteSet(X) /\ Cardinality(I) = Cardinality(X)
  BY <1>1, <1>2, FS_Bijection DEF ExistsBijection
<1> QED
  BY <1>1, <1>3 DEF I, Back

(* The pairs of one kind: those with one score, and those from it up.       *)
Exactly(held, S, n, b) == {x \in S : x[3] = n /\ (SiblingsIn(held, x[1], x[2]) <=> b)}
FromUp(held, S, n, b)  == {x \in S : x[3] >= n /\ (SiblingsIn(held, x[1], x[2]) <=> b)}

At(labeled, n, b) == {i \in DOMAIN labeled : labeled[i] = <<n, b>>}

LEMMA ListCounts ==
  ASSUME NEW held, NEW labeled, NEW S, LabelsHold(held, labeled, S)
  PROVE  /\ IsFiniteSet(S) /\ \A x \in S : x[3] \in Score
         /\ Observed(labeled) = {x[3] : x \in S}
         /\ \A n, b :
              b \in BOOLEAN =>
                /\ Cardinality(At(labeled, n, b)) = Cardinality(Exactly(held, S, n, b))
                /\ Count(labeled, b, n) = Cardinality(FromUp(held, S, n, b))
<1>1. PICK g : Lists(g, held, labeled, S)
  BY DEF LabelsHold
<1>2. /\ labeled \in Seq(Score \X BOOLEAN)
      /\ Len(labeled) \in Nat /\ DOMAIN labeled = 1..Len(labeled)
  BY LenProperties DEF LabelsHold
<1>3. PICK A : A = DOMAIN labeled
  OBVIOUS
<1>4. IsFiniteSet(A)
  <2>1. IsFiniteSet(1..Len(labeled))
    BY <1>2, FS_Interval
  <2> QED
    BY <1>2, <1>3, <2>1
<1>5. g \in Bijection(A, S)
  BY <1>1, <1>3 DEF Lists
<1>6. \A i \in A : /\ g[i] \in S /\ labeled[i] \in Score \X BOOLEAN
                   /\ labeled[i][1] = g[i][3]
                   /\ labeled[i][2] <=> SiblingsIn(held, g[i][1], g[i][2])
  BY <1>1, <1>2, <1>3, <1>5, ElementOfSeq DEF Lists, Bijection, Injection
<1>7. \A x \in S : \E i \in A : g[i] = x
  BY <1>5 DEF Bijection, Surjection
<1>8. \A x \in S : x[3] \in Score
  BY <1>6, <1>7
<1>9. Observed(labeled) = {x[3] : x \in S}
  <2>1. \A i \in A : \E x \in S : labeled[i][1] = x[3]
    BY <1>6
  <2>2. \A x \in S : \E i \in A : labeled[i][1] = x[3]
    BY <1>6, <1>7
  <2> QED
    BY <1>3, <2>1, <2>2 DEF Observed
<1>10. IsFiniteSet(S)
  BY <1>4, <1>5, BijectionCounts
<1>11. ASSUME NEW n, NEW b \in BOOLEAN
       PROVE  /\ Cardinality(At(labeled, n, b)) = Cardinality(Exactly(held, S, n, b))
              /\ Count(labeled, b, n) = Cardinality(FromUp(held, S, n, b))
  <2>1. PICK X, Y : X = Exactly(held, S, n, b) /\ Y = FromUp(held, S, n, b)
    OBVIOUS
  <2>2. X \subseteq S /\ Y \subseteq S
    BY <2>1 DEF Exactly, FromUp
  <2>3. /\ Cardinality(Back(g, A, X)) = Cardinality(X)
        /\ Cardinality(Back(g, A, Y)) = Cardinality(Y)
    BY <1>4, <1>5, <2>2, BijectionCounts
  <2>4. ASSUME NEW i \in A
        PROVE  /\ g[i] \in X <=> labeled[i] = <<n, b>>
               /\ g[i] \in Y <=> labeled[i][1] >= n /\ labeled[i][2] = b
    <3>1. /\ g[i] \in S /\ labeled[i] = <<labeled[i][1], labeled[i][2]>>
          /\ labeled[i][2] \in BOOLEAN /\ labeled[i][1] = g[i][3]
          /\ labeled[i][2] <=> SiblingsIn(held, g[i][1], g[i][2])
      BY <1>6
    <3>2. g[i] \in X <=> g[i][3] = n /\ (SiblingsIn(held, g[i][1], g[i][2]) <=> b)
      BY <2>1, <3>1 DEF Exactly
    <3>3. g[i] \in Y <=> g[i][3] >= n /\ (SiblingsIn(held, g[i][1], g[i][2]) <=> b)
      BY <2>1, <3>1 DEF FromUp
    <3>4. (SiblingsIn(held, g[i][1], g[i][2]) <=> b) <=> labeled[i][2] = b
      BY <3>1
    <3> QED
      BY <3>1, <3>2, <3>3, <3>4
  <2>5. /\ Back(g, A, X) = At(labeled, n, b)
        /\ Back(g, A, Y) =
             {i \in DOMAIN labeled : labeled[i][1] >= n /\ labeled[i][2] = b}
    BY <1>3, <2>4 DEF Back, At
  <2> QED
    BY <2>1, <2>3, <2>5 DEF Count
<1> QED
  BY <1>8, <1>9, <1>10, <1>11

(* The table of near-misses has, of each cluster, the one that was created.  *)
LEMMA NearMissHold ==
  ASSUME NEW held, NEW rows, NEW r, WrittenBy(held, rows, r)
  PROVE  \A c, n :
           (c \in DOMAIN NearMiss(rows) /\ n = NearMiss(rows)[c]) <=>
             /\ n \in DOMAIN held /\ held[n].run = r
             /\ TextIn(held, n).mark = "near-miss" /\ TextIn(held, n).cluster = c
<1> DEFINE near == {i \in DOMAIN rows : rows[i].group = "distractor" /\ rows[i].mark = "near-miss"}
           Of(c) == {i \in near : rows[i].cluster = c}
<1>1. /\ DOMAIN NearMiss(rows) = {rows[i].cluster : i \in near}
      /\ \A c \in DOMAIN NearMiss(rows) : NearMiss(rows)[c] = rows[Max(Of(c))].ticket_name
  BY DEF NearMiss
<1>2. ASSUME NEW i \in DOMAIN rows
      PROVE  /\ rows[i].ticket_name \in DOMAIN held
             /\ held[rows[i].ticket_name].run = r
             /\ TextIn(held, rows[i].ticket_name) = Fixture[Order[i]]
             /\ rows[i].cluster = Fixture[Order[i]].cluster
             /\ i \in near <=> Fixture[Order[i]].mark = "near-miss"
             /\ i \in DOMAIN Order /\ Order[i] \in DOMAIN Fixture
  <2>1. PICK n : n = rows[i].ticket_name
    OBVIOUS
  <2>2. /\ n \in DOMAIN held /\ held[n].run = r /\ held[n].place = Order[i]
        /\ rows[i] = Note(n, TextIn(held, n)) /\ i \in DOMAIN Order
    BY <2>1, RowsHold
  <2>3. PICK e : e = Fixture[Order[i]]
    OBVIOUS
  <2>4. TextIn(held, n) = e
    BY <2>2, <2>3 DEF TextIn
  <2>5. Order[i] \in DOMAIN Fixture /\ e \in Entries
    BY <2>2, <2>3, OrderType, PickedOfFixture
  <2>6. e.mark = "near-miss" => e.group = "distractor"
    BY <2>3, <2>5, NearMissTexts
  <2>7. rows[i] = Note(n, e)
    BY <2>2, <2>4
  <2>8. rows[i].group = e.group /\ rows[i].cluster = e.cluster
    BY <2>7, NoteFields
  <2>9. ASSUME e.group = "distractor"
        PROVE  rows[i].mark = "near-miss" <=> e.mark = "near-miss"
    BY <2>7, <2>9, NoneIsNoMark DEF Note, Kind
  <2> QED
    BY <2>1, <2>2, <2>3, <2>4, <2>5, <2>6, <2>8, <2>9
<1>3. ASSUME NEW i \in near
      PROVE  Max(Of(rows[i].cluster)) = i
  <2>1. \A j \in Of(rows[i].cluster) : j = i
    <3> TAKE j \in Of(rows[i].cluster)
    <3>1. i \in DOMAIN rows /\ j \in DOMAIN rows /\ j \in near /\ rows[j].cluster = rows[i].cluster
      OBVIOUS
    <3> HIDE DEF near
    <3>2. /\ Fixture[Order[i]].mark = "near-miss" /\ Fixture[Order[j]].mark = "near-miss"
          /\ Fixture[Order[i]].cluster = Fixture[Order[j]].cluster
          /\ Order[i] \in DOMAIN Fixture /\ Order[j] \in DOMAIN Fixture
          /\ i \in DOMAIN Order /\ j \in DOMAIN Order
      BY <1>2, <1>3, <3>1
    <3>3. Order[i] = Order[j]
      BY <3>2, NearMissTexts
    <3> QED
      BY <3>2, <3>3, OrderType
  <2>2. i \in Int
    BY OrderType, RowsHold
  <2>3. i \in Of(rows[i].cluster)
    OBVIOUS
  <2>4. PICK T : T = Of(rows[i].cluster)
    OBVIOUS
  <2> HIDE DEF Of, near
  <2>5. (CHOOSE x \in T : \A y \in T : x >= y) = i
    BY <2>1, <2>2, <2>3, <2>4
  <2> QED
    BY <2>4, <2>5 DEF Max
<1>4. ASSUME NEW c, NEW n, c \in DOMAIN NearMiss(rows), n = NearMiss(rows)[c]
      PROVE  /\ n \in DOMAIN held /\ held[n].run = r
             /\ TextIn(held, n).mark = "near-miss" /\ TextIn(held, n).cluster = c
  <2>1. PICK i \in near : rows[i].cluster = c
    BY <1>1, <1>4
  <2>2. n = rows[i].ticket_name /\ i \in DOMAIN rows
    BY <1>1, <1>3, <1>4, <2>1
  <2> HIDE DEF near
  <2> QED
    BY <1>2, <2>1, <2>2
<1>5. ASSUME NEW c, NEW n, n \in DOMAIN held, held[n].run = r,
             TextIn(held, n).mark = "near-miss", TextIn(held, n).cluster = c
      PROVE  c \in DOMAIN NearMiss(rows) /\ n = NearMiss(rows)[c]
  <2>1. PICK i \in DOMAIN rows : rows[i].ticket_name = n
    BY <1>5, RowsHold
  <2> HIDE DEF near
  <2>2. i \in near /\ rows[i].cluster = c
    BY <1>2, <1>5, <2>1
  <2>3. c \in DOMAIN NearMiss(rows)
    BY <1>1, <2>2
  <2> QED
    BY <1>1, <1>3, <2>1, <2>2, <2>3
<1> QED
  BY <1>4, <1>5

(* The sweep: fractions are ordered, and what comes out of it is the        *)
(* greatest.                                                                *)
Fractions == {x \in Nat \X Nat : x[2] > 0}

LEMMA TimesKeepsOrder ==
  ASSUME NEW a \in Nat, NEW b \in Nat, NEW c \in Nat, c > 0
  PROVE  a <= b <=> a * c <= b * c
<1>1. ASSUME NEW x \in Nat, NEW y \in Nat, x <= y
      PROVE  x * c <= y * c
  <2>1. PICK d \in Nat : y = x + d
    <3>1. y - x \in Nat /\ y = x + (y - x)
      BY <1>1
    <3> QED
      BY <3>1
  <2>2. y * c = x * c + d * c
    BY <2>1
  <2>3. d * c \in Nat /\ x * c \in Nat
    OBVIOUS
  <2> QED
    BY <2>2, <2>3
<1>2. ASSUME NEW x \in Nat, NEW y \in Nat, x < y
      PROVE  x * c < y * c
  <2>1. PICK d \in Nat : y = x + d /\ d > 0
    <3>1. y - x \in Nat /\ y = x + (y - x) /\ y - x > 0
      BY <1>2
    <3> QED
      BY <3>1
  <2>2. y * c = x * c + d * c
    BY <2>1
  <2>3. d * c > 0 /\ d * c \in Nat /\ x * c \in Nat
    BY <2>1
  <2> QED
    BY <2>2, <2>3
<1>3. a * c \in Nat /\ b * c \in Nat
  OBVIOUS
<1>4. a <= b \/ b < a
  OBVIOUS
<1>5. b < a => ~ (a <= b)
  OBVIOUS
<1>6. b * c < a * c => ~ (a * c <= b * c)
  BY <1>3
<1> QED
  BY <1>1, <1>2, <1>4, <1>5, <1>6

LEMMA LessOrders ==
  ASSUME NEW x \in Fractions, NEW y \in Fractions, NEW z \in Fractions
  PROVE  /\ ~ Less(x, x)
         /\ ~ Less(x, y) /\ ~ Less(y, z) => ~ Less(x, z)
<1>1. /\ x[1] \in Nat /\ x[2] \in Nat /\ x[2] > 0 /\ y[1] \in Nat /\ y[2] \in Nat /\ y[2] > 0
      /\ z[1] \in Nat /\ z[2] \in Nat /\ z[2] > 0
  BY DEF Fractions
<1>2. ~ Less(x, x)
  BY <1>1 DEF Less
<1>3. ASSUME NEW a \in Nat, NEW b \in Nat, b > 0, NEW c \in Nat, NEW d \in Nat, d > 0,
             NEW e \in Nat, NEW f \in Nat, f > 0,
             c * b <= a * d, e * d <= c * f
      PROVE  e * b <= a * f
  <2>1. (c * b) * f <= (a * d) * f
    BY <1>3, TimesKeepsOrder
  <2>2. (e * d) * b <= (c * f) * b
    BY <1>3, TimesKeepsOrder
  <2>3. (c * b) * f = (c * f) * b
    OBVIOUS
  <2>4. (e * d) * b <= (a * d) * f
    BY <2>1, <2>2, <2>3
  <2>5. (e * d) * b = (e * b) * d /\ (a * d) * f = (a * f) * d
    OBVIOUS
  <2>6. (e * b) * d <= (a * f) * d
    BY <2>4, <2>5
  <2> QED
    BY <1>3, <2>6, TimesKeepsOrder
<1>4. ASSUME ~ Less(x, y), ~ Less(y, z)
      PROVE  ~ Less(x, z)
  <2>1. y[1] * x[2] <= x[1] * y[2] /\ z[1] * y[2] <= y[1] * z[2]
    BY <1>1, <1>4 DEF Less
  <2>2. z[1] * x[2] <= x[1] * z[2]
    BY <1>1, <1>3, <2>1
  <2>3. z[1] * x[2] \in Nat /\ x[1] * z[2] \in Nat
    BY <1>1
  <2> QED
    BY <2>2, <2>3 DEF Less
<1> QED
  BY <1>2, <1>4

LEMMA FBetaIsFraction ==
  ASSUME NEW tp \in Nat, NEW fp \in Nat, NEW fn \in Nat
  PROVE  /\ FBeta(tp, fp, fn) \in Fractions
         /\ tp = 0 => FBeta(tp, fp, fn)[1] = 0
         /\ tp > 0 => FBeta(tp, fp, fn)[1] > 0
<1>1. CASE tp = 0
  BY <1>1 DEF FBeta, Fractions
<1>2. CASE tp > 0
  <2>1. PICK n : n = 5 * tp * tp
    OBVIOUS
  <2>2. PICK d : d = tp * (tp + fn) + 4 * tp * (tp + fp)
    OBVIOUS
  <2>3. n \in Nat /\ n > 0
    BY <1>2, <2>1
  <2>4. d \in Nat /\ d > 0
    <3>1. tp * (tp + fn) \in Nat /\ tp * (tp + fn) > 0
      BY <1>2
    <3>2. 4 * tp * (tp + fp) \in Nat
      OBVIOUS
    <3> QED
      BY <2>2, <3>1, <3>2
  <2>5. FBeta(tp, fp, fn) = <<n, d>>
    BY <1>2, <2>1, <2>2 DEF FBeta
  <2> QED
    BY <1>2, <2>3, <2>4, <2>5 DEF Fractions
<1> QED
  BY <1>1, <1>2

LEMMA ScoreType ==
  ASSUME NEW labeled \in Seq(Score \X BOOLEAN), NEW i \in DOMAIN labeled
  PROVE  labeled[i][1] \in Nat
<1>1. labeled[i] \in Score \X BOOLEAN
  BY ElementOfSeq, LenProperties
<1> QED
  BY <1>1, ScoresAreNaturals

LEMMA CountType ==
  ASSUME NEW labeled \in Seq(Score \X BOOLEAN), NEW n \in Nat
  PROVE  /\ \A b \in BOOLEAN : Count(labeled, b, n) \in Nat
         /\ Count(labeled, TRUE, n) <= Count(labeled, TRUE, 0)
         /\ FOf(labeled, n) \in Fractions
         /\ Count(labeled, TRUE, n) = 0 => FOf(labeled, n)[1] = 0
         /\ Count(labeled, TRUE, n) > 0 => FOf(labeled, n)[1] > 0
<1> DEFINE I(b, k) == {i \in DOMAIN labeled : labeled[i][1] >= k /\ labeled[i][2] = b}
<1>1. IsFiniteSet(DOMAIN labeled)
  <2>1. Len(labeled) \in Nat /\ DOMAIN labeled = 1..Len(labeled)
    BY LenProperties
  <2>2. IsFiniteSet(1..Len(labeled))
    BY <2>1, FS_Interval
  <2> QED
    BY <2>1, <2>2
<1>2. ASSUME NEW b \in BOOLEAN, NEW k
      PROVE  /\ Count(labeled, b, k) = Cardinality(I(b, k))
             /\ IsFiniteSet(I(b, k)) /\ Cardinality(I(b, k)) \in Nat
  <2>1. I(b, k) \subseteq DOMAIN labeled
    OBVIOUS
  <2>2. IsFiniteSet(I(b, k))
    BY <1>1, <2>1, FS_Subset
  <2>3. Count(labeled, b, k) = Cardinality(I(b, k))
    BY DEF Count
  <2> QED
    BY <2>2, <2>3, FS_CardinalityType
<1>3. \A b \in BOOLEAN : \A k : Count(labeled, b, k) \in Nat
  BY <1>2
<1>4. ASSUME NEW b \in BOOLEAN
      PROVE  Count(labeled, b, n) <= Count(labeled, b, 0)
  <2>1. \A i \in DOMAIN labeled : labeled[i][1] \in Nat
    BY ScoreType
  <2>2. I(b, n) \subseteq I(b, 0)
    BY <2>1
  <2> HIDE DEF I
  <2> QED
    BY <1>2, <2>2, FS_Subset
<1> HIDE DEF I
<1>5. PICK tp, fp, all :
        /\ tp = Count(labeled, TRUE, n) /\ fp = Count(labeled, FALSE, n)
        /\ all = Count(labeled, TRUE, 0)
  OBVIOUS
<1>6. tp \in Nat /\ fp \in Nat /\ all \in Nat /\ tp <= all
  BY <1>3, <1>4, <1>5
<1>7. PICK fn \in Nat : fn = all - tp
  BY <1>6
<1>8. FOf(labeled, n) = FBeta(tp, fp, fn)
  BY <1>5, <1>7 DEF FOf
<1>9. /\ FBeta(tp, fp, fn) \in Fractions
      /\ tp = 0 => FBeta(tp, fp, fn)[1] = 0
      /\ tp > 0 => FBeta(tp, fp, fn)[1] > 0
  BY <1>6, <1>7, FBetaIsFraction
<1> QED
  BY <1>3, <1>5, <1>6, <1>8, <1>9

LEMMA ObservedType ==
  ASSUME NEW labeled \in Seq(Score \X BOOLEAN)
  PROVE  Observed(labeled) \subseteq Nat /\ IsFiniteSet(Observed(labeled))
<1>1. Len(labeled) \in Nat /\ DOMAIN labeled = 1..Len(labeled)
  BY LenProperties
<1>2. \A i \in DOMAIN labeled : labeled[i][1] \in Nat
  BY ScoreType
<1>3. IsFiniteSet(DOMAIN labeled)
  <2>1. IsFiniteSet(1..Len(labeled))
    BY <1>1, FS_Interval
  <2> QED
    BY <1>1, <2>1
<1>4. PICK f : f = [i \in DOMAIN labeled |-> labeled[i][1]]
  OBVIOUS
<1>5. f \in Surjection(DOMAIN labeled, Observed(labeled))
  BY <1>4 DEF Surjection, Observed
<1> QED
  BY <1>2, <1>3, <1>5, FS_Surjection DEF Observed

LEMMA SweepFindsBest ==
  ASSUME NEW labeled \in Seq(Score \X BOOLEAN), Observed(labeled) # {},
         NEW n \in BestThresholds(labeled)
  PROVE  /\ n \in Observed(labeled)
         /\ \A m \in Observed(labeled) : ~ Less(FOf(labeled, n), FOf(labeled, m))
<1> DEFINE seen == Observed(labeled)
           candidate == Arranged(seen, Ascending(seen))
           N == Cardinality(seen)
<1>1. seen = Observed(labeled)
  OBVIOUS
<1>2. IsFiniteSet(seen) /\ seen \in SUBSET Nat /\ seen # {}
  BY <1>1, ObservedType
<1>3. StrictlyOrders(Ascending(seen), seen)
  BY <1>2, AscendingOrders
<1>4. /\ N \in Nat /\ candidate \in [1..N -> seen]
      /\ \A x \in seen : \E k \in 1..N : candidate[k] = x
  BY <1>2, <1>3, ArrangedSorts
<1>5. N > 0
  BY <1>2, <1>4
<1>6. PICK best \in [1..N -> seen] : Sweeps(best, candidate, labeled) /\ n = best[N]
  <2>1. DOMAIN candidate = 1..N
    BY <1>4
  <2> QED
    BY <2>1 DEF BestThresholds
<1> HIDE DEF seen, candidate, N
<1>7. PICK F : F = [m \in seen |-> FOf(labeled, m)]
  OBVIOUS
<1>8. \A m \in seen : F[m] = FOf(labeled, m) /\ F[m] \in Fractions
  BY <1>1, <1>2, <1>7, CountType
<1>9. /\ best[1] = candidate[1]
      /\ \A k \in (1..N) \ {1} :
           \/ best[k] = best[k - 1] /\ ~ Less(F[best[k - 1]], F[candidate[k]])
           \/ best[k] = candidate[k] /\ ~ Less(F[candidate[k]], F[best[k - 1]])
  <2>1. DOMAIN candidate = 1..N
    BY <1>4
  <2>2. ASSUME NEW k \in (1..N) \ {1}
        PROVE  k - 1 \in 1..N
    BY <1>4
  <2>3. \A k \in (1..N) \ {1} : best[k - 1] \in seen /\ candidate[k] \in seen
    BY <1>4, <1>6, <2>2
  <2> QED
    BY <1>6, <1>8, <2>1, <2>3 DEF Sweeps
<1> DEFINE Leads(k) == \A j \in 1..k : ~ Less(F[best[k]], F[candidate[j]])
           Bad == {k \in 1..N : ~ Leads(k)}
<1>10. Leads(1)
  <2>1. 1 \in 1..N
    BY <1>4, <1>5
  <2>2. candidate[1] \in seen
    BY <1>4, <2>1
  <2> QED
    BY <1>8, <1>9, <2>2, LessOrders
<1>11. ASSUME NEW k \in (1..N) \ {1}, Leads(k - 1)
       PROVE  Leads(k)
  <2>1. /\ k - 1 \in 1..N /\ k \in 1..N
        /\ best[k - 1] \in seen /\ best[k] \in seen /\ candidate[k] \in seen
    <3>1. k - 1 \in 1..N /\ k \in 1..N
      BY <1>4
    <3> QED
      BY <1>4, <1>6, <3>1
  <2>2. SUFFICES ASSUME NEW j \in 1..k
                 PROVE  ~ Less(F[best[k]], F[candidate[j]])
    OBVIOUS
  <2>3. j \in 1..N /\ candidate[j] \in seen
    <3>1. j \in 1..N
      BY <1>4, <2>1
    <3> QED
      BY <1>4, <3>1
  <2>4. CASE j = k
    BY <1>8, <1>9, <2>1, <2>4, LessOrders
  <2>5. CASE j # k
    <3>1. j \in 1..(k - 1)
      BY <1>4, <2>1, <2>5
    <3>2. ~ Less(F[best[k - 1]], F[candidate[j]])
      BY <1>11, <3>1
    <3> QED
      BY <1>8, <1>9, <2>1, <2>3, <3>2, LessOrders
  <2> QED
    BY <2>4, <2>5
<1>12. Bad = {}
  <2>1. SUFFICES ASSUME Bad # {}
                 PROVE  FALSE
    OBVIOUS
  <2>2. Bad \subseteq Nat /\ IsFiniteSet(Bad)
    <3>1. IsFiniteSet(1..N) /\ Bad \subseteq 1..N /\ 1..N \subseteq Nat
      BY <1>4, FS_Interval
    <3> QED
      BY <3>1, FS_Subset
  <2> HIDE DEF Bad
  <2>3. PICK k \in Bad : \A j \in Bad : k <= j
    BY <2>1, <2>2, LeastOfSet
  <2>4. k \in 1..N /\ ~ Leads(k)
    BY <2>3 DEF Bad
  <2> HIDE DEF Leads
  <2>5. k # 1
    BY <1>10, <2>4
  <2>6. k - 1 \in 1..N /\ ~ (k <= k - 1)
    BY <1>4, <2>4, <2>5
  <2>7. k - 1 \notin Bad
    BY <2>3, <2>6
  <2>8. Leads(k - 1)
    BY <2>6, <2>7 DEF Bad
  <2> QED
    BY <1>11, <2>4, <2>5, <2>8
<1>13. N \in 1..N
  BY <1>4, <1>5
<1>14. Leads(N)
  BY <1>12, <1>13
<1>15. ASSUME NEW m \in seen
       PROVE  ~ Less(FOf(labeled, n), FOf(labeled, m))
  <2>1. PICK j \in 1..N : candidate[j] = m
    BY <1>4
  <2>2. n \in seen
    BY <1>6, <1>13
  <2> QED
    BY <1>6, <1>8, <1>14, <2>1, <2>2
<1> QED
  BY <1>1, <1>6, <1>13, <1>15

(* Of the pairs scored, those by which a cluster leaks.                     *)
LeaksIn(held, S, c) ==
  {x \in S : /\ x[3] >= MatchThreshold
             /\ TextIn(held, x[2]).mark = "near-miss" /\ TogetherIn(held, x[1], x[2])
             /\ TextIn(held, x[1]).cluster = c}

LeakCount(held, hits, S) == \A c : Copies(c, hits) = Cardinality(LeaksIn(held, S, c))

(* Of the queries gone through, those of a cluster.                         *)
AskedIn(final, c) == {i \in DOMAIN final : final[i][1].cluster = c}

TotalCount(near, totals, final) ==
  \A c : Copies(c, totals) = IF c \in DOMAIN near THEN Cardinality(AskedIn(final, c)) ELSE 0

(* What the query q of the cluster c does to the counters.                  *)
Counted(near, q, c, f, hits, totals, newHits, newTotals) ==
  IF c \notin DOMAIN near THEN newHits = hits /\ newTotals = totals
  ELSE /\ newTotals = totals (+) SetToBag({c})
       /\ newHits = IF Cleared(q, near[c], f) THEN hits (+) SetToBag({c}) ELSE hits

LEMMA OneCopy ==
  ASSUME NEW c, NEW x
  PROVE  Copies(x, SetToBag({c})) = IF x = c THEN 1 ELSE 0
BY DEF Copies, SetToBag

LEMMA LeakStep ==
  ASSUME NEW held, NEW rows, NEW r, WrittenBy(held, rows, r),
         NEW S, IsFiniteSet(S), NEW q, NotYet(S, q),
         q \in DOMAIN held, held[q].run = r,
         NEW f, IsFiniteSet(DOMAIN f), DOMAIN f \subseteq DOMAIN held,
         NEW hits, NEW totals, LeakCount(held, hits, S),
         NEW newHits, NEW newTotals,
         Counted(NearMiss(rows), q, TextIn(held, q).cluster, f, hits, totals, newHits, newTotals)
  PROVE  LeakCount(held, newHits, WithPairs(S, q, DOMAIN f, f))
<1> DEFINE near == NearMiss(rows)
           cq == TextIn(held, q).cluster
           all == WithPairs(S, q, DOMAIN f, f)
<1>1. \A t \in DOMAIN f :
        TextIn(held, t).mark = "near-miss" /\ TogetherIn(held, q, t)
          <=> cq \in DOMAIN near /\ t = near[cq]
  BY NearMissHold DEF TogetherIn
<1> SUFFICES ASSUME NEW c
             PROVE  Copies(c, newHits) = Cardinality(LeaksIn(held, all, c))
  BY DEF LeakCount
<1> DEFINE Y == LeaksIn(held, all, c)
           new == PairedIn(q, DOMAIN f, f, Y)
<1>2. InBoth(all, Y) = Y /\ InBoth(S, Y) = LeaksIn(held, S, c)
  BY DEF InBoth, LeaksIn, WithPairs
<1>3. new = {t \in DOMAIN f : /\ f[t] >= MatchThreshold
                              /\ cq \in DOMAIN near /\ t = near[cq] /\ cq = c}
  <2>1. \A t \in DOMAIN f : <<q, t, f[t]>> \in Y <=>
          /\ f[t] >= MatchThreshold
          /\ TextIn(held, t).mark = "near-miss" /\ TogetherIn(held, q, t) /\ cq = c
    BY DEF LeaksIn, WithPairs, PairsOf
  <2> HIDE DEF Y, cq, near
  <2> QED
    BY <1>1, <2>1 DEF PairedIn
<1> HIDE DEF Y, new, cq, near, all
<1>4. /\ Cardinality(Y) = Cardinality(InBoth(S, Y)) + Cardinality(new)
      /\ Cardinality(InBoth(S, Y)) \in Nat
  BY <1>2, PairsCount DEF all, new
<1>5. Copies(c, hits) = Cardinality(InBoth(S, Y))
  BY <1>2 DEF LeakCount
<1>6. Counted(near, q, cq, f, hits, totals, newHits, newTotals)
  BY DEF near, cq
<1>7. CASE cq \notin DOMAIN near
  <2>1. new = {} /\ newHits = hits
    BY <1>3, <1>6, <1>7 DEF Counted
  <2> QED
    BY <1>4, <1>5, <2>1, FS_EmptySet DEF Y, all
<1>8. CASE cq \in DOMAIN near /\ c # cq
  <2>1. new = {}
    BY <1>3, <1>8
  <2>2. Copies(c, SetToBag({cq})) = 0
    BY <1>8, OneCopy
  <2>3. Copies(c, newHits) = Copies(c, hits) \/ Copies(c, newHits) = Copies(c, hits) + 0
    BY <1>6, <1>8, <2>2, CopiesAdd DEF Counted
  <2> QED
    BY <1>4, <1>5, <2>1, <2>3, FS_EmptySet DEF Y, all
<1>9. CASE cq \in DOMAIN near /\ c = cq
  <2>1. Copies(c, SetToBag({cq})) = 1
    BY <1>9, OneCopy
  <2>2. CASE Cleared(q, near[cq], f)
    <3>1. new = {near[cq]}
      BY <1>3, <1>9, <2>2 DEF Cleared
    <3>2. Cardinality(new) = 1
      BY <3>1, FS_Singleton
    <3>3. Copies(c, newHits) = Copies(c, hits) + 1
      BY <1>6, <1>9, <2>1, <2>2, CopiesAdd DEF Counted
    <3> QED
      BY <1>4, <1>5, <3>2, <3>3 DEF Y, all
  <2>3. CASE ~ Cleared(q, near[cq], f)
    <3>1. new = {}
      BY <1>3, <2>3 DEF Cleared
    <3>2. newHits = hits
      BY <1>6, <1>9, <2>3 DEF Counted
    <3> QED
      BY <1>4, <1>5, <3>1, <3>2, FS_EmptySet DEF Y, all
  <2> QED
    BY <2>2, <2>3
<1> QED
  BY <1>7, <1>8, <1>9

LEMMA TotalStep ==
  ASSUME NEW S, NEW final \in Seq(S), NEW x \in S, NEW near, NEW q, NEW f,
         NEW hits, NEW totals, TotalCount(near, totals, final), NEW newHits, NEW newTotals,
         Counted(near, q, x[1].cluster, f, hits, totals, newHits, newTotals)
  PROVE  TotalCount(near, newTotals, Append(final, x))
<1>1. PICK more, k, cq : more = Append(final, x) /\ k = Len(final) + 1 /\ cq = x[1].cluster
  OBVIOUS
<1>2. /\ DOMAIN more = DOMAIN final \cup {k} /\ more[k] = x
      /\ \A i \in DOMAIN final : more[i] = final[i]
      /\ Len(final) \in Nat /\ DOMAIN final = 1..Len(final)
  BY <1>1, AppendGrows
<1>3. k \notin DOMAIN final
  BY <1>1, <1>2
<1>4. Counted(near, q, cq, f, hits, totals, newHits, newTotals)
  BY <1>1
<1>5. ASSUME NEW c
      PROVE  Copies(c, newTotals) =
               IF c \in DOMAIN near THEN Cardinality(AskedIn(more, c)) ELSE 0
  <2>1. Copies(c, totals) = IF c \in DOMAIN near THEN Cardinality(AskedIn(final, c)) ELSE 0
    BY DEF TotalCount
  <2>2. IsFiniteSet(AskedIn(final, c)) /\ Cardinality(AskedIn(final, c)) \in Nat
    <3>1. AskedIn(final, c) \subseteq 1..Len(final) /\ IsFiniteSet(1..Len(final))
      BY <1>2, FS_Interval DEF AskedIn
    <3> QED
      BY <3>1, FS_Subset, FS_CardinalityType
  <2>3. CASE cq \in DOMAIN near /\ c = cq
    <3>1. AskedIn(more, c) = AskedIn(final, c) \cup {k} /\ k \notin AskedIn(final, c)
      BY <1>1, <1>2, <1>3, <2>3 DEF AskedIn
    <3>2. Cardinality(AskedIn(more, c)) = Cardinality(AskedIn(final, c)) + 1
      BY <2>2, <3>1, FS_AddElement
    <3>3. Copies(c, SetToBag({cq})) = 1 /\ newTotals = totals (+) SetToBag({cq})
      BY <1>4, <2>3, OneCopy DEF Counted
    <3>4. Copies(c, newTotals) = Copies(c, totals) + 1
      BY <3>3, CopiesAdd
    <3> QED
      BY <2>1, <2>3, <3>2, <3>4
  <2>4. CASE ~ (cq \in DOMAIN near /\ c = cq)
    <3>1. Copies(c, totals) \in Nat
      BY <2>1, <2>2
    <3>2. Copies(c, newTotals) = Copies(c, totals)
      <4>1. CASE cq \notin DOMAIN near
        BY <1>4, <4>1 DEF Counted
      <4>2. CASE cq \in DOMAIN near
        <5>1. Copies(c, SetToBag({cq})) = 0 /\ newTotals = totals (+) SetToBag({cq})
          BY <1>4, <2>4, <4>2, OneCopy DEF Counted
        <5>2. Copies(c, newTotals) = Copies(c, totals) + 0 \/ Copies(c, newTotals) = Copies(c, totals)
          BY <5>1, CopiesAdd
        <5> QED
          BY <3>1, <5>2
      <4> QED
        BY <4>1, <4>2
    <3>3. c \in DOMAIN near => AskedIn(more, c) = AskedIn(final, c)
      BY <1>1, <1>2, <2>4 DEF AskedIn
    <3> QED
      BY <2>1, <3>2, <3>3
  <2> QED
    BY <2>3, <2>4
<1> QED
  BY <1>1, <1>5 DEF TotalCount

(* At the end every member of a cluster was a query once.                   *)
LEMMA MembersAsked ==
  ASSUME NEW held, NEW rows, NEW r, WrittenBy(held, rows, r), NEW final,
         DOMAIN final = DOMAIN Queries(rows),
         \A i \in DOMAIN final : final[i][1] = Queries(rows)[i], NEW c
  PROVE  Cardinality(AskedIn(final, c)) = Cardinality(Members(c))
<1>1. PICK qs : qs = Queries(rows)
  OBVIOUS
<1>2. ASSUME NEW i \in DOMAIN qs
      PROVE  \E k \in DOMAIN rows :
               /\ qs[i] = rows[k] /\ k \in DOMAIN Order
               /\ qs[i].ticket_name = r + k - 1
               /\ Fixture[Order[k]].group = "member"
               /\ qs[i].cluster = Fixture[Order[k]].cluster
  <2>1. PICK k \in DOMAIN rows : qs[i] = rows[k] /\ rows[k].group = "member"
    BY <1>1, QueriesHold
  <2> QED
    BY <2>1, RowsHold DEF TextIn
<1>3. PICK g : g = [i \in AskedIn(final, c) |-> Order[qs[i].ticket_name - r + 1]]
  OBVIOUS
<1>4. ASSUME NEW i \in AskedIn(final, c)
      PROVE  \E k \in DOMAIN Order : /\ g[i] = Order[k] /\ qs[i] = rows[k] /\ i \in DOMAIN qs
                                     /\ Order[k] \in Members(c)
  <2>1. i \in DOMAIN qs /\ qs[i].cluster = c
    BY <1>1 DEF AskedIn
  <2>2. PICK k \in DOMAIN rows :
          /\ qs[i] = rows[k] /\ k \in DOMAIN Order
          /\ qs[i].ticket_name = r + k - 1
          /\ Fixture[Order[k]].group = "member"
          /\ qs[i].cluster = Fixture[Order[k]].cluster
    BY <1>2, <2>1
  <2>3. r \in Nat /\ k \in Nat
    BY <2>2, OrderType DEF WrittenBy
  <2>4. qs[i].ticket_name - r + 1 = k
    BY <2>2, <2>3
  <2>5. Order[k] \in Picked
    BY <2>2, OrderType
  <2> QED
    BY <1>3, <2>1, <2>2, <2>4, <2>5 DEF Members
<1>5. g \in [AskedIn(final, c) -> Members(c)]
  BY <1>3, <1>4
<1>6. ASSUME NEW i \in AskedIn(final, c), NEW j \in AskedIn(final, c), g[i] = g[j]
      PROVE  i = j
  <2>1. PICK k \in DOMAIN Order : g[i] = Order[k] /\ qs[i] = rows[k] /\ i \in DOMAIN qs
    BY <1>4
  <2>2. PICK l \in DOMAIN Order : g[j] = Order[l] /\ qs[j] = rows[l] /\ j \in DOMAIN qs
    BY <1>4
  <2>3. k = l
    BY <1>6, <2>1, <2>2, OrderType
  <2> QED
    BY <1>1, <2>1, <2>2, <2>3, QueriesHold
<1>7. ASSUME NEW p \in Members(c)
      PROVE  \E i \in AskedIn(final, c) : g[i] = p
  <2>1. PICK k \in DOMAIN Order : Order[k] = p
    BY OrderType DEF Members
  <2>2. k \in DOMAIN rows /\ rows[k].group = "member" /\ rows[k].cluster = c
    BY <2>1, RowsHold DEF Members, TextIn
  <2>3. PICK i \in DOMAIN qs : qs[i] = rows[k]
    BY <1>1, <2>2, QueriesHold
  <2>4. i \in AskedIn(final, c)
    BY <1>1, <2>2, <2>3 DEF AskedIn
  <2>5. PICK l \in DOMAIN Order : g[i] = Order[l] /\ qs[i] = rows[l]
    BY <1>4, <2>4
  <2>6. k = l
    <3>1. l \in DOMAIN rows
      BY RowsHold
    <3>2. rows[k].ticket_name = rows[l].ticket_name
      BY <2>3, <2>5
    <3> QED
      BY <2>2, <3>1, <3>2, RowsHold
  <2> QED
    BY <2>1, <2>4, <2>5, <2>6
<1>8. g \in Bijection(AskedIn(final, c), Members(c))
  BY <1>5, <1>6, <1>7 DEF Bijection, Injection, Surjection, IsInjective
<1>9. IsFiniteSet(AskedIn(final, c))
  <2>1. AskedIn(final, c) \subseteq 1..Len(qs) /\ Len(qs) \in Nat
    BY <1>1, QueriesHold, LenProperties DEF AskedIn
  <2>2. IsFiniteSet(1..Len(qs))
    BY <2>1, FS_Interval
  <2> QED
    BY <2>1, <2>2, FS_Subset
<1>10. ExistsBijection(AskedIn(final, c), Members(c))
  BY <1>8 DEF ExistsBijection
<1> QED
  BY <1>9, <1>10, FS_Bijection

(* The table of near-misses has the clusters that have one in the fixture.  *)
LEMMA NearMissKnown ==
  ASSUME NEW held, NEW rows, NEW r, WrittenBy(held, rows, r), NEW c
  PROVE  c \in DOMAIN NearMiss(rows) <=> HasNearMiss(c)
<1>1. ASSUME c \in DOMAIN NearMiss(rows)
      PROVE  HasNearMiss(c)
  <2>1. PICK n : n = NearMiss(rows)[c]
    OBVIOUS
  <2>2. /\ n \in DOMAIN held /\ TextIn(held, n).mark = "near-miss"
        /\ TextIn(held, n).cluster = c
    BY <1>1, <2>1, NearMissHold
  <2>3. held[n].place \in Picked
    BY <2>2, OrderType DEF WrittenBy, Placed
  <2> QED
    BY <2>2, <2>3 DEF HasNearMiss, TextIn
<1>2. ASSUME HasNearMiss(c)
      PROVE  c \in DOMAIN NearMiss(rows)
  <2>1. PICK p \in Picked : Fixture[p].mark = "near-miss" /\ Fixture[p].cluster = c
    BY <1>2 DEF HasNearMiss
  <2>2. PICK k \in DOMAIN Order : Order[k] = p
    BY OrderType
  <2>3. PICK n : n = rows[k].ticket_name
    OBVIOUS
  <2>4. n \in DOMAIN held /\ held[n].run = r /\ held[n].place = p
    BY <2>2, <2>3, RowsHold
  <2> QED
    BY <2>1, <2>4, NearMissHold DEF TextIn
<1> QED
  BY <1>1, <1>2

-----------------------------------------------------------------------------
(* How far a tool has come: what it has scored and what is left are the     *)
(* queries of the manifest, in their order.                                 *)
Rankings == UNION {[D -> Score] : D \in SUBSET (1..MaxTickets)}

Advanced(qs, final, todo) ==
  /\ final \in Seq(Notes \X Rankings) /\ todo \in Seq(Notes)
  /\ Len(final) + Len(todo) = Len(qs)
  /\ \A i \in DOMAIN final : final[i][1] = qs[i]
  /\ \A i \in DOMAIN todo : todo[i] = qs[Len(final) + i]

ScoredIn(final) ==
  UNION {PairsOf(final[i][1].ticket_name, DOMAIN final[i][2], final[i][2]) : i \in DOMAIN final}

PairsAt(y) == PairsOf(y[1].ticket_name, DOMAIN y[2], y[2])

LEMMA InScored ==
  ASSUME NEW final, NEW z
  PROVE  z \in ScoredIn(final) <=> \E i \in DOMAIN final : z \in PairsAt(final[i])
BY DEF ScoredIn, PairsAt

LEMMA ScoredAppend ==
  ASSUME NEW S, NEW final \in Seq(S), NEW x \in S
  PROVE  ScoredIn(Append(final, x)) =
           WithPairs(ScoredIn(final), x[1].ticket_name, DOMAIN x[2], x[2])
<1>1. PICK more : more = Append(final, x)
  OBVIOUS
<1>2. PICK k : k = Len(final) + 1
  OBVIOUS
<1>3. /\ DOMAIN more = DOMAIN final \cup {k} /\ more[k] = x
      /\ \A i \in DOMAIN final : more[i] = final[i]
  BY <1>1, <1>2, AppendGrows
<1>4. ASSUME NEW z
      PROVE  z \in ScoredIn(more) <=> z \in ScoredIn(final) \/ z \in PairsAt(x)
  <2>1. z \in ScoredIn(more) <=> \E i \in DOMAIN more : z \in PairsAt(more[i])
    BY InScored
  <2>2. z \in ScoredIn(final) <=> \E i \in DOMAIN final : z \in PairsAt(final[i])
    BY InScored
  <2> QED
    BY <1>3, <2>1, <2>2
<1>5. \A z : z \in WithPairs(ScoredIn(final), x[1].ticket_name, DOMAIN x[2], x[2])
               <=> z \in ScoredIn(final) \/ z \in PairsAt(x)
  BY DEF WithPairs, PairsAt
<1>6. ScoredIn(more) = WithPairs(ScoredIn(final), x[1].ticket_name, DOMAIN x[2], x[2])
  <2>1. PICK W : W = WithPairs(ScoredIn(final), x[1].ticket_name, DOMAIN x[2], x[2])
    OBVIOUS
  <2>2. PICK V : V = ScoredIn(more)
    OBVIOUS
  <2>3. \A z : z \in V <=> z \in W
    BY <1>4, <1>5, <2>1, <2>2
  <2> QED
    BY <2>1, <2>2, <2>3
<1> QED
  BY <1>1, <1>6

LEMMA NextQuery ==
  ASSUME NEW qs \in Seq(Notes), NEW final, NEW todo, Advanced(qs, final, todo), todo # <<>>,
         \A i, j \in DOMAIN qs : qs[i].ticket_name = qs[j].ticket_name => i = j,
         NEW f \in Rankings
  PROVE  /\ \E i \in DOMAIN qs : Head(todo) = qs[i]
         /\ NotYet(ScoredIn(final), Head(todo).ticket_name)
         /\ Advanced(qs, Append(final, <<Head(todo), f>>), Tail(todo))
<1>1. /\ final \in Seq(Notes \X Rankings) /\ todo \in Seq(Notes)
      /\ Len(final) \in Nat /\ DOMAIN final = 1..Len(final)
      /\ Len(todo) \in Nat /\ DOMAIN todo = 1..Len(todo)
      /\ Len(qs) \in Nat /\ DOMAIN qs = 1..Len(qs)
      /\ Len(final) + Len(todo) = Len(qs)
      /\ \A i \in DOMAIN final : final[i][1] = qs[i]
      /\ \A i \in DOMAIN todo : todo[i] = qs[Len(final) + i]
  BY LenProperties DEF Advanced
<1>2. /\ Len(todo) > 0 /\ Head(todo) = todo[1] /\ Head(todo) \in Notes
      /\ Tail(todo) \in Seq(Notes) /\ Len(Tail(todo)) = Len(todo) - 1
      /\ \A i \in 1..Len(todo) - 1 : Tail(todo)[i] = todo[i + 1]
  BY <1>1
<1>3. PICK n \in Nat, m \in Nat : n = Len(final) /\ m = Len(todo)
  BY <1>1
<1>4. 1 \in DOMAIN todo /\ n + 1 \in DOMAIN qs /\ Head(todo) = qs[n + 1]
  <2>1. 1 \in 1..m /\ n + 1 \in 1..(n + m)
    BY <1>2, <1>3
  <2> QED
    BY <1>1, <1>2, <1>3, <2>1
<1>5. ASSUME NEW x \in ScoredIn(final), x[1] = Head(todo).ticket_name
      PROVE  FALSE
  <2>1. PICK i \in DOMAIN final : x[1] = final[i][1].ticket_name
    BY DEF ScoredIn, PairsOf
  <2>2. i \in DOMAIN qs /\ i # n + 1 /\ qs[i].ticket_name = qs[n + 1].ticket_name
    <3>1. i \in 1..n
      BY <1>1, <1>3
    <3>2. i \in 1..(n + m) /\ i # n + 1
      BY <3>1
    <3> QED
      BY <1>1, <1>3, <1>4, <1>5, <2>1, <3>2
  <2> QED
    BY <1>4, <2>2
<1>6. PICK new : new = <<Head(todo), f>>
  OBVIOUS
<1>7. new \in Notes \X Rankings /\ new[1] = Head(todo)
  BY <1>2, <1>6
<1>8. PICK more : more = Append(final, new)
  OBVIOUS
<1>9. /\ more \in Seq(Notes \X Rankings) /\ Len(more) = n + 1
      /\ DOMAIN more = DOMAIN final \cup {n + 1}
      /\ \A i \in DOMAIN final : more[i] = final[i]
      /\ more[n + 1] = new
  BY <1>1, <1>3, <1>7, <1>8, AppendGrows
<1>10. \A i \in DOMAIN more : more[i][1] = qs[i]
  BY <1>1, <1>4, <1>7, <1>9
<1>11. PICK rest : rest = Tail(todo)
  OBVIOUS
<1>12. rest \in Seq(Notes) /\ Len(rest) = m - 1 /\ DOMAIN rest = 1..(m - 1)
  BY <1>2, <1>3, <1>11, LenProperties
<1>13. Len(more) + Len(rest) = Len(qs)
  <2>1. n + m = Len(qs)
    BY <1>1, <1>3
  <2> QED
    BY <1>9, <1>12, <2>1
<1>14. ASSUME NEW i \in DOMAIN rest
       PROVE  rest[i] = qs[Len(more) + i]
  <2>1. i \in 1..(m - 1) /\ i + 1 \in 1..m /\ i \in Nat
    BY <1>12
  <2>2. rest[i] = todo[i + 1]
    BY <1>2, <1>3, <1>11, <2>1
  <2>3. todo[i + 1] = qs[n + (i + 1)]
    BY <1>1, <1>3, <2>1
  <2>4. n + (i + 1) = (n + 1) + i
    BY <2>1
  <2> QED
    BY <1>9, <2>2, <2>3, <2>4
<1>15. Advanced(qs, more, rest)
  BY <1>9, <1>10, <1>12, <1>13, <1>14 DEF Advanced
<1> QED
  BY <1>4, <1>5, <1>6, <1>8, <1>11, <1>15 DEF NotYet

-----------------------------------------------------------------------------
(* A tool that has read rows works on: what it has counted so far is what   *)
(* it has scored so far.                                                    *)
Fields == {"pc", "name", "todo", "final", "qrels", "near_miss", "hits", "totals",
           "labeled", "threshold"}

Working(t, held, rows) ==
  /\ DOMAIN t = Fields /\ t.name \in Tools
  /\ t.qrels = Qrels(rows) /\ t.near_miss = NearMiss(rows)
  /\ Advanced(Queries(rows), t.final, t.todo)
  /\ IsFiniteSet(ScoredIn(t.final))
  /\ t.name = "calibrate" => LabelsHold(held, t.labeled, ScoredIn(t.final))
  /\ t.name = "evaluate" => /\ LeakCount(held, t.hits, ScoredIn(t.final))
                            /\ TotalCount(NearMiss(rows), t.totals, t.final)

(* The tool t, having come to the scores f of its next query, is new.       *)
Answered(t, new, f) ==
  LET query == Head(t.todo)
      q == query.ticket_name
  IN /\ DOMAIN new = Fields /\ new.name = t.name
     /\ new.qrels = t.qrels /\ new.near_miss = t.near_miss
     /\ new.final = Append(t.final, <<query, f>>) /\ new.todo = Tail(t.todo)
     /\ t.name = "calibrate" => new.labeled = ListedOn(t.labeled, f, t.qrels[q])
     /\ t.name = "evaluate" =>
          Counted(t.near_miss, q, query.cluster, f, t.hits, t.totals, new.hits, new.totals)

LEMMA WorksOn ==
  ASSUME NEW held, NEW rows, NEW r, WrittenBy(held, rows, r),
         NEW t, Working(t, held, rows), t.todo # <<>>,
         NEW f \in Rankings, DOMAIN f \subseteq DOMAIN held, IsFiniteSet(DOMAIN f),
         NEW new, Answered(t, new, f)
  PROVE  Working(new, held, rows)
<1>1. PICK query, q, S, all :
        /\ query = Head(t.todo) /\ q = query.ticket_name
        /\ S = ScoredIn(t.final) /\ all = WithPairs(S, q, DOMAIN f, f)
  OBVIOUS
<1>2. /\ Queries(rows) \in Seq(Notes)
      /\ \A i, j \in DOMAIN Queries(rows) :
           Queries(rows)[i].ticket_name = Queries(rows)[j].ticket_name => i = j
  BY QueriesHold
<1>3. /\ \E i \in DOMAIN Queries(rows) : query = Queries(rows)[i]
      /\ NotYet(S, q)
      /\ Advanced(Queries(rows), new.final, new.todo)
  BY <1>1, <1>2, NextQuery DEF Working, Answered
<1>4. q \in Names(rows)
  BY <1>1, <1>3 DEF Names, ToSet
<1>5. q \in DOMAIN held /\ held[q].run = r /\ query.cluster = TextIn(held, q).cluster
  <2>1. PICK k \in DOMAIN rows : query = rows[k]
    BY <1>2, <1>3, QueriesHold
  <2> QED
    BY <1>1, <2>1, RowsHold
<1>6. PICK x : /\ x \in Notes \X Rankings /\ x[1] = query /\ x[2] = f
               /\ t.final \in Seq(Notes \X Rankings)
               /\ new.final = Append(t.final, x) /\ ScoredIn(new.final) = all
  <2>1. t.final \in Seq(Notes \X Rankings) /\ query \in Notes
    BY <1>1, <1>2, <1>3, ElementOfSeq, LenProperties DEF Working, Advanced
  <2>2. PICK x : x = <<query, f>>
    OBVIOUS
  <2>3. x \in Notes \X Rankings /\ x[1] = query /\ x[2] = f
    BY <2>1, <2>2
  <2>4. new.final = Append(t.final, x)
    BY <1>1, <2>2 DEF Answered
  <2>5. ScoredIn(new.final) = all
    BY <1>1, <2>1, <2>3, <2>4, ScoredAppend
  <2> QED
    BY <2>1, <2>3, <2>4, <2>5
<1>7. IsFiniteSet(S) /\ IsFiniteSet(all)
  BY <1>1, <1>3, PairsCount DEF Working
<1>8. ASSUME t.name = "calibrate"
      PROVE  LabelsHold(held, new.labeled, all)
  <2>1. LabelsHold(held, t.labeled, S)
    BY <1>1, <1>8 DEF Working
  <2>2. \A u \in DOMAIN f : u \in t.qrels[q] <=> SiblingsIn(held, q, u)
    BY <1>4, QrelsHold DEF Working
  <2>3. new.labeled = ListedOn(t.labeled, f, t.qrels[q])
    BY <1>1, <1>8 DEF Answered
  <2>4. DOMAIN f \subseteq Int
    <3>1. DOMAIN held \subseteq Int
      BY LenProperties DEF WrittenBy
    <3> QED
      BY <3>1
  <2>5. f \in [DOMAIN f -> Score]
    BY DEF Rankings
  <2>6. LabelsHold(held, ListedOn(t.labeled, f, t.qrels[q]), WithPairs(S, q, DOMAIN f, f))
    BY <1>3, <2>1, <2>2, <2>4, <2>5, LabelStep
  <2> QED
    BY <1>1, <2>3, <2>6
<1>9. ASSUME t.name = "evaluate"
      PROVE  /\ LeakCount(held, new.hits, all)
             /\ TotalCount(NearMiss(rows), new.totals, new.final)
  <2>1. LeakCount(held, t.hits, S) /\ TotalCount(NearMiss(rows), t.totals, t.final)
    BY <1>1, <1>9 DEF Working
  <2>2. Counted(NearMiss(rows), q, TextIn(held, q).cluster, f, t.hits, t.totals,
                new.hits, new.totals)
    BY <1>1, <1>5, <1>9 DEF Answered, Working
  <2>3. LeakCount(held, new.hits, all)
    BY <1>1, <1>3, <1>5, <1>7, <2>1, <2>2, LeakStep
  <2>4. Counted(NearMiss(rows), q, x[1].cluster, f, t.hits, t.totals, new.hits, new.totals)
    BY <1>5, <1>6, <2>2
  <2>5. TotalCount(NearMiss(rows), new.totals, new.final)
    BY <1>6, <2>1, <2>4, TotalStep
  <2> QED
    BY <2>3, <2>5
<1> QED
  BY <1>3, <1>6, <1>7, <1>8, <1>9 DEF Working, Answered

(* A tool begins with nothing scored and nothing counted.                   *)
LEMMA BeginsToWork ==
  ASSUME NEW held, NEW rows, NEW r, WrittenBy(held, rows, r), NEW name \in Tools
  PROVE  Working([pc |-> "query", name |-> name, todo |-> Queries(rows), final |-> <<>>,
                  qrels |-> Qrels(rows), near_miss |-> NearMiss(rows),
                  hits |-> EmptyBag, totals |-> EmptyBag, labeled |-> <<>>,
                  threshold |-> None], held, rows)
<1>1. Queries(rows) \in Seq(Notes) /\ Len(Queries(rows)) \in Nat
  BY QueriesHold, LenProperties
<1>2. ScoredIn(<<>>) = {}
  BY DEF ScoredIn
<1>3. \A x : Copies(x, EmptyBag) = 0
  BY DEF Copies, EmptyBag, SetToBag
<1>4. Cardinality({}) = 0 /\ IsFiniteSet({})
  BY FS_EmptySet
<1>5. LabelsHold(held, <<>>, {})
  <2>1. PICK g : g = [i \in {} |-> i]
    OBVIOUS
  <2>2. DOMAIN <<>> = {}
    OBVIOUS
  <2>3. g \in Bijection({}, {})
    BY <2>1 DEF Bijection, Injection, Surjection, IsInjective
  <2>4. Lists(g, held, <<>>, {})
    BY <2>2, <2>3 DEF Lists
  <2> QED
    BY <2>4 DEF LabelsHold
<1>6. LeakCount(held, EmptyBag, {}) /\ TotalCount(NearMiss(rows), EmptyBag, <<>>)
  <2>1. \A c : LeaksIn(held, {}, c) = {} /\ AskedIn(<<>>, c) = {}
    BY DEF LeaksIn, AskedIn
  <2> QED
    BY <1>3, <1>4, <2>1 DEF LeakCount, TotalCount
<1>7. Advanced(Queries(rows), <<>>, Queries(rows))
  <2>1. Len(<<>>) + Len(Queries(rows)) = Len(Queries(rows))
    BY <1>1
  <2>2. DOMAIN Queries(rows) \subseteq Nat
    BY <1>1, LenProperties
  <2>3. \A i \in DOMAIN Queries(rows) : Queries(rows)[i] = Queries(rows)[Len(<<>>) + i]
    BY <2>2
  <2> QED
    BY <1>1, <2>1, <2>3 DEF Advanced
<1> QED
  BY <1>2, <1>4, <1>5, <1>6, <1>7 DEF Working, Fields

-----------------------------------------------------------------------------
IndexInv == index \subseteq {n \in DOMAIN tickets : Fixture[tickets[n].place].group # "query"}

(* A threshold that is recommended is one the sweep may come to.            *)
Recommends(t) ==
  t.name = "calibrate" =>
    Count(t.labeled, TRUE, 0) > 0 /\ t.threshold \in BestThresholds(t.labeled)

ToolInv ==
  /\ tool.pc \in {"idle", "query", "done", "failed"} /\ tool.name \in Tools \cup {None}
  /\ tool.pc \in {"query", "done"} =>
       /\ DOMAIN tool = Fields /\ tool.name \in Tools
       /\ origin = "here" => Readable /\ Working(tool, tickets, manifest)
  /\ tool.pc = "done" => tool.todo = <<>> /\ Recommends(tool)

EvaluationInv == SeedInv /\ IndexInv /\ ToolInv

LEMMA SomeRunWrote ==
  ASSUME SeedInv, Readable, origin = "here"
  PROVE  \E r \in Nat : WrittenBy(tickets, manifest, r)
<1>1. PICK r \in DOMAIN tickets : Accounts(tickets, manifest, r)
  BY DEF SeedInv, ManifestInv, Written
<1>2. WrittenBy(tickets, manifest, r) /\ r \in Nat
  BY <1>1 DEF SeedInv, TicketsInv, ManifestInv, Written, WrittenBy, Accounts
<1> QED
  BY <1>2

LEMMA EvaluationInitial == Init => EvaluationInv
<1> SUFFICES ASSUME Init PROVE EvaluationInv
  OBVIOUS
<1>1. index = {} /\ tool = [pc |-> "idle", name |-> None]
  BY DEF Init
<1>2. IndexInv /\ ToolInv
  BY <1>1 DEF IndexInv, ToolInv
<1> QED
  BY <1>2, SeedInitial DEF EvaluationInv

LEMMA SeedAloneKeeps ==
  ASSUME EvaluationInv, SeedAlone
  PROVE  EvaluationInv'
<1>1. /\ tool.pc = "idle" /\ SeedStep /\ index' = index /\ tool' = tool /\ SeedInv
      /\ index \subseteq {n \in DOMAIN tickets : Fixture[tickets[n].place].group # "query"}
  BY DEF SeedAlone, EvaluationInv, IndexInv
<1>2. SeedInv'
  BY <1>1, SeedStepKeeps
<1>3. \A n \in DOMAIN tickets : n \in DOMAIN tickets' /\ tickets'[n].place = tickets[n].place
  BY <1>1, TicketsStay
<1>4. IndexInv'
  BY <1>1, <1>3 DEF IndexInv
<1>5. ToolInv'
  BY <1>1 DEF EvaluationInv, ToolInv
<1> QED
  BY <1>2, <1>4, <1>5 DEF EvaluationInv

LEMMA IngestFullKeeps ==
  ASSUME EvaluationInv, IngestFull
  PROVE  EvaluationInv'
<1>1. /\ index' = {n \in DOMAIN tickets : tickets[n].resolved}
      /\ tickets' = tickets /\ manifest' = manifest /\ origin' = origin /\ seed' = seed /\ tool' = tool
  BY DEF IngestFull, seedVars, fileVars
<1>2. SeedInv'
  BY <1>1, SeedUnchanged DEF EvaluationInv, seedVars, fileVars
<1>3. IndexInv'
  BY <1>1 DEF IndexInv, EvaluationInv, SeedInv, TicketsInv, Placed
<1>4. ToolInv'
  BY <1>1 DEF ToolInv, EvaluationInv, Readable
<1> QED
  BY <1>2, <1>3, <1>4 DEF EvaluationInv

LEMMA BeginToolKeeps ==
  ASSUME EvaluationInv, NEW name \in Tools, BeginTool(name)
  PROVE  EvaluationInv'
<1>1. /\ Readable
      /\ tool' = [pc |-> "query", name |-> name, todo |-> Queries(manifest), final |-> <<>>,
                  qrels |-> Qrels(manifest), near_miss |-> NearMiss(manifest),
                  hits |-> EmptyBag, totals |-> EmptyBag, labeled |-> <<>>,
                  threshold |-> None]
      /\ tickets' = tickets /\ manifest' = manifest /\ origin' = origin /\ seed' = seed /\ index' = index
  BY DEF BeginTool, seedVars, fileVars
<1>2. SeedInv' /\ IndexInv'
  BY <1>1, SeedUnchanged DEF EvaluationInv, seedVars, fileVars, IndexInv
<1>3. PICK new : new = [pc |-> "query", name |-> name, todo |-> Queries(manifest),
                        final |-> <<>>,
                        qrels |-> Qrels(manifest), near_miss |-> NearMiss(manifest),
                        hits |-> EmptyBag, totals |-> EmptyBag, labeled |-> <<>>,
                        threshold |-> None]
  OBVIOUS
<1>4. ASSUME origin = "here"
      PROVE  Working(new, tickets, manifest)
  <2>1. PICK r \in Nat : WrittenBy(tickets, manifest, r)
    BY <1>1, <1>4, SomeRunWrote DEF EvaluationInv
  <2> QED
    BY <1>3, <2>1, BeginsToWork
<1>5. tool' = new /\ new.pc = "query" /\ new.name = name /\ DOMAIN new = Fields
  BY <1>1, <1>3 DEF Fields
<1>6. ToolInv'
  BY <1>1, <1>4, <1>5 DEF ToolInv, Readable
<1> QED
  BY <1>2, <1>6 DEF EvaluationInv

LEMMA QueryStepKeeps ==
  ASSUME EvaluationInv, QueryStep
  PROVE  EvaluationInv'
<1>1. /\ tool.pc = "query" /\ tool.todo # <<>>
      /\ tickets' = tickets /\ manifest' = manifest /\ origin' = origin /\ seed' = seed /\ index' = index
  BY DEF QueryStep, seedVars, fileVars
<1>2. /\ SeedInv' /\ IndexInv' /\ tickets \in Seq(Row) /\ Len(tickets) <= MaxTickets
      /\ index \subseteq DOMAIN tickets /\ DOMAIN tool = Fields /\ tool.name \in Tools
      /\ origin = "here" => Readable /\ Working(tool, tickets, manifest)
  BY <1>1, SeedUnchanged DEF EvaluationInv, seedVars, fileVars, IndexInv, SeedInv, TicketsInv, ToolInv
<1>3. SeedInv
  BY DEF EvaluationInv
<1>4. PICK query, q : query = Head(tool.todo) /\ q = query.ticket_name
  OBVIOUS
<1>5. PICK scores \in [{tickets[t].place : t \in index \ {q}} -> Score] :
        tool' = [(IF tool.name = "evaluate" THEN Leakage(query, Ranked(q, scores))
                                            ELSE Labels(query, Ranked(q, scores)))
                  EXCEPT !.todo = Tail(@),
                         !.final = Append(@, <<query, Ranked(q, scores)>>)]
  BY <1>4 DEF QueryStep
<1>6. PICK f : f = Ranked(q, scores)
  OBVIOUS
<1>7. f \in [index \ {q} -> Score]
  BY <1>6 DEF Ranked
<1>8. /\ DOMAIN f \subseteq DOMAIN tickets /\ IsFiniteSet(DOMAIN f) /\ f \in Rankings
  <2>1. DOMAIN tickets = 1..Len(tickets) /\ Len(tickets) \in Nat /\ MaxTickets \in Nat
    BY <1>2, LenProperties, PickedOfFixture
  <2>2. DOMAIN f \subseteq DOMAIN tickets /\ DOMAIN f = index \ {q}
    BY <1>2, <1>7
  <2>3. DOMAIN f \subseteq 1..MaxTickets
    BY <1>2, <2>1, <2>2
  <2>4. IsFiniteSet(DOMAIN f)
    <3>1. IsFiniteSet(1..MaxTickets)
      BY <2>1, FS_Interval
    <3> QED
      BY <2>3, <3>1, FS_Subset
  <2>5. f \in [DOMAIN f -> Score]
    BY <1>7, <2>2
  <2> QED
    BY <2>2, <2>3, <2>4, <2>5 DEF Rankings
<1>9. PICK new : new = tool'
  OBVIOUS
<1>10. DOMAIN tool = Fields /\ tool.name \in Tools
  BY <1>2
<1>11. Answered(tool, new, f) /\ new.pc = tool.pc
  <2>1. CASE tool.name = "calibrate"
    <3>1. new = [[tool EXCEPT !.labeled = ListedOn(tool.labeled, f, tool.qrels[q])]
                  EXCEPT !.todo = Tail(@), !.final = Append(@, <<query, f>>)]
      BY <1>4, <1>5, <1>6, <1>9, <1>10, <2>1 DEF Labels, ListedOn, Fields
    <3>2. PICK list, rest, more :
            /\ list = ListedOn(tool.labeled, f, tool.qrels[q])
            /\ rest = Tail(tool.todo) /\ more = Append(tool.final, <<query, f>>)
      OBVIOUS
    <3>3. new = [tool EXCEPT !.labeled = list, !.todo = rest, !.final = more]
      BY <1>10, <3>1, <3>2 DEF Fields
    <3>4. /\ DOMAIN new = Fields /\ new.name = tool.name /\ new.pc = tool.pc
          /\ new.qrels = tool.qrels /\ new.near_miss = tool.near_miss
          /\ new.final = more /\ new.todo = rest /\ new.labeled = list
      BY <1>10, <3>3 DEF Fields
    <3> QED
      BY <1>4, <2>1, <3>2, <3>4 DEF Answered
  <2>2. CASE tool.name = "evaluate"
    <3>1. PICK c, done, rest, more :
            /\ c = query.cluster /\ done = Leakage(query, f)
            /\ rest = Tail(tool.todo) /\ more = Append(tool.final, <<query, f>>)
      OBVIOUS
    <3>2. /\ DOMAIN done = Fields /\ done.name = tool.name /\ done.pc = tool.pc
          /\ done.qrels = tool.qrels /\ done.near_miss = tool.near_miss
          /\ done.final = tool.final /\ done.todo = tool.todo
          /\ Counted(tool.near_miss, q, c, f, tool.hits, tool.totals, done.hits, done.totals)
      <4>1. PICK hits, totals :
              /\ totals = tool.totals (+) SetToBag({c})
              /\ hits = IF Cleared(q, tool.near_miss[c], f)
                        THEN tool.hits (+) SetToBag({c}) ELSE tool.hits
        OBVIOUS
      <4>2. CASE c \notin DOMAIN tool.near_miss
        <5>1. done = tool
          BY <3>1, <4>2 DEF Leakage
        <5> QED
          BY <1>10, <4>2, <5>1 DEF Counted
      <4>3. CASE c \in DOMAIN tool.near_miss
        <5>1. done = [tool EXCEPT !.totals = totals, !.hits = hits]
          BY <1>4, <3>1, <4>1, <4>3 DEF Leakage
        <5>2. /\ DOMAIN done = Fields /\ done.name = tool.name /\ done.pc = tool.pc
              /\ done.qrels = tool.qrels /\ done.near_miss = tool.near_miss
              /\ done.final = tool.final /\ done.todo = tool.todo
              /\ done.hits = hits /\ done.totals = totals
          BY <1>10, <5>1 DEF Fields
        <5> QED
          BY <4>1, <4>3, <5>2 DEF Counted
      <4> QED
        BY <4>2, <4>3
    <3>3. new = [done EXCEPT !.todo = Tail(@), !.final = Append(@, <<query, f>>)]
      BY <1>5, <1>6, <1>9, <2>2, <3>1
    <3>4. new = [done EXCEPT !.todo = rest, !.final = more]
      BY <3>1, <3>2, <3>3 DEF Fields
    <3>5. /\ DOMAIN new = Fields /\ new.name = done.name /\ new.pc = done.pc
          /\ new.qrels = done.qrels /\ new.near_miss = done.near_miss
          /\ new.final = more /\ new.todo = rest
          /\ new.hits = done.hits /\ new.totals = done.totals
      BY <3>2, <3>4 DEF Fields
    <3> QED
      BY <1>4, <2>2, <3>1, <3>2, <3>5 DEF Answered
  <2> QED
    BY <1>10, <2>1, <2>2 DEF Tools
<1>12. ASSUME origin = "here"
       PROVE  Working(new, tickets, manifest)
  <2>1. PICK r \in Nat : WrittenBy(tickets, manifest, r)
    BY <1>2, <1>3, <1>12, SomeRunWrote
  <2> QED
    BY <1>1, <1>2, <1>8, <1>11, <1>12, <2>1, WorksOn
<1>13. DOMAIN new = Fields /\ new.name = tool.name
  BY <1>11 DEF Answered
<1>14. ToolInv'
  BY <1>1, <1>2, <1>9, <1>11, <1>12, <1>13 DEF ToolInv, Readable
<1> QED
  BY <1>2, <1>14 DEF EvaluationInv

LEMMA ReportKeeps ==
  ASSUME EvaluationInv, Report
  PROVE  EvaluationInv'
<1>1. /\ tool.pc = "query" /\ tool.todo = <<>> /\ tickets' = tickets /\ manifest' = manifest /\ origin' = origin
      /\ seed' = seed /\ index' = index
  BY DEF Report, seedVars, fileVars
<1>2. /\ SeedInv' /\ IndexInv' /\ DOMAIN tool = Fields /\ tool.name \in Tools
      /\ origin = "here" => Readable /\ Working(tool, tickets, manifest)
  BY <1>1, SeedUnchanged DEF EvaluationInv, seedVars, fileVars, IndexInv, ToolInv
<1>3. DOMAIN tool = Fields /\ tool.name \in Tools
  BY <1>2
<1>4. CASE tool' = Failed
  BY <1>2, <1>3, <1>4 DEF EvaluationInv, ToolInv, Failed
<1>5. ASSUME NEW new, tool' = new, DOMAIN new = Fields, new.pc = "done", Recommends(new),
             \A x \in Fields \ {"pc", "threshold"} : new[x] = tool[x]
      PROVE  EvaluationInv'
  <2>1. /\ new.name = tool.name /\ new.qrels = tool.qrels /\ new.near_miss = tool.near_miss
        /\ new.final = tool.final /\ new.todo = tool.todo /\ new.hits = tool.hits
        /\ new.totals = tool.totals /\ new.labeled = tool.labeled
    BY <1>5 DEF Fields
  <2>2. origin = "here" => Working(new, tickets, manifest)
    BY <1>2, <1>5, <2>1 DEF Working
  <2>3. ToolInv'
    BY <1>1, <1>2, <1>3, <1>5, <2>1, <2>2 DEF ToolInv, Readable
  <2> QED
    BY <1>2, <2>3 DEF EvaluationInv
<1>6. ASSUME NEW n \in BestThresholds(tool.labeled), Count(tool.labeled, TRUE, 0) > 0,
             tool' = [tool EXCEPT !.pc = "done", !.threshold = n]
      PROVE  EvaluationInv'
  <2>1. PICK new : new = [tool EXCEPT !.pc = "done", !.threshold = n]
    OBVIOUS
  <2>2. DOMAIN new = Fields /\ new.pc = "done" /\ new.threshold = n
    BY <1>3, <2>1 DEF Fields
  <2>3. \A x \in Fields \ {"pc", "threshold"} : new[x] = tool[x]
    BY <1>3, <2>1
  <2>4. new.labeled = tool.labeled
    BY <2>3 DEF Fields
  <2>5. Recommends(new)
    BY <1>6, <2>2, <2>4 DEF Recommends
  <2> QED
    BY <1>5, <1>6, <2>1, <2>2, <2>3, <2>5
<1>7. ASSUME tool.name # "calibrate", tool' = [tool EXCEPT !.pc = "done"]
      PROVE  EvaluationInv'
  <2>1. PICK new : new = [tool EXCEPT !.pc = "done"]
    OBVIOUS
  <2>2. DOMAIN new = Fields /\ new.pc = "done" /\ new.name = tool.name
    BY <1>3, <2>1 DEF Fields
  <2>3. \A x \in Fields \ {"pc", "threshold"} : new[x] = tool[x]
    BY <1>3, <2>1
  <2> QED
    BY <1>5, <1>7, <2>1, <2>2, <2>3 DEF Recommends
<1>8. CASE tool.name = "calibrate"
  <2>1. \/ tool' = Failed
        \/ /\ \A yes \in BOOLEAN : Count(tool.labeled, yes, 0) > 0
           /\ \E n \in BestThresholds(tool.labeled) :
                tool' = [tool EXCEPT !.pc = "done", !.threshold = n]
    BY <1>8 DEF Report
  <2> QED
    BY <1>4, <1>6, <2>1
<1>9. CASE tool.name # "calibrate"
  BY <1>7, <1>9 DEF Report
<1> QED
  BY <1>8, <1>9

LEMMA ToolFailsKeeps ==
  ASSUME EvaluationInv, ToolFails
  PROVE  EvaluationInv'
<1>1. /\ tool' = Failed /\ tickets' = tickets /\ manifest' = manifest /\ origin' = origin
      /\ seed' = seed /\ index' = index
  BY DEF ToolFails, seedVars, fileVars
<1>2. SeedInv' /\ IndexInv'
  BY <1>1, SeedUnchanged DEF EvaluationInv, seedVars, fileVars, IndexInv
<1>3. ToolInv'
  BY <1>1 DEF EvaluationInv, ToolInv, Failed
<1> QED
  BY <1>2, <1>3 DEF EvaluationInv

LEMMA EvaluationUnchanged ==
  ASSUME EvaluationInv, UNCHANGED vars
  PROVE  EvaluationInv'
<1>1. /\ tickets' = tickets /\ manifest' = manifest /\ origin' = origin /\ seed' = seed
      /\ index' = index /\ tool' = tool
  BY DEF vars, seedVars, fileVars
<1>2. SeedInv' /\ IndexInv'
  BY <1>1, SeedUnchanged DEF EvaluationInv, seedVars, fileVars, IndexInv
<1>3. ToolInv'
  BY <1>1 DEF EvaluationInv, ToolInv, Readable
<1> QED
  BY <1>2, <1>3 DEF EvaluationInv

LEMMA EvaluationAlways == Spec => []EvaluationInv
<1>1. EvaluationInv /\ [Next]_vars => EvaluationInv'
  BY SeedAloneKeeps, IngestFullKeeps, BeginToolKeeps, QueryStepKeeps, ReportKeeps,
     ToolFailsKeeps, EvaluationUnchanged DEF Next
<1> QED
  BY <1>1, EvaluationInitial, PTL DEF Spec

(* Whatever order the runs of the scripts and the ingestions come in, what  *)
(* is in the Helpdesk and in the index has its type, and nothing without a  *)
(* resolution is indexed.                                                   *)
THEOREM EvaluationTypeCorrect == Spec => []TypeOK
<1>1. EvaluationInv => TypeOK
  BY DEF EvaluationInv, SeedInv, TicketsInv, IndexInv, ToolInv, TypeOK
<1> QED
  BY <1>1, EvaluationAlways, PTL

(* calibrate_threshold.py counts every scored pair once and mislabels none  *)
(* but those with a ticket that another run left behind, whatever is in the *)
(* Helpdesk.                                                                *)
THEOREM OnlyLeftoversAreMislabeled == Spec => []OnlyLeftoversMislabeled
<1>1. EvaluationInv => OnlyLeftoversMislabeled
  <2> DEFINE same       == {y \in Scored : SameCause(y[1], y[2])}
             mislabeled == {y \in Scored : Leftover(y[1], y[2])}
  <2> SUFFICES ASSUME EvaluationInv, tool.pc = "done", tool.name = "calibrate",
                      origin = "here", NEW n \in Score
               PROVE  /\ Cardinality({i \in DOMAIN tool.labeled : tool.labeled[i] = <<n, TRUE>>}) =
                           Cardinality({x \in same \ mislabeled : x[3] = n})
                      /\ Cardinality({i \in DOMAIN tool.labeled : tool.labeled[i] = <<n, FALSE>>}) =
                           Cardinality({x \in (Scored \ same) \cup mislabeled : x[3] = n})
    BY DEF OnlyLeftoversMislabeled, Reported, Having, Listed
  <2>1. LabelsHold(tickets, tool.labeled, Scored)
    BY DEF EvaluationInv, ToolInv, Working, Scored, ScoredIn, PairsOf
  <2>2. \A q, t : SameCause(q, t) /\ ~ Leftover(q, t) <=> SiblingsIn(tickets, q, t)
    BY DEF SameCause, Leftover, SiblingsIn, TogetherIn, Text, TextIn
  <2>3. PICK S : S = Scored
    OBVIOUS
  <2>4. {x \in same \ mislabeled : x[3] = n} = Exactly(tickets, S, n, TRUE)
    BY <2>2, <2>3 DEF Exactly
  <2>5. {x \in (Scored \ same) \cup mislabeled : x[3] = n} = Exactly(tickets, S, n, FALSE)
    BY <2>2, <2>3 DEF Exactly
  <2>6. \A b \in BOOLEAN :
          Cardinality(At(tool.labeled, n, b)) = Cardinality(Exactly(tickets, Scored, n, b))
    BY <2>1, ListCounts
  <2> QED
    BY <2>3, <2>4, <2>5, <2>6 DEF At
<1> QED
  BY <1>1, EvaluationAlways, PTL

(* eval/run.py counts every member of a cluster that has a near-miss, and   *)
(* as hits those for which the near-miss passes the gate.                   *)
THEOREM LeakageAlwaysTrue == Spec => []LeakageIsTrue
<1>1. EvaluationInv => LeakageIsTrue
  <2> SUFFICES ASSUME EvaluationInv, tool.pc = "done", tool.name = "evaluate",
                      origin = "here", NEW c
               PROVE  /\ Copies(c, tool.totals) =
                           IF HasNearMiss(c) THEN Cardinality(Members(c)) ELSE 0
                      /\ Copies(c, tool.hits) =
                           Cardinality({x \in Leaking : Text(x[1]).cluster = c})
    BY DEF LeakageIsTrue, Reported
  <2>1. /\ SeedInv /\ Readable /\ Working(tool, tickets, manifest) /\ tool.todo = <<>>
    BY DEF EvaluationInv, ToolInv
  <2>2. LeakCount(tickets, tool.hits, Scored)
    BY <2>1 DEF Working, Scored, ScoredIn, PairsOf
  <2>3. {x \in Leaking : Text(x[1]).cluster = c} = LeaksIn(tickets, Scored, c)
    BY DEF Leaking, LeaksIn, Together, TogetherIn, Text, TextIn
  <2>4. PICK r \in Nat : WrittenBy(tickets, manifest, r)
    BY <2>1, SomeRunWrote
  <2>5. /\ TotalCount(NearMiss(manifest), tool.totals, tool.final)
        /\ Advanced(Queries(manifest), tool.final, <<>>)
    BY <2>1 DEF Working
  <2>6. /\ DOMAIN tool.final = DOMAIN Queries(manifest)
        /\ \A i \in DOMAIN tool.final : tool.final[i][1] = Queries(manifest)[i]
    <3>1. PICK final, qs : final = tool.final /\ qs = Queries(manifest)
      OBVIOUS
    <3>2. /\ final \in Seq(Notes \X Rankings) /\ qs \in Seq(Notes)
          /\ Len(final) + Len(<<>>) = Len(qs) /\ \A i \in DOMAIN final : final[i][1] = qs[i]
      BY <2>4, <2>5, <3>1, QueriesHold DEF Advanced
    <3>3. Len(final) = Len(qs)
      BY <3>2, LenProperties
    <3> QED
      BY <3>1, <3>2, <3>3, LenProperties
  <2>7. Cardinality(AskedIn(tool.final, c)) = Cardinality(Members(c))
    BY <2>4, <2>6, MembersAsked
  <2>8. c \in DOMAIN NearMiss(manifest) <=> HasNearMiss(c)
    BY <2>4, NearMissKnown
  <2> QED
    BY <2>2, <2>3, <2>5, <2>7, <2>8 DEF LeakCount, TotalCount
<1> QED
  BY <1>1, EvaluationAlways, PTL

(* No observed score has a greater F0.5 than a threshold that is            *)
(* recommended, whichever way the ties go.                                  *)
LEMMA CancelBoth ==
  ASSUME NEW a \in Nat, a > 0, NEW b \in Nat, b > 0, NEW u \in Nat, NEW v \in Nat,
         (5 * b * b) * (a * v) <= (5 * a * a) * (b * u)
  PROVE  (5 * b) * v <= (5 * a) * u
<1>1. PICK c \in Nat : c = a * b /\ c > 0
  <2>1. a * b \in Nat /\ a * b > 0
    OBVIOUS
  <2> QED
    BY <2>1
<1>2. PICK x \in Nat, y \in Nat : x = (5 * b) * v /\ y = (5 * a) * u
  OBVIOUS
<1>3. (5 * b * b) * (a * v) = x * c /\ (5 * a * a) * (b * u) = y * c
  BY <1>1, <1>2
<1>4. x * c <= y * c
  BY <1>3
<1> QED
  BY <1>1, <1>2, <1>4, TimesKeepsOrder

LEMMA NotLessIsBest ==
  ASSUME NEW all \in Nat, NEW tp \in Nat, NEW fp \in Nat, NEW fn \in Nat, tp + fn = all,
         NEW tp2 \in Nat, NEW fp2 \in Nat, NEW fn2 \in Nat, tp2 + fn2 = all,
         tp > 0, ~ Less(FBeta(tp, fp, fn), FBeta(tp2, fp2, fn2))
  PROVE  (5 * tp2) * (4 * (tp + fp) + all) <= (5 * tp) * (4 * (tp2 + fp2) + all)
<1>1. PICK u \in Nat, v \in Nat : u = 4 * (tp2 + fp2) + all /\ v = 4 * (tp + fp) + all
  OBVIOUS
<1>2. CASE tp2 = 0
  <2>1. (5 * tp2) * v = 0 /\ (5 * tp) * u \in Nat
    BY <1>2
  <2> QED
    BY <1>1, <2>1
<1>3. CASE tp2 > 0
  <2>1. FBeta(tp, fp, fn) = <<5 * tp * tp, tp * (tp + fn) + 4 * tp * (tp + fp)>>
    BY DEF FBeta
  <2>2. FBeta(tp2, fp2, fn2) = <<5 * tp2 * tp2, tp2 * (tp2 + fn2) + 4 * tp2 * (tp2 + fp2)>>
    BY <1>3 DEF FBeta
  <2>3. tp * (tp + fn) + 4 * tp * (tp + fp) = tp * v
    <3>1. tp * (tp + fn) = tp * all
      OBVIOUS
    <3>2. 4 * tp * (tp + fp) = tp * (4 * (tp + fp))
      OBVIOUS
    <3>3. tp * (4 * (tp + fp) + all) = tp * (4 * (tp + fp)) + tp * all
      OBVIOUS
    <3> QED
      BY <1>1, <3>1, <3>2, <3>3
  <2>4. tp2 * (tp2 + fn2) + 4 * tp2 * (tp2 + fp2) = tp2 * u
    <3>1. tp2 * (tp2 + fn2) = tp2 * all
      OBVIOUS
    <3>2. 4 * tp2 * (tp2 + fp2) = tp2 * (4 * (tp2 + fp2))
      OBVIOUS
    <3>3. tp2 * (4 * (tp2 + fp2) + all) = tp2 * (4 * (tp2 + fp2)) + tp2 * all
      OBVIOUS
    <3> QED
      BY <1>1, <3>1, <3>2, <3>3
  <2>5. ~ ((5 * tp * tp) * (tp2 * u) < (5 * tp2 * tp2) * (tp * v))
    BY <2>1, <2>2, <2>3, <2>4 DEF Less
  <2>6. (5 * tp * tp) * (tp2 * u) \in Nat /\ (5 * tp2 * tp2) * (tp * v) \in Nat
    OBVIOUS
  <2>7. (5 * tp2 * tp2) * (tp * v) <= (5 * tp * tp) * (tp2 * u)
    BY <2>5, <2>6
  <2> QED
    BY <1>1, <1>3, <2>7, CancelBoth
<1> QED
  BY <1>2, <1>3

AllFrom(S, n) == {x \in S : x[3] >= n}

LEMMA FromUpParts ==
  ASSUME NEW held, NEW S, IsFiniteSet(S), NEW n
  PROVE  Cardinality(AllFrom(S, n)) =
           Cardinality(FromUp(held, S, n, TRUE)) + Cardinality(FromUp(held, S, n, FALSE))
<1>1. PICK X, Y : X = FromUp(held, S, n, TRUE) /\ Y = FromUp(held, S, n, FALSE)
  OBVIOUS
<1>2. X \subseteq S /\ Y \subseteq S /\ X \cap Y = {} /\ AllFrom(S, n) = X \cup Y
  BY <1>1 DEF FromUp, AllFrom
<1>3. /\ IsFiniteSet(X) /\ Cardinality(X) \in Nat
      /\ IsFiniteSet(Y) /\ Cardinality(Y) \in Nat
  BY <1>2, FS_Subset, FS_CardinalityType
<1>4. Cardinality(X \cup Y) = Cardinality(X) + Cardinality(Y) - Cardinality(X \cap Y)
  BY <1>3, FS_Union
<1>5. Cardinality(X \cap Y) = 0
  BY <1>2, FS_EmptySet
<1>6. Cardinality(X \cup Y) = Cardinality(X) + Cardinality(Y)
  BY <1>3, <1>4, <1>5
<1> QED
  BY <1>1, <1>2, <1>6

LEMMA BestIsBest ==
  ASSUME NEW held, NEW labeled, NEW S, LabelsHold(held, labeled, S),
         Count(labeled, TRUE, 0) > 0, NEW n \in BestThresholds(labeled)
  PROVE  /\ Cardinality(FromUp(held, S, n, TRUE)) > 0
         /\ \A m \in Observed(labeled) :
              (5 * Cardinality(FromUp(held, S, m, TRUE)))
                * (4 * Cardinality(AllFrom(S, n)) + Cardinality(FromUp(held, S, 0, TRUE)))
              <= (5 * Cardinality(FromUp(held, S, n, TRUE)))
                * (4 * Cardinality(AllFrom(S, m)) + Cardinality(FromUp(held, S, 0, TRUE)))
<1> DEFINE T(k) == Count(labeled, TRUE, k)
           W(k) == Count(labeled, FALSE, k)
<1>1. labeled \in Seq(Score \X BOOLEAN) /\ IsFiniteSet(S)
  BY ListCounts DEF LabelsHold
<1>2. \A k : /\ Cardinality(FromUp(held, S, k, TRUE)) = T(k)
             /\ Cardinality(AllFrom(S, k)) = T(k) + W(k)
  <2> TAKE k
  <2>1. \A b \in BOOLEAN : Count(labeled, b, k) = Cardinality(FromUp(held, S, k, b))
    BY ListCounts
  <2>2. T(k) = Cardinality(FromUp(held, S, k, TRUE)) /\ W(k) = Cardinality(FromUp(held, S, k, FALSE))
    BY <2>1
  <2> QED
    BY <1>1, <2>2, FromUpParts
<1>3. \A k \in Observed(labeled) :
        /\ T(k) \in Nat /\ W(k) \in Nat /\ T(k) <= T(0)
        /\ T(k) = 0 => FOf(labeled, k)[1] = 0
        /\ T(k) > 0 => FOf(labeled, k)[1] > 0
        /\ FOf(labeled, k) \in Fractions
        /\ FOf(labeled, k) = FBeta(T(k), W(k), T(0) - T(k))
  <2> TAKE k \in Observed(labeled)
  <2>1. k \in Nat
    BY <1>1, ObservedType
  <2>2. FOf(labeled, k) = FBeta(T(k), W(k), T(0) - T(k))
    BY DEF FOf
  <2>3. \A b \in BOOLEAN : Count(labeled, b, k) \in Nat
    BY <1>1, <2>1, CountType
  <2> QED
    BY <1>1, <2>1, <2>2, <2>3, CountType
<1>4. T(0) \in Nat /\ T(0) > 0
  <2>1. \A b \in BOOLEAN : Count(labeled, b, 0) \in Nat
    BY <1>1, CountType
  <2> QED
    BY <2>1
<1>5. PICK i \in DOMAIN labeled : labeled[i][2] = TRUE
  <2>1. SUFFICES ASSUME \A i \in DOMAIN labeled : labeled[i][2] # TRUE
                 PROVE  FALSE
    OBVIOUS
  <2>2. PICK I : I = {i \in DOMAIN labeled : labeled[i][1] >= 0 /\ labeled[i][2] = TRUE}
    OBVIOUS
  <2>3. I = {}
    BY <2>1, <2>2
  <2>4. T(0) = Cardinality(I)
    BY <2>2 DEF Count
  <2>5. T(0) = 0
    BY <2>3, <2>4, FS_EmptySet
  <2> HIDE DEF T
  <2> QED
    BY <1>4, <2>5
<1>6. PICK s : s = labeled[i][1]
  OBVIOUS
<1>7. s \in Observed(labeled)
  BY <1>6 DEF Observed
<1>8. T(s) > 0
  <2>1. PICK I : I = {j \in DOMAIN labeled : labeled[j][1] >= s /\ labeled[j][2] = TRUE}
    OBVIOUS
  <2>2. s \in Nat
    BY <1>1, <1>7, ObservedType
  <2>3. i \in I
    BY <1>5, <1>6, <2>1, <2>2
  <2>4. T(s) = Cardinality(I)
    BY <2>1 DEF Count
  <2>5. IsFiniteSet(I)
    <3>1. IsFiniteSet(1..Len(labeled)) /\ DOMAIN labeled = 1..Len(labeled)
      BY <1>1, LenProperties, FS_Interval
    <3>2. I \subseteq DOMAIN labeled
      BY <2>1
    <3> QED
      BY <3>1, <3>2, FS_Subset
  <2>6. T(s) # 0
    BY <2>3, <2>4, <2>5, FS_EmptySet
  <2>7. T(s) \in Nat
    BY <1>3, <1>7
  <2> HIDE DEF T
  <2> QED
    BY <2>6, <2>7
<1>9. /\ n \in Observed(labeled)
      /\ \A m \in Observed(labeled) : ~ Less(FOf(labeled, n), FOf(labeled, m))
  BY <1>1, <1>7, SweepFindsBest
<1> HIDE DEF T, W
<1>10. T(n) > 0
  <2>1. SUFFICES ASSUME T(n) = 0
                 PROVE  FALSE
    BY <1>3, <1>9
  <2>2. PICK x, y : x = FOf(labeled, n) /\ y = FOf(labeled, s)
    OBVIOUS
  <2>3. x[1] = 0 /\ y[1] > 0 /\ x \in Fractions /\ y \in Fractions
    BY <1>3, <1>7, <1>8, <1>9, <2>1, <2>2
  <2>4. /\ x[2] \in Nat /\ x[2] > 0 /\ y[2] \in Nat /\ y[1] \in Nat
    BY <2>3 DEF Fractions
  <2>5. y[1] * x[2] > 0 /\ x[1] * y[2] = 0
    BY <2>3, <2>4
  <2>6. Less(x, y)
    BY <2>5 DEF Less
  <2> QED
    BY <1>7, <1>9, <2>2, <2>6
<1>11. ASSUME NEW m \in Observed(labeled)
       PROVE  (5 * T(m)) * (4 * (T(n) + W(n)) + T(0)) <= (5 * T(n)) * (4 * (T(m) + W(m)) + T(0))
  <2>1. PICK all \in Nat, tp \in Nat, fp \in Nat, tp2 \in Nat, fp2 \in Nat :
          /\ all = T(0) /\ tp = T(n) /\ fp = W(n) /\ tp2 = T(m) /\ fp2 = W(m)
          /\ tp <= all /\ tp2 <= all
    BY <1>3, <1>4, <1>9
  <2>2. PICK fn \in Nat, fn2 \in Nat : fn = all - tp /\ fn2 = all - tp2
    BY <2>1
  <2>3. tp + fn = all /\ tp2 + fn2 = all
    BY <2>1, <2>2
  <2>4. FOf(labeled, n) = FBeta(tp, fp, fn) /\ FOf(labeled, m) = FBeta(tp2, fp2, fn2)
    BY <1>3, <1>9, <2>1, <2>2
  <2>5. ~ Less(FBeta(tp, fp, fn), FBeta(tp2, fp2, fn2))
    BY <1>9, <2>4
  <2>6. (5 * tp2) * (4 * (tp + fp) + all) <= (5 * tp) * (4 * (tp2 + fp2) + all)
    BY <1>10, <2>1, <2>3, <2>5, NotLessIsBest
  <2> QED
    BY <2>1, <2>6
<1> QED
  BY <1>2, <1>10, <1>11

(* calibrate_threshold.py recommends no threshold that another observed     *)
(* score would beat as the gate, for the pairs as they are labeled.         *)
THEOREM ThresholdAlwaysBest == Spec => []ThresholdIsBest
<1>1. EvaluationInv => ThresholdIsBest
  <2> DEFINE siblings == {x \in Scored : Siblings(x[1], x[2])}
             From(X, n) == Cardinality({x \in X : x[3] >= n})
  <2> SUFFICES ASSUME EvaluationInv, tool.pc = "done", tool.name = "calibrate", origin = "here"
               PROVE  /\ From(siblings, tool.threshold) > 0
                      /\ \A n \in {x[3] : x \in Scored} :
                           (5 * From(siblings, n))
                             * (4 * From(Scored, tool.threshold) + Cardinality(siblings))
                           <= (5 * From(siblings, tool.threshold))
                             * (4 * From(Scored, n) + Cardinality(siblings))
    BY DEF ThresholdIsBest, Reported
  <2>1. LabelsHold(tickets, tool.labeled, Scored)
    BY DEF EvaluationInv, ToolInv, Working, Scored, ScoredIn, PairsOf
  <2>2. /\ Count(tool.labeled, TRUE, 0) > 0
        /\ tool.threshold \in BestThresholds(tool.labeled)
    BY DEF EvaluationInv, ToolInv, Recommends
  <2>3. \A q, t : Siblings(q, t) <=> SiblingsIn(tickets, q, t)
    BY DEF Siblings, SameCause, Leftover, SiblingsIn, TogetherIn, Text, TextIn
  <2>4. \A n : From(siblings, n) = Cardinality(FromUp(tickets, Scored, n, TRUE))
    <3> TAKE n
    <3>1. {x \in siblings : x[3] >= n} = FromUp(tickets, Scored, n, TRUE)
      BY <2>3 DEF FromUp
    <3> QED
      BY <3>1
  <2>5. \A n : From(Scored, n) = Cardinality(AllFrom(Scored, n))
    BY DEF AllFrom
  <2>6. /\ \A x \in Scored : x[3] \in Nat
        /\ Observed(tool.labeled) = {x[3] : x \in Scored}
    BY <2>1, ListCounts, ScoresAreNaturals
  <2>7. siblings = FromUp(tickets, Scored, 0, TRUE)
    BY <2>3, <2>6 DEF FromUp
  <2> HIDE DEF siblings, From
  <2>8. PICK S, labeled, best : S = Scored /\ labeled = tool.labeled /\ best = tool.threshold
    OBVIOUS
  <2>9. /\ Cardinality(FromUp(tickets, S, best, TRUE)) > 0
        /\ \A m \in Observed(labeled) :
             (5 * Cardinality(FromUp(tickets, S, m, TRUE)))
               * (4 * Cardinality(AllFrom(S, best)) + Cardinality(FromUp(tickets, S, 0, TRUE)))
             <= (5 * Cardinality(FromUp(tickets, S, best, TRUE)))
               * (4 * Cardinality(AllFrom(S, m)) + Cardinality(FromUp(tickets, S, 0, TRUE)))
    BY <2>1, <2>2, <2>8, BestIsBest
  <2> QED
    BY <2>4, <2>5, <2>6, <2>7, <2>8, <2>9
<1> QED
  BY <1>1, EvaluationAlways, PTL
=============================================================================
