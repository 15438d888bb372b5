-------------------------- MODULE FullIngestProofs --------------------------
(***************************************************************************)
(* Theorems of FullIngest, for every value of its constants, with their     *)
(* proofs.                                                                  *)
(***************************************************************************)
EXTENDS FullIngest, SelectionProofs

(* The names that have an entry still to index, and the steady Tickets the  *)
(* next page does not reach any more.                                       *)
Entered == {tickets[k].ticket : k \in DOMAIN tickets}
Passed  == {t \in steady : \E i \in DOMAIN listing : i <= start /\ listing[i] = t}

(* Who is lost: passed and not read or, once every page is read, neither    *)
(* indexed nor about to be.                                                 *)
Skipped == (IF phase = "list" THEN Passed ELSE NotIndexed) \ Entered

SteadyInv ==
  /\ \A t \in steady : helpdesk[t] \in Reusable
  /\ \A k \in DOMAIN tickets :
       tickets[k].ticket \in steady => tickets[k].rec = helpdesk[tickets[k].ticket]

SkipInv ==
  /\ phase = "idle" => tickets = <<>>
  /\ Cardinality(Skipped) <= trashed

(* The last entry of t that has a resolution is the one listed last.        *)
LastFor(t, k) ==
  /\ tickets[k] = [ticket |-> t, rec |-> latest[t]]
  /\ \A j \in DOMAIN tickets :
       j > k /\ tickets[j].ticket = t => ~ Eligible(tickets[j].rec)

LatestInv ==
  \A t \in Ticket :
    latest[t] # None =>
      \/ \E k \in DOMAIN tickets : LastFor(t, k)
      \/ phase # "list" /\ index[t] = latest[t] /\ t \notin Entered
-----------------------------------------------------------------------------
(* Where a ticket is listed after t was taken out: at most one further up.  *)
LEMMA WithoutKeepsOrder ==
  ASSUME NEW t \in Ticket, listing \in Seq(Ticket), IsInjective(listing)
  PROVE  /\ Without(t) \in Seq(Ticket) /\ IsInjective(Without(t))
         /\ ToSet(Without(t)) = ToSet(listing) \ {t}
         /\ \A k \in DOMAIN Without(t) :
              \E i \in DOMAIN listing : listing[i] = Without(t)[k] /\ i \in {k, k + 1}
<1> DEFINE I == {i \in DOMAIN listing : listing[i] # t}
           w == Without(t)
           n == Cardinality(I)
<1>1. Len(listing) \in Nat /\ DOMAIN listing = 1..Len(listing)
  BY LenProperties
<1>2. n \in Nat /\ w \in Seq(Ticket) /\ Len(w) = n /\ \E h : Selects(h, w, listing, I)
  <2>1. I \in SUBSET DOMAIN listing /\ w = Selected(listing, I)
    BY DEF Without
  <2> HIDE DEF I, w
  <2> QED
    BY <2>1, SelectedKeepsOrder
<1>3. PICK h : /\ h \in [1..n -> I]
               /\ \A k \in 1..n : w[k] = listing[h[k]]
               /\ \A i \in I : \E k \in 1..n : h[k] = i
               /\ \A j, k \in 1..n : j < k <=> h[j] < h[k]
               /\ \A k \in 1..n : k = 1 + Cardinality({i \in I : i < h[k]})
  BY <1>2 DEF Selects
<1>4. DOMAIN w = 1..n
  BY <1>2, LenProperties
<1> HIDE DEF w, n
<1>5. IsInjective(w)
  <2> SUFFICES ASSUME NEW a \in 1..n, NEW b \in 1..n, w[a] = w[b]
               PROVE  a = b
    BY <1>4 DEF IsInjective
  <2>1. h[a] \in DOMAIN listing /\ h[b] \in DOMAIN listing /\ listing[h[a]] = listing[h[b]]
    BY <1>3
  <2>2. h[a] = h[b]
    BY <2>1 DEF IsInjective
  <2> QED
    BY <2>1, <2>2, <1>1, <1>2, <1>3
<1>6. ToSet(w) = ToSet(listing) \ {t}
  BY <1>3, <1>4 DEF ToSet
<1>7. ASSUME NEW k \in 1..n
      PROVE  h[k] \in {k, k + 1}
  <2> DEFINE Before == {i \in I : i < h[k]}
             All    == 1..(h[k] - 1)
  <2>1. h[k] \in 1..Len(listing)
    BY <1>1, <1>3
  <2>2. IsFiniteSet(All) /\ Cardinality(All) = h[k] - 1
    BY <2>1, FS_Interval
  <2>3. Before \in SUBSET All
    BY <1>1, <2>1
  <2>4. IsFiniteSet(Before) /\ Cardinality(Before) <= h[k] - 1
    BY <2>2, <2>3, FS_Subset
  <2>5. PICK p : All \ Before \subseteq {p}
    <3>1. \A a, b \in All \ Before : a = b
      <4> TAKE a, b \in All \ Before
      <4>1. a \in DOMAIN listing /\ b \in DOMAIN listing /\ a < h[k] /\ b < h[k]
        BY <1>1, <2>1
      <4>2. listing[a] = t /\ listing[b] = t
        BY <4>1
      <4> QED
        BY <4>1, <4>2 DEF IsInjective
    <3> QED
      BY <3>1
  <2>6. IsFiniteSet(Before \cup {p})
        /\ Cardinality(Before \cup {p}) <= Cardinality(Before) + 1
    <3>1. Cardinality(Before) \in Nat
      BY <2>4, FS_CardinalityType
    <3> HIDE DEF Before
    <3>2. /\ IsFiniteSet(Before \cup {p})
          /\ Cardinality(Before \cup {p}) =
               IF p \in Before THEN Cardinality(Before) ELSE Cardinality(Before) + 1
      BY <2>4, FS_AddElement
    <3> QED
      BY <3>1, <3>2
  <2>7. Cardinality(All) <= Cardinality(Before \cup {p})
    BY <2>5, <2>6, FS_Subset
  <2>8. Cardinality(Before) \in Nat /\ k = 1 + Cardinality(Before)
    BY <1>3, <2>4, FS_CardinalityType
  <2> HIDE DEF Before, All
  <2>9. Cardinality(Before \cup {p}) \in Nat
    BY <2>6, FS_CardinalityType
  <2> QED
    BY <2>1, <2>2, <2>4, <2>6, <2>7, <2>8, <2>9
<1>8. \A k \in 1..n : \E i \in DOMAIN listing : listing[i] = w[k] /\ i \in {k, k + 1}
  BY <1>3, <1>7
<1> QED
  BY <1>2, <1>4, <1>5, <1>6, <1>8 DEF w

(* A ticket moved or added to the front leaves no other nearer to it.       *)
LEMMA ToFrontKeepsOrder ==
  ASSUME NEW t \in Ticket, listing \in Seq(Ticket), IsInjective(listing)
  PROVE  /\ ToFront(t) \in Seq(Ticket) /\ IsInjective(ToFront(t))
         /\ ToSet(ToFront(t)) = ToSet(listing) \cup {t}
         /\ \A k \in DOMAIN ToFront(t) :
              ToFront(t)[k] # t =>
                \E i \in DOMAIN listing : i <= k /\ listing[i] = ToFront(t)[k]
<1> DEFINE w == Without(t)
           f == ToFront(t)
<1>1. /\ w \in Seq(Ticket) /\ IsInjective(w) /\ ToSet(w) = ToSet(listing) \ {t}
      /\ \A k \in DOMAIN w : \E i \in DOMAIN listing : listing[i] = w[k] /\ i \in {k, k + 1}
  BY WithoutKeepsOrder
<1>2. f = <<t>> \o w
  BY DEF ToFront
<1> HIDE DEF w, f
<1>3. Len(w) \in Nat /\ DOMAIN w = 1..Len(w)
  BY <1>1, LenProperties
<1>4. /\ f \in Seq(Ticket) /\ DOMAIN f = 1..(Len(w) + 1) /\ f[1] = t
      /\ \A k \in 1..Len(w) : f[k + 1] = w[k]
  BY <1>1, <1>2, <1>3
<1>5. \A k \in DOMAIN f : k = 1 \/ (k - 1 \in DOMAIN w /\ f[k] = w[k - 1])
  BY <1>3, <1>4
<1>6. t \notin ToSet(w)
  BY <1>1
<1>7. IsInjective(f)
  <2> SUFFICES ASSUME NEW a \in DOMAIN f, NEW b \in DOMAIN f, f[a] = f[b]
               PROVE  a = b
    BY DEF IsInjective
  <2>1. a \in Int /\ b \in Int
    BY <1>3, <1>4
  <2>2. CASE a = 1 \/ b = 1
    BY <2>2, <1>4, <1>5, <1>6 DEF ToSet
  <2>3. CASE a # 1 /\ b # 1
    <3>1. a - 1 = b - 1
      BY <2>3, <1>1, <1>5 DEF IsInjective
    <3> QED
      BY <3>1, <2>1
  <2> QED
    BY <2>2, <2>3
<1>8. ToSet(f) = ToSet(listing) \cup {t}
  <2>1. t \in ToSet(f)
    BY <1>3, <1>4 DEF ToSet
  <2>2. ToSet(w) \subseteq ToSet(f)
    <3> SUFFICES ASSUME NEW k \in DOMAIN w
                 PROVE  w[k] \in ToSet(f)
      BY DEF ToSet
    <3>1. k + 1 \in DOMAIN f /\ f[k + 1] = w[k]
      BY <1>3, <1>4
    <3> QED
      BY <3>1 DEF ToSet
  <2>3. ToSet(f) \subseteq ToSet(w) \cup {t}
    BY <1>4, <1>5 DEF ToSet
  <2> QED
    BY <2>1, <2>2, <2>3, <1>1
<1>9. ASSUME NEW k \in DOMAIN f, f[k] # t
      PROVE  \E i \in DOMAIN listing : i <= k /\ listing[i] = f[k]
  <2>1. k - 1 \in DOMAIN w /\ f[k] = w[k - 1]
    BY <1>4, <1>5, <1>9
  <2>2. PICK i \in DOMAIN listing : listing[i] = w[k - 1] /\ i \in {k - 1, (k - 1) + 1}
    BY <1>1, <2>1
  <2> QED
    BY <1>3, <1>4, <2>1, <2>2
<1> QED
  BY <1>4, <1>7, <1>8, <1>9 DEF f

(* A page holds the records at the positions from the offset on, up to its  *)
(* size or the end of the list.                                             *)
LEMMA PageHolds ==
  ASSUME TypeOK
  PROVE  /\ Page(start) \in Seq(RawEntry) /\ Len(Page(start)) <= PageSize
         /\ \A k \in DOMAIN Page(start) :
              /\ start + k \in DOMAIN listing
              /\ Page(start)[k] = [ticket |-> listing[start + k],
                                   rec |-> helpdesk[listing[start + k]]]
         /\ \A i \in DOMAIN listing :
              i > start /\ (i <= start + PageSize \/ Len(Page(start)) < PageSize) =>
                i - start \in DOMAIN Page(start)
<1> DEFINE names == Slice(listing, start, start + PageSize)
           n == Len(names)
           p == Page(start)
<1>1. listing \in Seq(Ticket) /\ start \in Nat /\ start + PageSize \in Nat
      /\ start <= start + PageSize /\ (start + PageSize) - start = PageSize
  BY PageSizeType DEF TypeOK
<1>2. p = [i \in DOMAIN names |-> [ticket |-> names[i], rec |-> helpdesk[names[i]]]]
  BY DEF Page
<1> HIDE DEF names, p
<1>3. /\ names \in Seq(Ticket) /\ n <= PageSize
      /\ \A k \in DOMAIN names : start + k \in DOMAIN listing /\ names[k] = listing[start + k]
      /\ \A i \in DOMAIN listing :
           i > start /\ (i <= start + PageSize \/ n < PageSize) => i - start \in DOMAIN names
  BY <1>1, SliceHolds DEF names
<1>4. n \in Nat /\ DOMAIN names = 1..n
  BY <1>3, LenProperties
<1>5. \A k \in 1..n : names[k] \in Ticket /\ helpdesk[names[k]] \in Record
  BY <1>3, <1>4 DEF TypeOK, ToSet
<1>6. p \in [1..n -> RawEntry]
  BY <1>2, <1>4, <1>5 DEF RawEntry
<1>7. p \in Seq(RawEntry) /\ Len(p) = n /\ DOMAIN p = 1..n
  BY <1>4, <1>6, SeqOfFunction
<1>8. \A k \in 1..n : p[k] = [ticket |-> listing[start + k],
                              rec |-> helpdesk[listing[start + k]]]
  BY <1>2, <1>3, <1>4
<1> HIDE DEF n
<1> QED
  BY <1>3, <1>4, <1>7, <1>8 DEF p

(* The filter keeps the entries with a resolution, in their order.          *)
LEMMA KeepReusableHolds ==
  ASSUME NEW s \in Seq(RawEntry)
  PROVE  /\ KeepReusable(s) \in Seq(Entry)
         /\ \E h \in [DOMAIN KeepReusable(s) -> DOMAIN s] :
              /\ \A k \in DOMAIN KeepReusable(s) : KeepReusable(s)[k] = s[h[k]]
              /\ \A i \in DOMAIN s :
                   Eligible(s[i].rec) => \E k \in DOMAIN KeepReusable(s) : h[k] = i
              /\ \A j, k \in DOMAIN KeepReusable(s) : j < k <=> h[j] < h[k]
<1> DEFINE I == {i \in DOMAIN s : Eligible(s[i].rec)}
           r == KeepReusable(s)
<1>1. I \in SUBSET DOMAIN s /\ r = Selected(s, I)
  BY DEF KeepReusable
<1> HIDE DEF r
<1>2. r \in Seq(RawEntry) /\ \E h : Selects(h, r, s, I)
  <2> HIDE DEF I
  <2> QED
    BY <1>1, SelectedKeepsOrder
<1>3. Len(r) \in Nat /\ DOMAIN r = 1..Len(r)
  BY <1>2, LenProperties
<1>4. PICK h : /\ h \in [DOMAIN r -> I]
               /\ \A k \in DOMAIN r : r[k] = s[h[k]]
               /\ \A i \in I : \E k \in DOMAIN r : h[k] = i
               /\ \A j, k \in DOMAIN r : j < k <=> h[j] < h[k]
  BY <1>2, <1>3 DEF Selects
<1>5. \A i \in I : s[i] \in Entry
  <2> TAKE i \in I
  <2>1. s[i] \in RawEntry /\ Eligible(s[i].rec)
    BY LenProperties, ElementOfSeq
  <2> QED
    BY <2>1 DEF RawEntry, Entry, Record, Reusable, Eligible
<1>6. r \in [1..Len(r) -> Entry]
  BY <1>2, <1>3, <1>4, <1>5
<1>7. r \in Seq(Entry)
  BY <1>3, <1>6, SeqOfFunction
<1>8. h \in [DOMAIN r -> DOMAIN s]
  BY <1>4
<1>9. \A i \in DOMAIN s : Eligible(s[i].rec) => \E k \in DOMAIN r : h[k] = i
  BY <1>4
<1> QED
  BY <1>4, <1>7, <1>8, <1>9 DEF r
-----------------------------------------------------------------------------
(* What a save does to the list.                                            *)
LEMMA SaveLists ==
  ASSUME TypeOK, NEW t \in Ticket, NEW rec \in Record, Save(t, rec)
  PROVE  /\ listing' \in Seq(Ticket) /\ IsInjective(listing')
         /\ ToSet(listing') = ToSet(listing) \cup {t}
         /\ \A k \in DOMAIN listing' :
              listing'[k] # t => \E i \in DOMAIN listing : i <= k /\ listing[i] = listing'[k]
<1>1. listing \in Seq(Ticket) /\ IsInjective(listing)
  BY DEF TypeOK
<1>2. DOMAIN listing \in SUBSET Int
  BY <1>1, LenProperties
<1>3. CASE listing' = ToFront(t)
  BY <1>1, <1>3, ToFrontKeepsOrder
<1>4. CASE listing' = listing /\ helpdesk[t] \in Record
  <2>1. t \in ToSet(listing)
    BY <1>4 DEF TypeOK
  <2> QED
    BY <1>1, <1>2, <1>4, <2>1
<1> QED
  BY <1>3, <1>4 DEF Save, Update

LEMMA SaveType ==
  ASSUME TypeOK, NEW t \in Ticket, NEW rec \in Record, Save(t, rec)
  PROVE  TypeOK'
<1>1. /\ helpdesk' = [helpdesk EXCEPT ![t] = rec]
      /\ pending' = pending \cup {t} /\ edits' = edits + 1
      /\ steady' = steady \ {t}
      /\ index' = index /\ rows' = rows /\ phase' = phase /\ start' = start
      /\ tickets' = tickets /\ trashed' = trashed /\ latest' = latest
  BY DEF Save, Create, Update, Write, Touch, ingestVars
<1>2. HelpdeskTypeOK'
  BY <1>1 DEF TypeOK, HelpdeskTypeOK
<1>3. ToSet(listing)' = {u \in Ticket : helpdesk'[u] \in Record}
  BY <1>1, SaveLists DEF TypeOK, HelpdeskTypeOK
<1> QED
  BY <1>1, <1>2, <1>3, SaveLists DEF TypeOK, VectorStoreTypeOK, MatchCacheTypeOK

LEMMA DeleteType ==
  ASSUME TypeOK, NEW t \in Ticket, Delete(t)
  PROVE  TypeOK'
<1>1. /\ helpdesk' = [helpdesk EXCEPT ![t] = Trashed]
      /\ pending' = pending \cup {t} /\ edits' = edits + 1
      /\ listing' = Without(t) /\ steady' = steady \ {t} /\ trashed' = trashed + 1
      /\ index' = index /\ rows' = rows /\ phase' = phase /\ start' = start
      /\ tickets' = tickets /\ latest' = latest
  BY DEF Delete, Trash, Write, Touch, ingestVars
<1>2. HelpdeskTypeOK'
  BY <1>1 DEF TypeOK, HelpdeskTypeOK
<1>3. listing' \in Seq(Ticket) /\ IsInjective(listing') /\ ToSet(listing') = ToSet(listing) \ {t}
  BY <1>1, WithoutKeepsOrder DEF TypeOK
<1>4. ToSet(listing)' = {u \in Ticket : helpdesk'[u] \in Record}
  BY <1>1, <1>3, DistinctValues DEF TypeOK, HelpdeskTypeOK
<1> QED
  BY <1>1, <1>2, <1>3, <1>4 DEF TypeOK, VectorStoreTypeOK, MatchCacheTypeOK

LEMMA FetchType ==
  ASSUME TypeOK, FetchPage
  PROVE  TypeOK'
<1> DEFINE page == Page(start)
<1>1. phase = "list" /\ tickets \in Seq(RawEntry) /\ start \in Nat /\ latest \in Index
  BY DEF FetchPage, TypeOK
<1>2. /\ helpdesk' = helpdesk /\ pending' = pending /\ edits' = edits
      /\ index' = index /\ rows' = rows /\ listing' = listing
      /\ steady' = steady /\ trashed' = trashed
  BY DEF FetchPage, helpdeskVars
<1>3. page \in Seq(RawEntry)
  BY PageHolds
<1>4. tickets \o page \in Seq(RawEntry)
  BY <1>1, <1>3, ConcatProperties
<1>5. latest' \in Index
  <2>1. \A t \in Ticket : Listed(t, page) => helpdesk[t] \in Reusable
    <3> SUFFICES ASSUME NEW t \in Ticket, NEW k \in DOMAIN page,
                        page[k].ticket = t, Eligible(page[k].rec)
                 PROVE  helpdesk[t] \in Reusable
      BY DEF Listed, ToSet
    <3>1. start + k \in DOMAIN listing
          /\ page[k] = [ticket |-> listing[start + k], rec |-> helpdesk[listing[start + k]]]
      BY PageHolds
    <3>2. listing[start + k] = t /\ t \in ToSet(listing) /\ helpdesk[t].res # None
      BY <3>1 DEF ToSet, Eligible
    <3>3. helpdesk[t] \in Record
      BY <3>2 DEF TypeOK
    <3> QED
      BY <3>2, <3>3 DEF Record, Reusable
  <2>2. latest' = [t \in Ticket |-> IF Listed(t, page) THEN helpdesk[t] ELSE latest[t]]
    BY DEF FetchPage
  <2> QED
    BY <1>1, <2>1, <2>2 DEF Index
<1> HIDE DEF page
<1>6. CASE phase' = "index" /\ tickets' = KeepReusable(tickets \o page) /\ start' = start
  <2>1. tickets' \in Seq(Entry)
    BY <1>4, <1>6, KeepReusableHolds
  <2> QED
    BY <1>2, <1>5, <1>6, <2>1
    DEF TypeOK, HelpdeskTypeOK, VectorStoreTypeOK, MatchCacheTypeOK
<1>7. CASE phase' = phase /\ tickets' = tickets \o page /\ start' = start + PageSize
  <2>1. start' \in Nat
    BY <1>1, <1>7, PageSizeType
  <2> QED
    BY <1>1, <1>2, <1>4, <1>5, <1>7, <2>1
    DEF TypeOK, HelpdeskTypeOK, VectorStoreTypeOK, MatchCacheTypeOK
<1> QED
  BY <1>6, <1>7 DEF FetchPage, NextStart, page

LEMMA IndexNextType ==
  ASSUME TypeOK, IndexNext
  PROVE  TypeOK'
<1>1. /\ phase = "index" /\ tickets \in Seq(Entry) /\ tickets # <<>>
      /\ index' = [index EXCEPT ![Head(tickets).ticket] = Head(tickets).rec]
      /\ tickets' = Tail(tickets) /\ MarkAllStale
      /\ helpdesk' = helpdesk /\ pending' = pending /\ edits' = edits
      /\ listing' = listing /\ phase' = phase /\ start' = start
      /\ steady' = steady /\ trashed' = trashed /\ latest' = latest
  BY DEF IndexNext, IndexEntry, Upsert, TypeOK, helpdeskVars
<1>2. Head(tickets) \in Entry /\ Tail(tickets) \in Seq(Entry)
  BY <1>1, HeadTailProperties
<1>3. index' \in Index
  BY <1>1, <1>2 DEF TypeOK, VectorStoreTypeOK, Index, Entry
<1>4. rows' \in [Ticket -> Row \cup {None}]
  BY <1>1 DEF TypeOK, MatchCacheTypeOK, MarkAllStale, IsFresh, Row
<1> QED
  BY <1>1, <1>2, <1>3, <1>4
  DEF TypeOK, HelpdeskTypeOK, VectorStoreTypeOK, MatchCacheTypeOK

LEMMA InitType == Init => TypeOK
<1> SUFFICES ASSUME Init
             PROVE  TypeOK
  OBVIOUS
<1> DEFINE D == {t \in Ticket : helpdesk[t] \in Record}
<1>1. IsFiniteSet(D)
  BY TicketsFinite, FS_Subset
<1>2. listing \in SetToSeqs(D)
  BY DEF Init
<1> HIDE DEF D
<1>3. listing \in Seq(D) /\ IsInjective(listing) /\ ToSet(listing) = D
  BY <1>1, <1>2, SeqOfSet
<1>4. listing \in Seq(Ticket)
  <2>1. D \subseteq Ticket
    BY DEF D
  <2> QED
    BY <1>3, <2>1, SeqMonotonic
<1>5. HelpdeskTypeOK
  BY DEF Init, HelpdeskInit, HelpdeskTypeOK
<1>6. rows \in [Ticket -> Row \cup {None}]
  BY DEF Init, Row
<1>7. index \in Index /\ latest \in Index
  BY DEF Init, NoRecord, Index
<1>8. tickets \in Seq(Entry) /\ phase = "idle" /\ start = 0 /\ steady = {} /\ trashed = 0
  BY DEF Init
<1> QED
  BY <1>3, <1>4, <1>5, <1>6, <1>7, <1>8
  DEF TypeOK, VectorStoreTypeOK, MatchCacheTypeOK, D

LEMMA NextType == TypeOK /\ [Next]_vars => TypeOK'
<1> SUFFICES ASSUME TypeOK, [Next]_vars
             PROVE  TypeOK'
  OBVIOUS
<1> USE DEF VectorStoreTypeOK, MatchCacheTypeOK, HelpdeskTypeOK
<1>1. ASSUME NEW t \in Ticket, Delete(t)
      PROVE  TypeOK'
  BY <1>1, DeleteType
<1>2. ASSUME NEW t \in Ticket, NEW rec \in Record, Save(t, rec)
      PROVE  TypeOK'
  BY <1>2, SaveType
<1>3. CASE BeginIngest
  <2>1. tickets' \in Seq(RawEntry) /\ latest' \in Index /\ steady' \in SUBSET Ticket
    BY <1>3 DEF BeginIngest, NoRecord, Index
  <2> QED
    BY <1>3, <2>1 DEF BeginIngest, TypeOK, helpdeskVars
<1>4. CASE FetchPage
  BY <1>4, FetchType
<1>5. CASE IndexNext
  BY <1>5, IndexNextType
<1>6. CASE EndIngest
  BY <1>6 DEF EndIngest, TypeOK, helpdeskVars
<1>7. CASE IngestFail
  <2>1. tickets' \in Seq(Entry) /\ latest' \in Index
    BY <1>7 DEF IngestFail, NoRecord, Index
  <2> QED
    BY <1>7, <2>1 DEF IngestFail, TypeOK, helpdeskVars
<1>8. CASE UNCHANGED vars
  BY <1>8 DEF vars, TypeOK, helpdeskVars, ingestVars
<1> QED
  BY <1>1, <1>2, <1>3, <1>4, <1>5, <1>6, <1>7, <1>8 DEF Next

(* HelpdeskClient, VectorStore, MatchCache, FullIngest: every variable has  *)
(* its type, in the words of TypeOK.  Above all: what is paged through is   *)
(* every ticket there is, once, and only entries with a resolution reach    *)
(* the index, however the Helpdesk changes between two pages.               *)
THEOREM IngestTypeCorrect == Spec => []TypeOK
<1> QED
  BY InitType, NextType, PTL DEF Spec
-----------------------------------------------------------------------------
(* TypeOK with what the two safety properties rest on.                      *)
IngestInv == TypeOK /\ SteadyInv /\ SkipInv /\ LatestInv

LEMMA SkippedFinite ==
  ASSUME TypeOK
  PROVE  IsFiniteSet(Skipped) /\ Cardinality(Skipped) \in Nat
<1>1. Skipped \in SUBSET Ticket
  BY DEF Skipped, Passed, NotIndexed, TypeOK
<1>2. IsFiniteSet(Skipped)
  BY <1>1, TicketsFinite, FS_Subset
<1> QED
  BY <1>2, FS_CardinalityType

(* Nothing more is skipped than before.                                     *)
LEMMA NoneSkipped ==
  ASSUME TypeOK, SkipInv, Skipped' \in SUBSET Skipped, trashed' \in Nat, trashed <= trashed'
  PROVE  Cardinality(Skipped') <= trashed'
<1>1. Cardinality(Skipped') <= Cardinality(Skipped) /\ IsFiniteSet(Skipped')
  BY SkippedFinite, FS_Subset
<1>2. Cardinality(Skipped') \in Nat
  BY <1>1, FS_CardinalityType
<1> QED
  BY <1>1, <1>2, SkippedFinite DEF SkipInv, TypeOK

(* An edit of t leaves the other tickets' records alone.                    *)
LEMMA EditKeepsRecords ==
  ASSUME IngestInv, NEW t \in Ticket, NEW v, helpdesk' = [helpdesk EXCEPT ![t] = v],
         steady' = steady \ {t}, index' = index, phase' = phase, start' = start,
         tickets' = tickets, latest' = latest
  PROVE  SteadyInv' /\ LatestInv' /\ Entered' = Entered /\ NotIndexed' \subseteq NotIndexed
<1>1. \A u \in steady' : u \in steady /\ helpdesk'[u] = helpdesk[u]
  BY DEF IngestInv, TypeOK, HelpdeskTypeOK
<1>2. SteadyInv'
  BY <1>1 DEF IngestInv, SteadyInv
<1>3. LatestInv' /\ Entered' = Entered
  BY DEF IngestInv, LatestInv, LastFor, Entered
<1>4. NotIndexed' \subseteq NotIndexed
  BY <1>1 DEF NotIndexed
<1> QED
  BY <1>2, <1>3, <1>4

LEMMA SaveInv ==
  ASSUME IngestInv, NEW t \in Ticket, NEW rec \in Record, Save(t, rec)
  PROVE  IngestInv'
<1>1. /\ helpdesk' = [helpdesk EXCEPT ![t] = rec] /\ steady' = steady \ {t}
      /\ index' = index /\ phase' = phase /\ start' = start
      /\ tickets' = tickets /\ trashed' = trashed /\ latest' = latest
  BY DEF Save, Create, Update, Write, Touch, ingestVars
<1>2. SteadyInv' /\ LatestInv' /\ Entered' = Entered /\ NotIndexed' \subseteq NotIndexed
  BY <1>1, EditKeepsRecords
<1>3. TypeOK /\ TypeOK' /\ trashed \in Nat
  BY SaveType DEF IngestInv, TypeOK
<1>4. Passed' \subseteq Passed
  <2> SUFFICES ASSUME NEW u \in steady', NEW k \in DOMAIN listing', k <= start,
                      listing'[k] = u
               PROVE  \E i \in DOMAIN listing : i <= start /\ listing[i] = u
    BY <1>1 DEF Passed
  <2>1. PICK i \in DOMAIN listing : i <= k /\ listing[i] = u
    BY <1>1, <1>3, SaveLists
  <2>2. i \in Int /\ k \in Int /\ start \in Int
    BY <1>3, LenProperties DEF TypeOK
  <2> QED
    BY <2>1, <2>2
<1>5. Skipped' \in SUBSET Skipped
  BY <1>1, <1>2, <1>4 DEF Skipped
<1>6. Cardinality(Skipped') <= trashed'
  BY <1>1, <1>3, <1>5, NoneSkipped DEF IngestInv
<1> QED
  BY <1>1, <1>2, <1>3, <1>6 DEF IngestInv, SkipInv

(* A trashed ticket pulls the next one under the offset: it is the only one *)
(* more that is skipped.                                                    *)
LEMMA DeleteInv ==
  ASSUME IngestInv, NEW t \in Ticket, Delete(t)
  PROVE  IngestInv'
<1>1. /\ helpdesk' = [helpdesk EXCEPT ![t] = Trashed] /\ steady' = steady \ {t}
      /\ index' = index /\ phase' = phase /\ start' = start
      /\ tickets' = tickets /\ trashed' = trashed + 1 /\ latest' = latest
      /\ listing' = Without(t)
  BY DEF Delete, Trash, Write, Touch, ingestVars
<1>2. SteadyInv' /\ LatestInv' /\ Entered' = Entered /\ NotIndexed' \subseteq NotIndexed
  BY <1>1, EditKeepsRecords
<1>3. TypeOK /\ TypeOK' /\ trashed \in Nat
  BY DeleteType DEF IngestInv, TypeOK
<1>4. Passed' \subseteq Passed \cup {listing[start + 1]}
  <2> SUFFICES ASSUME NEW u \in steady', NEW k \in DOMAIN listing', k <= start,
                      listing'[k] = u
               PROVE  \/ u = listing[start + 1]
                      \/ \E i \in DOMAIN listing : i <= start /\ listing[i] = u
    BY <1>1 DEF Passed
  <2>1. PICK i \in DOMAIN listing : listing[i] = u /\ i \in {k, k + 1}
    BY <1>1, <1>3, WithoutKeepsOrder DEF TypeOK
  <2>2. i \in Int /\ k \in Int /\ start \in Int
    BY <1>3, LenProperties DEF TypeOK
  <2>3. i <= start \/ i = start + 1
    BY <2>1, <2>2
  <2> QED
    BY <2>1, <2>3
<1>5. PICK x : Skipped' \subseteq Skipped \cup {x}
  BY <1>1, <1>2, <1>4 DEF Skipped
<1>6. /\ IsFiniteSet(Skipped \cup {x})
      /\ Cardinality(Skipped \cup {x}) <= Cardinality(Skipped) + 1
  <2>1. /\ IsFiniteSet(Skipped \cup {x})
        /\ Cardinality(Skipped \cup {x}) =
             IF x \in Skipped THEN Cardinality(Skipped) ELSE Cardinality(Skipped) + 1
    BY <1>3, SkippedFinite, FS_AddElement
  <2> QED
    BY <2>1, <1>3, SkippedFinite
<1>7. Cardinality(Skipped') <= Cardinality(Skipped \cup {x}) /\ IsFiniteSet(Skipped')
  BY <1>5, <1>6, FS_Subset
<1>8. Cardinality(Skipped') \in Nat /\ Cardinality(Skipped \cup {x}) \in Nat
  BY <1>6, <1>7, FS_CardinalityType
<1>9. Cardinality(Skipped') <= trashed'
  BY <1>1, <1>3, <1>6, <1>7, <1>8, SkippedFinite DEF IngestInv, SkipInv
<1> QED
  BY <1>1, <1>2, <1>3, <1>9 DEF IngestInv, SkipInv

(* What is known of the entries after one more page, in terms of s: those   *)
(* before it and those of the page.                                         *)
LEMMA PageReads ==
  ASSUME IngestInv, FetchPage, NEW s, s = tickets \o Page(start)
  PROVE  /\ s \in Seq(RawEntry)
         /\ \A i \in DOMAIN s : s[i].ticket \in steady => s[i].rec = helpdesk[s[i].ticket]
         /\ \A u \in steady :
              \/ \E i \in DOMAIN s : s[i].ticket = u
              \/ /\ u \notin Entered
                 /\ \A i \in DOMAIN listing :
                      listing[i] = u => \/ i <= start
                                        \/ i > start + PageSize /\ Len(Page(start)) = PageSize
         /\ \A t \in Ticket :
              latest'[t] # None =>
                \E i \in DOMAIN s :
                  /\ s[i] = [ticket |-> t, rec |-> latest'[t]]
                  /\ \A j \in DOMAIN s :
                       j > i /\ s[j].ticket = t => ~ Eligible(s[j].rec)
<1> DEFINE page == Page(start)
           n == Len(tickets)
<1>1. /\ TypeOK /\ phase = "list" /\ tickets \in Seq(RawEntry)
      /\ listing \in Seq(Ticket) /\ IsInjective(listing)
      /\ start \in Nat /\ PageSize \in Nat
  BY PageSizeType DEF FetchPage, IngestInv, TypeOK
<1>2. /\ page \in Seq(RawEntry) /\ Len(page) <= PageSize
      /\ \A k \in DOMAIN page :
           /\ start + k \in DOMAIN listing
           /\ page[k] = [ticket |-> listing[start + k], rec |-> helpdesk[listing[start + k]]]
      /\ \A i \in DOMAIN listing :
           i > start /\ (i <= start + PageSize \/ Len(page) < PageSize) =>
             i - start \in DOMAIN page
  BY <1>1, PageHolds
<1>3. latest' = [t \in Ticket |-> IF Listed(t, page) THEN helpdesk[t] ELSE latest[t]]
  BY DEF FetchPage
<1>4. s = tickets \o page
  OBVIOUS
<1> HIDE DEF page
<1>5. /\ n \in Nat /\ DOMAIN tickets = 1..n
      /\ Len(page) \in Nat /\ DOMAIN page = 1..Len(page)
      /\ DOMAIN listing \in SUBSET Int
  BY <1>1, <1>2, LenProperties
<1>6. /\ s \in Seq(RawEntry) /\ DOMAIN s = 1..(n + Len(page))
      /\ \A i \in 1..(n + Len(page)) : s[i] = IF i <= n THEN tickets[i] ELSE page[i - n]
  BY <1>1, <1>2, <1>4, ConcatProperties, LenProperties
<1> HIDE DEF n
<1>7. \A i \in DOMAIN tickets : i \in DOMAIN s /\ s[i] = tickets[i]
  BY <1>5, <1>6
<1>8. \A k \in DOMAIN page : n + k \in DOMAIN s /\ s[n + k] = page[k]
  <2> TAKE k \in DOMAIN page
  <2>1. n + k \in 1..(n + Len(page)) /\ ~ (n + k <= n) /\ (n + k) - n = k
    BY <1>5
  <2> QED
    BY <2>1, <1>6
<1>9. \A i \in DOMAIN s :
        \/ i \in DOMAIN tickets /\ s[i] = tickets[i]
        \/ i - n \in DOMAIN page /\ s[i] = page[i - n]
  BY <1>5, <1>6
<1>10. ASSUME NEW i \in DOMAIN s, s[i].ticket \in steady
       PROVE  s[i].rec = helpdesk[s[i].ticket]
  <2>1. CASE i \in DOMAIN tickets /\ s[i] = tickets[i]
    BY <1>10, <2>1 DEF IngestInv, SteadyInv
  <2>2. CASE i - n \in DOMAIN page /\ s[i] = page[i - n]
    BY <1>2, <2>2
  <2> QED
    BY <1>9, <2>1, <2>2
<1>11. ASSUME NEW u \in steady, \A i \in DOMAIN s : s[i].ticket # u,
              NEW i \in DOMAIN listing, listing[i] = u, ~ (i <= start)
       PROVE  i > start + PageSize /\ Len(page) = PageSize
  <2>1. i \in Int /\ i > start
    BY <1>1, <1>5, <1>11
  <2>2. i - start \notin DOMAIN page
    <3> SUFFICES ASSUME i - start \in DOMAIN page
                 PROVE  FALSE
      OBVIOUS
    <3>1. page[i - start].ticket = listing[start + (i - start)]
      BY <1>2
    <3>2. start + (i - start) = i
      BY <1>1, <2>1
    <3> QED
      BY <3>1, <3>2, <1>8, <1>11
  <2>3. ~ (i <= start + PageSize) /\ ~ (Len(page) < PageSize)
    BY <2>1, <2>2, <1>2
  <2>4. Len(page) <= PageSize /\ Len(page) \in Int /\ PageSize \in Int /\ start + PageSize \in Int
    BY <1>1, <1>2, <1>5
  <2> QED
    BY <2>1, <2>3, <2>4
<1>12. ASSUME NEW u \in steady, \A i \in DOMAIN s : s[i].ticket # u
       PROVE  u \notin Entered
  BY <1>7, <1>12 DEF Entered
<1>13. ASSUME NEW t \in Ticket, latest'[t] # None
       PROVE  \E i \in DOMAIN s :
                /\ s[i] = [ticket |-> t, rec |-> latest'[t]]
                /\ \A j \in DOMAIN s : j > i /\ s[j].ticket = t => ~ Eligible(s[j].rec)
  <2>1. CASE Listed(t, page)
    <3>1. PICK k \in DOMAIN page : page[k].ticket = t
      BY <2>1 DEF Listed, ToSet
    <3>2. listing[start + k] = t /\ page[k] = [ticket |-> t, rec |-> latest'[t]]
      BY <1>2, <1>3, <2>1, <3>1
    <3>3. ASSUME NEW j \in DOMAIN s, j > n + k, s[j].ticket = t
          PROVE  FALSE
      <4>1. j - n \in DOMAIN page /\ s[j] = page[j - n]
        BY <1>5, <1>9, <3>3
      <4>2. listing[start + (j - n)] = listing[start + k]
        BY <1>2, <3>2, <3>3, <4>1
      <4>3. start + (j - n) = start + k
        BY <1>1, <1>2, <4>1, <4>2 DEF IsInjective
      <4> QED
        BY <1>1, <1>5, <1>6, <3>3, <4>3
    <3> QED
      BY <1>8, <3>2, <3>3
  <2>2. CASE ~ Listed(t, page)
    <3>1. latest[t] # None /\ latest'[t] = latest[t]
      BY <1>3, <1>13, <2>2
    <3>2. PICK i \in DOMAIN tickets : LastFor(t, i)
      BY <1>1, <3>1 DEF IngestInv, LatestInv
    <3>3. ASSUME NEW j \in DOMAIN s, j > i, s[j].ticket = t, Eligible(s[j].rec)
          PROVE  FALSE
      <4>1. CASE j \in DOMAIN tickets /\ s[j] = tickets[j]
        BY <3>2, <3>3, <4>1 DEF LastFor
      <4>2. CASE j - n \in DOMAIN page /\ s[j] = page[j - n]
        BY <2>2, <3>3, <4>2 DEF Listed, ToSet
      <4> QED
        BY <1>9, <4>1, <4>2
    <3> QED
      BY <1>7, <3>1, <3>2, <3>3 DEF LastFor
  <2> QED
    BY <2>1, <2>2
<1> QED
  BY <1>6, <1>10, <1>11, <1>12, <1>13 DEF page

LEMMA FetchInv ==
  ASSUME IngestInv, FetchPage
  PROVE  IngestInv'
<1> DEFINE s == tickets \o Page(start)
<1>1. /\ s \in Seq(RawEntry)
      /\ \A i \in DOMAIN s : s[i].ticket \in steady => s[i].rec = helpdesk[s[i].ticket]
      /\ \A u \in steady :
           \/ \E i \in DOMAIN s : s[i].ticket = u
           \/ /\ u \notin Entered
              /\ \A i \in DOMAIN listing :
                   listing[i] = u => \/ i <= start
                                     \/ i > start + PageSize /\ Len(Page(start)) = PageSize
      /\ \A t \in Ticket :
           latest'[t] # None =>
             \E i \in DOMAIN s :
               /\ s[i] = [ticket |-> t, rec |-> latest'[t]]
               /\ \A j \in DOMAIN s : j > i /\ s[j].ticket = t => ~ Eligible(s[j].rec)
  BY PageReads
<1>2. TypeOK /\ TypeOK'
  BY FetchType DEF IngestInv
<1>3. /\ phase = "list" /\ helpdesk' = helpdesk /\ index' = index
      /\ listing' = listing /\ steady' = steady /\ trashed' = trashed
      /\ trashed \in Nat
  BY <1>2 DEF FetchPage, TypeOK, helpdeskVars
<1>4. Skipped = Passed \ Entered
  BY <1>3 DEF Skipped
<1>5. CASE /\ phase' = phase /\ start' = start + PageSize /\ tickets' = s
           /\ Len(Page(start)) = PageSize
  <2> HIDE DEF s
  <2>1. SteadyInv'
    BY <1>1, <1>3, <1>5 DEF IngestInv, SteadyInv
  <2>2. LatestInv'
    BY <1>1, <1>5 DEF LatestInv, LastFor
  <2>3. Skipped' \in SUBSET Skipped
    <3> SUFFICES ASSUME NEW u \in steady, u \notin Entered', NEW i \in DOMAIN listing,
                        i <= start + PageSize, listing[i] = u
                 PROVE  u \in Passed \ Entered
      BY <1>3, <1>4, <1>5 DEF Skipped, Passed
    <3>1. \A j \in DOMAIN s : s[j].ticket # u
      BY <1>5 DEF Entered
    <3>2. u \notin Entered /\ (i <= start \/ i > start + PageSize)
      BY <1>1, <3>1
    <3>3. i \in Int /\ start + PageSize \in Int
      BY <1>2, LenProperties, PageSizeType DEF TypeOK
    <3> QED
      BY <3>2, <3>3 DEF Passed
  <2>4. Cardinality(Skipped') <= trashed'
    BY <1>2, <1>3, <2>3, NoneSkipped DEF IngestInv
  <2> QED
    BY <1>2, <1>3, <1>5, <2>1, <2>2, <2>4 DEF IngestInv, SkipInv
<1>6. CASE /\ phase' = "index" /\ start' = start /\ tickets' = KeepReusable(s)
           /\ Len(Page(start)) < PageSize
  <2> HIDE DEF s
  <2>1. PICK h \in [DOMAIN tickets' -> DOMAIN s] :
          /\ \A k \in DOMAIN tickets' : tickets'[k] = s[h[k]]
          /\ \A i \in DOMAIN s : Eligible(s[i].rec) => \E k \in DOMAIN tickets' : h[k] = i
          /\ \A j, k \in DOMAIN tickets' : j < k <=> h[j] < h[k]
    <3> DEFINE r == KeepReusable(s)
    <3>1. \E h \in [DOMAIN r -> DOMAIN s] :
            /\ \A k \in DOMAIN r : r[k] = s[h[k]]
            /\ \A i \in DOMAIN s : Eligible(s[i].rec) => \E k \in DOMAIN r : h[k] = i
            /\ \A j, k \in DOMAIN r : j < k <=> h[j] < h[k]
      <4>1. s \in Seq(RawEntry)
        BY <1>1
      <4> QED
        BY <4>1, KeepReusableHolds
    <3>2. tickets' = r
      BY <1>6
    <3> HIDE DEF r
    <3> QED
      BY <3>1, <3>2
  <2>2. DOMAIN tickets' \in SUBSET Int /\ DOMAIN s \in SUBSET Int
    <3>1. tickets' \in Seq(Entry)
      BY <1>2, <1>6 DEF TypeOK
    <3> QED
      BY <1>1, <3>1, LenProperties
  <2>3. SteadyInv'
    BY <1>1, <1>3, <2>1 DEF IngestInv, SteadyInv
  <2>4. LatestInv'
    <3> SUFFICES ASSUME NEW t \in Ticket, latest'[t] # None
                 PROVE  \E k \in DOMAIN tickets' :
                          /\ tickets'[k] = [ticket |-> t, rec |-> latest'[t]]
                          /\ \A j \in DOMAIN tickets' :
                               j > k /\ tickets'[j].ticket = t => ~ Eligible(tickets'[j].rec)
      BY DEF LatestInv, LastFor
    <3>1. PICK i \in DOMAIN s :
            /\ s[i] = [ticket |-> t, rec |-> latest'[t]]
            /\ \A j \in DOMAIN s : j > i /\ s[j].ticket = t => ~ Eligible(s[j].rec)
      BY <1>1
    <3>2. Eligible(s[i].rec)
      BY <1>2, <3>1, DistinctValues DEF TypeOK, Index, Reusable, Eligible
    <3>3. PICK k \in DOMAIN tickets' : h[k] = i
      BY <2>1, <3>2
    <3>4. ASSUME NEW j \in DOMAIN tickets', j > k, tickets'[j].ticket = t
          PROVE  ~ Eligible(tickets'[j].rec)
      <4>1. h[j] \in DOMAIN s /\ h[j] > i /\ tickets'[j] = s[h[j]]
        BY <2>1, <2>2, <3>3, <3>4
      <4> QED
        BY <3>1, <3>4, <4>1
    <3> QED
      BY <2>1, <3>1, <3>3, <3>4
  <2>5. Skipped' \in SUBSET Skipped
    <3> SUFFICES ASSUME NEW u \in steady, u \notin Entered'
                 PROVE  u \in Passed \ Entered
      BY <1>3, <1>4, <1>6 DEF Skipped, NotIndexed
    <3>1. u \in Ticket /\ helpdesk[u] \in Reusable
      BY DEF IngestInv, TypeOK, SteadyInv
    <3>2. Eligible(helpdesk[u]) /\ helpdesk[u] \in Record
      BY <3>1, DistinctValues DEF Eligible, Reusable, Record
    <3>3. ASSUME NEW i \in DOMAIN s, s[i].ticket = u
          PROVE  FALSE
      <4>1. s[i].rec = helpdesk[u]
        BY <1>1, <3>3
      <4>2. PICK k \in DOMAIN tickets' : h[k] = i
        BY <2>1, <3>2, <4>1
      <4>3. tickets'[k].ticket = u
        BY <2>1, <3>3, <4>2
      <4> QED
        BY <4>3 DEF Entered
    <3>4. u \in ToSet(listing)
      BY <1>2, <3>1, <3>2 DEF TypeOK
    <3>5. PICK i \in DOMAIN listing : listing[i] = u
      BY <3>4 DEF ToSet
    <3>6. u \notin Entered /\ (i <= start \/ Len(Page(start)) = PageSize)
      BY <1>1, <3>3, <3>5
    <3>7. Len(Page(start)) # PageSize
      BY <1>2, <1>6, PageHolds, LenProperties, PageSizeType
    <3> QED
      BY <3>5, <3>6, <3>7 DEF Passed
  <2>6. Cardinality(Skipped') <= trashed'
    BY <1>2, <1>3, <2>5, NoneSkipped DEF IngestInv
  <2> QED
    BY <1>2, <1>3, <1>6, <2>3, <2>4, <2>6 DEF IngestInv, SkipInv
<1> QED
  BY <1>5, <1>6 DEF FetchPage, NextStart

LEMMA IndexNextInv ==
  ASSUME IngestInv, IndexNext
  PROVE  IngestInv'
<1> DEFINE e == Head(tickets)
<1>1. /\ phase = "index" /\ tickets \in Seq(Entry) /\ tickets # <<>>
      /\ index' = [index EXCEPT ![e.ticket] = e.rec] /\ tickets' = Tail(tickets)
      /\ helpdesk' = helpdesk /\ listing' = listing /\ phase' = phase
      /\ steady' = steady /\ trashed' = trashed /\ latest' = latest
      /\ trashed \in Nat /\ index \in Index /\ TypeOK /\ TypeOK'
  BY IndexNextType
  DEF IndexNext, IndexEntry, Upsert, IngestInv, TypeOK, VectorStoreTypeOK, helpdeskVars
<1>2. /\ e \in Entry /\ e = tickets[1] /\ tickets' \in Seq(Entry)
      /\ DOMAIN tickets = 1..Len(tickets) /\ Len(tickets) \in Nat
      /\ DOMAIN tickets' = 1..(Len(tickets) - 1) /\ 1 \in DOMAIN tickets
      /\ \A k \in DOMAIN tickets' : tickets'[k] = tickets[k + 1]
  <2>1. Len(tickets) \in Nat \ {0}
    BY <1>1, EmptySeq
  <2>2. Len(tickets') = Len(tickets) - 1
        /\ \A k \in 1..Len(tickets') : tickets'[k] = tickets[k + 1]
    BY <1>1, HeadTailProperties
  <2> QED
    BY <1>1, <2>1, <2>2, HeadTailProperties, LenProperties
<1> HIDE DEF e
<1>3. \A k \in DOMAIN tickets' : k + 1 \in DOMAIN tickets
  BY <1>2
<1>4. \A k \in DOMAIN tickets : k = 1 \/ (k - 1 \in DOMAIN tickets' /\ tickets'[k - 1] = tickets[k])
  <2> TAKE k \in DOMAIN tickets
  <2>1. k # 1 => k - 1 \in DOMAIN tickets' /\ (k - 1) + 1 = k
    BY <1>2
  <2> QED
    BY <2>1, <1>2
<1>5. Entered \subseteq Entered' \cup {e.ticket}
  BY <1>2, <1>4 DEF Entered
<1>6. Entered' \subseteq Entered
  BY <1>2, <1>3 DEF Entered
<1>7. \A u \in Ticket : index'[u] = IF u = e.ticket THEN e.rec ELSE index[u]
  BY <1>1 DEF Index
<1>8. SteadyInv'
  BY <1>1, <1>2, <1>3 DEF IngestInv, SteadyInv
<1>9. Skipped' \in SUBSET Skipped
  <2> SUFFICES ASSUME NEW u \in steady, index'[u] # helpdesk[u], u \notin Entered'
               PROVE  index[u] # helpdesk[u] /\ u \notin Entered
    BY <1>1 DEF Skipped, NotIndexed
  <2>1. u \in Ticket
    BY <1>1 DEF TypeOK
  <2>2. u # e.ticket
    BY <1>2, <1>7, <2>1 DEF IngestInv, SteadyInv
  <2> QED
    BY <1>5, <1>7, <2>1, <2>2
<1>10. Cardinality(Skipped') <= trashed'
  BY <1>1, <1>9, NoneSkipped DEF IngestInv
<1>11. LatestInv'
  <2> SUFFICES ASSUME NEW t \in Ticket, latest[t] # None
               PROVE  \/ \E k \in DOMAIN tickets' :
                           /\ tickets'[k] = [ticket |-> t, rec |-> latest[t]]
                           /\ \A j \in DOMAIN tickets' :
                                j > k /\ tickets'[j].ticket = t => ~ Eligible(tickets'[j].rec)
                      \/ index'[t] = latest[t] /\ t \notin Entered'
    BY <1>1 DEF LatestInv, LastFor
  <2>1. CASE index[t] = latest[t] /\ t \notin Entered
    <3>1. e.ticket \in Entered
      BY <1>2 DEF Entered
    <3> QED
      BY <2>1, <3>1, <1>6, <1>7
  <2>2. CASE \E k \in DOMAIN tickets : LastFor(t, k)
    <3>1. PICK k \in DOMAIN tickets : LastFor(t, k)
      BY <2>2
    <3>2. /\ tickets[k] = [ticket |-> t, rec |-> latest[t]]
          /\ \A j \in DOMAIN tickets :
               j > k /\ tickets[j].ticket = t => ~ Eligible(tickets[j].rec)
      BY <3>1 DEF LastFor
    <3>3. CASE k = 1
      <4>1. index'[t] = latest[t]
        BY <1>2, <1>7, <3>2, <3>3
      <4>2. ASSUME NEW j \in DOMAIN tickets', tickets'[j].ticket = t
            PROVE  FALSE
        <5>1. j + 1 \in DOMAIN tickets /\ j + 1 > k /\ tickets[j + 1].ticket = t
          BY <1>2, <1>3, <3>3, <4>2
        <5>2. tickets[j + 1] \in Entry
          BY <1>1, <1>2, <5>1, ElementOfSeq
        <5>3. Eligible(tickets[j + 1].rec)
          BY <5>2, DistinctValues DEF Entry, Reusable, Eligible
        <5> QED
          BY <3>2, <5>1, <5>3
      <4> QED
        BY <4>1, <4>2 DEF Entered
    <3>4. CASE k # 1
      <4>1. k - 1 \in DOMAIN tickets' /\ tickets'[k - 1] = tickets[k]
        BY <1>4, <3>4
      <4>2. ASSUME NEW j \in DOMAIN tickets', j > k - 1, tickets'[j].ticket = t
            PROVE  ~ Eligible(tickets'[j].rec)
        <5>1. j + 1 \in DOMAIN tickets /\ j + 1 > k /\ tickets'[j] = tickets[j + 1]
          BY <1>2, <1>3, <4>2
        <5> QED
          BY <3>2, <4>2, <5>1
      <4> QED
        BY <3>2, <4>1, <4>2
    <3> QED
      BY <3>3, <3>4
  <2> QED
    BY <2>1, <2>2 DEF IngestInv, LatestInv
<1> QED
  BY <1>1, <1>8, <1>10, <1>11 DEF IngestInv, SkipInv

(* A request that begins, or gives up, starts from nothing.                 *)
FromNothing ==
  /\ TypeOK /\ tickets = <<>> /\ trashed = 0
  /\ \A t \in Ticket : latest[t] = None
  /\ \A t \in steady : helpdesk[t] \in Reusable
  /\ steady = {} \/ (phase = "list" /\ start = 0)

LEMMA NothingListed == FromNothing => IngestInv
<1> SUFFICES ASSUME FromNothing
             PROVE  IngestInv
  OBVIOUS
<1>1. DOMAIN tickets = {}
  BY DEF FromNothing
<1>2. steady = {} \/ (phase = "list" /\ Passed = {})
  <2>1. \A i \in DOMAIN listing : i \in Nat /\ i >= 1
    BY LenProperties DEF FromNothing, TypeOK
  <2> QED
    BY <2>1 DEF FromNothing, Passed
<1>3. Skipped = {}
  BY <1>2 DEF Skipped, Passed, NotIndexed
<1>4. Cardinality(Skipped) = 0
  BY <1>3, FS_EmptySet
<1> QED
  BY <1>1, <1>4 DEF FromNothing, IngestInv, SteadyInv, SkipInv, LatestInv

LEMMA InitInv == Init => IngestInv
<1> SUFFICES ASSUME Init
             PROVE  IngestInv
  OBVIOUS
<1>1. /\ tickets = <<>> /\ trashed = 0 /\ steady = {}
      /\ \A t \in Ticket : latest[t] = None
  BY DEF Init, NoRecord
<1> QED
  BY <1>1, InitType, NothingListed DEF FromNothing

LEMMA NextInv == IngestInv /\ [Next]_vars => IngestInv'
<1> SUFFICES ASSUME IngestInv, [Next]_vars
             PROVE  IngestInv'
  OBVIOUS
<1>1. ASSUME NEW t \in Ticket, Delete(t)
      PROVE  IngestInv'
  BY <1>1, DeleteInv
<1>2. ASSUME NEW t \in Ticket, NEW rec \in Record, Save(t, rec)
      PROVE  IngestInv'
  BY <1>2, SaveInv
<1>3. TypeOK'
  BY NextType DEF IngestInv
<1>4. CASE BeginIngest
  <2>1. /\ tickets' = <<>> /\ trashed' = 0 /\ phase' = "list" /\ start' = 0
        /\ \A t \in Ticket : latest'[t] = None
        /\ \A t \in steady' : helpdesk'[t] \in Reusable
    BY <1>4 DEF BeginIngest, NoRecord, helpdeskVars
  <2>2. FromNothing'
    BY <1>3, <2>1 DEF FromNothing
  <2> QED
    BY <2>2, NothingListed, PTL
<1>5. CASE FetchPage
  BY <1>5, FetchInv
<1>6. CASE IndexNext
  BY <1>6, IndexNextInv
<1>7. CASE EndIngest
  <2>1. /\ phase = "index" /\ phase' = "idle" /\ tickets = <<>> /\ tickets' = tickets
        /\ helpdesk' = helpdesk /\ index' = index /\ listing' = listing
        /\ steady' = steady /\ trashed' = trashed /\ latest' = latest
    BY <1>7 DEF EndIngest, helpdeskVars
  <2>2. SteadyInv' /\ LatestInv'
    BY <2>1 DEF IngestInv, SteadyInv, LatestInv, LastFor, Entered
  <2>3. Skipped' = Skipped
    BY <2>1 DEF Skipped, NotIndexed, Entered
  <2> QED
    BY <1>3, <2>1, <2>2, <2>3 DEF IngestInv, SkipInv
<1>8. CASE IngestFail
  <2>1. /\ tickets' = <<>> /\ trashed' = 0 /\ steady' = {}
        /\ \A t \in Ticket : latest'[t] = None
    BY <1>8 DEF IngestFail, NoRecord
  <2>2. FromNothing'
    BY <1>3, <2>1 DEF FromNothing
  <2> QED
    BY <2>2, NothingListed, PTL
<1>9. CASE UNCHANGED vars
  <2>1. /\ helpdesk' = helpdesk /\ index' = index /\ listing' = listing
        /\ phase' = phase /\ start' = start /\ tickets' = tickets
        /\ steady' = steady /\ trashed' = trashed /\ latest' = latest
    BY <1>9 DEF vars, helpdeskVars, ingestVars
  <2>2. SteadyInv' /\ LatestInv'
    BY <2>1 DEF IngestInv, SteadyInv, LatestInv, LastFor, Entered
  <2>3. Skipped' = Skipped
    BY <2>1 DEF Skipped, Passed, NotIndexed, Entered
  <2> QED
    BY <1>3, <2>1, <2>2, <2>3 DEF IngestInv, SkipInv
<1> QED
  BY <1>1, <1>2, <1>4, <1>5, <1>6, <1>7, <1>8, <1>9 DEF Next

LEMMA IngestInvariant == Spec => []IngestInv
<1> QED
  BY InitInv, NextInv, PTL DEF Spec

(* api/main.py, ingestion/helpdesk_client.py: for a Helpdesk and pages of   *)
(* any size, a full ingest that ends has indexed every Reusable Ticket      *)
(* nobody touched meanwhile, save at most one for each ticket trashed.      *)
THEOREM SkipsAreBounded == Spec => []SkipsAtMostOnePerTrash
<1>1. IngestInv => SkipsAtMostOnePerTrash
  <2> SUFFICES ASSUME IngestInv, phase = "idle"
               PROVE  Cardinality(NotIndexed) <= trashed
    BY DEF SkipsAtMostOnePerTrash
  <2>1. Entered = {}
    BY DEF IngestInv, SkipInv, Entered
  <2>2. Skipped = NotIndexed
    BY <2>1 DEF Skipped
  <2> QED
    BY <2>2 DEF IngestInv, SkipInv
<1> QED
  BY <1>1, IngestInvariant, PTL

(* A ticket listed any number of times, with different records, ends up     *)
(* with the one listed last.                                                *)
THEOREM LastListedIsIndexed == Spec => []LastListedWins
<1>1. IngestInv => LastListedWins
  BY DEF IngestInv, LatestInv, LastFor, LastListedWins, ToSet
<1> QED
  BY <1>1, IngestInvariant, PTL
=============================================================================
