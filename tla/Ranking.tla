------------------------------ MODULE Ranking ------------------------------
(***************************************************************************)
(* compute_matches for one Query Ticket and one query text: the candidates  *)
(* Qdrant returns, the rerank, the gate, the cut.  Scores are small         *)
(* integers; each ticket has one score, that of its match_text with the     *)
(* query.  Qdrant's fused order is any order of the points, and any other   *)
(* after an index mutation, since the term statistics change with it.       *)
(* Service.tla knows of all this only MatchesOf (Tickets.tla).              *)
(***************************************************************************)
EXTENDS Integers, SequencesExt, Selection

CONSTANTS
  Ticket,           \* the tickets that may be indexed
  Score,
  QueryTicket,      \* the ticket the Matches are for; it need not be in Ticket
  PoolSize,         \* CANDIDATE_POOL_SIZE
  MaxMatches,       \* MAX_MATCHES
  MatchThreshold    \* MATCH_THRESHOLD

ASSUME RankingConstants ==
  /\ Score \subseteq Int /\ MatchThreshold \in Int
  /\ PoolSize \in Nat /\ MaxMatches \in Nat

VARIABLES
  fused,   \* the indexed tickets in the order of the fused search
  score    \* ticket -> the rerank score of its text

vars == <<fused, score>>

Indexed == ToSet(fused)

TypeOK ==
  /\ fused \in Seq(Ticket) /\ IsInjective(fused)
  /\ score \in [Ticket -> Score]

Init == fused = <<>> /\ score \in [Ticket -> Score]
-----------------------------------------------------------------------------
\* s[:n]
FirstOf(s, n) == Slice(s, 0, n)

\* mutant: asks for as many candidates as are shown
CandidatesNarrow(order) == FirstOf(order, MaxMatches)

\* HybridSearch.search, top_k of the fused list
Candidates(order) == FirstOf(order, PoolSize)

(* Reranker.rerank: a stable sort, the highest score first.  Of two equal   *)
(* candidates the one found first stays first.                              *)
Better(s, scores) ==
  {p \in (DOMAIN s) \X (DOMAIN s) :
     \/ scores[s[p[1]]] > scores[s[p[2]]]
     \/ scores[s[p[1]]] = scores[s[p[2]]] /\ p[1] < p[2]}

Rerank(s, scores) ==
  LET position == Arranged(DOMAIN s, Better(s, scores))
  IN [k \in DOMAIN position |-> s[position[k]]]

\* mutant: a score equal to the threshold is not enough
PassesAbove(t, scores) == scores[t] > MatchThreshold /\ t # QueryTicket

Passes(t, scores) == scores[t] >= MatchThreshold /\ t # QueryTicket

Gate(s, scores) == Selected(s, {i \in DOMAIN s : Passes(s[i], scores)})

\* mutant: cut, then gate
CutFirst(order, scores) ==
  Gate(FirstOf(Rerank(Candidates(order), scores), MaxMatches), scores)

ComputeMatches(order, scores) ==
  FirstOf(Gate(Rerank(Candidates(order), scores), scores), MaxMatches)
-----------------------------------------------------------------------------
\* mutant: a new point id for every upsert
IndexTicketAnew(t) ==
  /\ fused' = Append(fused, t)
  /\ \E n \in Score : score' = [score EXCEPT ![t] = n]

\* an upsert: t has a new text or is new, and the points have a new order
IndexTicket(t) ==
  /\ fused' \in SetToSeqs(Indexed \cup {t})
  /\ \E n \in Score : score' = [score EXCEPT ![t] = n]

DeindexTicket(t) ==
  /\ t \in Indexed
  /\ fused' \in SetToSeqs(Indexed \ {t})
  /\ UNCHANGED score

Next == \E t \in Ticket : IndexTicket(t) \/ DeindexTicket(t)

Spec == Init /\ [][Next]_vars
-----------------------------------------------------------------------------
(***************************************************************************)
(* retrieval/matching.py: the Matches are what a definition without sorting *)
(* or slicing calls the best: in falling order, without the ticket itself,  *)
(* nothing under the threshold, and no candidate left out that scores       *)
(* higher than one shown or would have had a place.                         *)
(***************************************************************************)
ShownFor(order, scores) == ToSet(ComputeMatches(order, scores))

Shown   == ShownFor(fused, score)
Passing == {t \in Indexed \ {QueryTicket} : score[t] >= MatchThreshold}

MatchesAreBest ==
  LET matches == ComputeMatches(fused, score)
      shown   == Shown
  IN /\ IsInjective(matches)
     /\ shown \subseteq Passing
     /\ \A i, j \in DOMAIN matches : i < j => score[matches[i]] >= score[matches[j]]
     /\ \A t \in (Passing \cap ToSet(Candidates(fused))) \ shown :
          /\ Cardinality(shown) = MaxMatches
          /\ \A u \in shown : score[u] >= score[t]

(***************************************************************************)
(* Tickets.tla: as long as the points fit the pool and those that pass fit  *)
(* the cut, the Matches are the set that Service.tla works with -- also     *)
(* when the ticket itself is indexed and takes one of the candidates'       *)
(* places.                                                                  *)
(***************************************************************************)
AgreesWithMatchesOf ==
  Cardinality(Indexed) <= PoolSize /\ Cardinality(Passing) <= MaxMatches =>
    Shown = Passing

(***************************************************************************)
(* docs/adr/0011: one index mutation may change the Matches of any ticket,  *)
(* so every row is marked.  How far it goes: while the points fit the pool, *)
(* a new ticket only pushes others out.  A ticket that comes in beside it   *)
(* was level with one that goes.                                            *)
(***************************************************************************)
NewcomerOnlyDisplaces ==
  [][LET before == Shown
         after  == ShownFor(fused', score')
     IN \A t \in Ticket :
          (t \notin Indexed /\ Indexed' = Indexed \cup {t}
           /\ Cardinality(Indexed) < PoolSize) =>
            \A u \in after \ (before \cup {t}) :
              \E v \in before \ after : score[v] = score[u]]_vars
=============================================================================
