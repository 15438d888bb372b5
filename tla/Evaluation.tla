----------------------------- MODULE Evaluation -----------------------------
(***************************************************************************)
(* eval/dataset.py, and the two tools that go through its queries:          *)
(* eval/run.py counts what leaks through the gate, calibrate_threshold.py   *)
(* recommends one.  A rerank score depends on the two texts, so tickets of  *)
(* the same place in the fixture have the same.  The pool holds the whole   *)
(* index; what the library ranx makes of the rankings is left out.          *)
(***************************************************************************)
EXTENDS Seeding, Bags

CONSTANTS
  Score,           \* rerank scores
  MatchThreshold   \* MATCH_THRESHOLD

ASSUME ScoresAreNaturals == Score \subseteq Nat /\ MatchThreshold \in Nat

VARIABLES
  index,   \* the tickets with a point
  tool     \* a run of a tool; it only reads, so a behaviour ends with it

vars == <<seedVars, index, tool>>

Tools == {"evaluate", "calibrate"}

Init ==
  /\ SeedInit
  /\ index = {}
  /\ tool = [pc |-> "idle", name |-> None]

\* POST /ingest/full; of a seeded Helpdesk Resolved means reusable
IngestFull ==
  /\ tool.pc \in {"idle", "query"}
  /\ index' = {n \in DOMAIN tickets : tickets[n].resolved}
  /\ UNCHANGED <<seedVars, tool>>
-----------------------------------------------------------------------------
\* build_queries
Queries(m) == Selected(m, {i \in DOMAIN m : m[i].group = "member"})

Names(m) == {row.ticket_name : row \in ToSet(Queries(m))}
ClusterOf(m, name) == (CHOOSE row \in ToSet(m) : row.ticket_name = name).cluster

\* mutant: every pair of siblings once
QrelsOneWay(m) ==
  [q \in Names(m) |-> {n \in Names(m) : n > q /\ ClusterOf(m, n) = ClusterOf(m, q)}]

\* build_qrels
Qrels(m) ==
  [q \in Names(m) |-> {n \in Names(m) \ {q} : ClusterOf(m, n) = ClusterOf(m, q)}]

\* near_miss_by_cluster: a cluster -> the last of its near-misses
NearMiss(m) ==
  LET near == {i \in DOMAIN m : m[i].group = "distractor" /\ m[i].mark = "near-miss"}
  IN [c \in {m[i].cluster : i \in near} |->
       m[Max({i \in near : m[i].cluster = c})].ticket_name]
-----------------------------------------------------------------------------
\* main: the manifest is read once, and has to be readable
BeginTool(name) ==
  /\ tool.pc = "idle"
  /\ ~Seeding
  /\ Readable
  /\ tool' = [pc |-> "query", name |-> name, todo |-> Queries(manifest), final |-> <<>>,
              qrels |-> Qrels(manifest), near_miss |-> NearMiss(manifest),
              hits |-> EmptyBag, totals |-> EmptyBag, labeled |-> <<>>,
              threshold |-> None]
  /\ UNCHANGED <<seedVars, index>>

\* the fused candidates with their scores, without the query itself
Ranked(q, scores) == [t \in index \ {q} |-> scores[tickets[t].place]]

Cleared(q, distractor, ranked) ==
  distractor \in DOMAIN ranked /\ ranked[distractor] >= MatchThreshold

\* mutant: only queries that retrieve the near-miss are in the total
LeakageOfRetrieved(query, ranked) ==
  LET c == query.cluster
  IN IF c \notin DOMAIN tool.near_miss \/ tool.near_miss[c] \notin DOMAIN ranked THEN tool
     ELSE [tool EXCEPT !.totals = @ (+) SetToBag({c}),
             !.hits = IF Cleared(query.ticket_name, tool.near_miss[c], ranked)
                      THEN @ (+) SetToBag({c}) ELSE @]

\* _run_queries, for one query: the run of the tool after it
Leakage(query, ranked) ==
  LET c == query.cluster
  IN IF c \notin DOMAIN tool.near_miss THEN tool
     ELSE [tool EXCEPT !.totals = @ (+) SetToBag({c}),
             !.hits = IF Cleared(query.ticket_name, tool.near_miss[c], ranked)
                      THEN @ (+) SetToBag({c}) ELSE @]

\* the candidates with their labels; in which order they come plays no part
Labeled(ranked, relevant) ==
  LET order == Arranged(DOMAIN ranked, Ascending(DOMAIN ranked))
  IN [k \in DOMAIN order |-> <<ranked[order[k]], order[k] \in relevant>>]

\* _collect_labeled_scores, for one query
Labels(query, ranked) ==
  [tool EXCEPT !.labeled = @ \o Labeled(ranked, tool.qrels[query.ticket_name])]

\* the query has to be there: a 404 of get_ticket ends the tool (ToolFails)
QueryStep ==
  /\ tool.pc = "query" /\ tool.todo # <<>>
  /\ Head(tool.todo).ticket_name \in DOMAIN tickets
  /\ LET query == Head(tool.todo)
         q == query.ticket_name
     IN \E scores \in [{tickets[t].place : t \in index \ {q}} -> Score] :
          LET ranked == Ranked(q, scores)
              done == IF tool.name = "evaluate" THEN Leakage(query, ranked)
                                                ELSE Labels(query, ranked)
          IN tool' = [done EXCEPT !.todo = Tail(@), !.final = Append(@, <<query, ranked>>)]
  /\ UNCHANGED <<seedVars, index>>
-----------------------------------------------------------------------------
\* the labeled scores of one kind, from a score up
Count(labeled, yes, from) ==
  Cardinality({i \in DOMAIN labeled : labeled[i][1] >= from /\ labeled[i][2] = yes})

\* mutant: weighs recall, as beta = 2 would
FBetaForRecall(tp, fp, fn) ==
  IF tp = 0 THEN <<0, 1>>
  ELSE <<5 * tp * tp, 4 * tp * (tp + fn) + tp * (tp + fp)>>

(* (1 + beta^2) * P * R / (beta^2 * P + R) with P = tp / (tp + fp), R = tp / *)
(* (tp + fn) and BETA = 1/2, as a fraction.                                  *)
FBeta(tp, fp, fn) ==
  IF tp = 0 THEN <<0, 1>>
  ELSE <<5 * tp * tp, tp * (tp + fn) + 4 * tp * (tp + fp)>>

Less(x, y) == x[1] * y[2] < y[1] * x[2]

FOf(labeled, n) ==
  LET tp == Count(labeled, TRUE, n)
  IN FBeta(tp, Count(labeled, FALSE, n), Count(labeled, TRUE, 0) - tp)

Observed(labeled) == {labeled[i][1] : i \in DOMAIN labeled}

(* _best_threshold: best[k] is the best of the first k candidates, from the *)
(* lowest score up.  The code breaks a tie by precision and the higher      *)
(* score; but what is equal as a fraction need not be so in floating point, *)
(* and either may then come out ahead.                                      *)
Sweeps(best, candidate, labeled) ==
  /\ best[1] = candidate[1]
  /\ \A k \in (DOMAIN candidate) \ {1} :
       LET old == FOf(labeled, best[k - 1])
           new == FOf(labeled, candidate[k])
       IN \/ best[k] = best[k - 1] /\ ~ Less(old, new)
          \/ best[k] = candidate[k] /\ ~ Less(new, old)

BestThresholds(labeled) ==
  LET seen == Observed(labeled)
      candidate == Arranged(seen, Ascending(seen))
  IN {best[Cardinality(seen)] :
        best \in {b \in [DOMAIN candidate -> seen] : Sweeps(b, candidate, labeled)}}

\* nothing is reported, what was counted is gone
Failed == [pc |-> "failed", name |-> tool.name]

\* main prints the range of both kinds of scores; without any, it fails
Report ==
  /\ tool.pc = "query" /\ tool.todo = <<>>
  /\ IF tool.name = "calibrate"
       THEN \/ \E yes \in BOOLEAN : /\ Count(tool.labeled, yes, 0) = 0
                                    /\ tool' = Failed
            \/ /\ \A yes \in BOOLEAN : Count(tool.labeled, yes, 0) > 0
               /\ \E n \in BestThresholds(tool.labeled) :
                    tool' = [tool EXCEPT !.pc = "done", !.threshold = n]
       ELSE tool' = [tool EXCEPT !.pc = "done"]
  /\ UNCHANGED <<seedVars, index>>

\* a call fails
ToolFails ==
  /\ tool.pc = "query"
  /\ tool' = Failed
  /\ UNCHANGED <<seedVars, index>>

\* nobody seeds while a tool runs: its usage says to seed first
SeedAlone == tool.pc = "idle" /\ SeedStep /\ UNCHANGED <<index, tool>>

Next ==
  \/ SeedAlone \/ IngestFull
  \/ \E name \in Tools : BeginTool(name)
  \/ QueryStep \/ Report \/ ToolFails

Spec == Init /\ [][Next]_vars
-----------------------------------------------------------------------------
Row == [place : Picked, run : 1..MaxTickets, resolved : BOOLEAN]

\* also: nothing without a resolution is indexed, so no demo query is
TypeOK ==
  /\ tickets \in Seq(Row) /\ Len(tickets) <= MaxTickets
  /\ index \subseteq {n \in DOMAIN tickets : Fixture[tickets[n].place].group # "query"}
  /\ tool.pc \in {"idle", "query", "done", "failed"} /\ tool.name \in Tools \cup {None}

Text(n) == Fixture[tickets[n].place]
Together(q, t) == tickets[q].run = tickets[t].run /\ Text(q).cluster = Text(t).cluster

(* CONTEXT.md: tickets of one Duplicate Cluster share a root cause, and so  *)
(* they do when another run created one of them.                            *)
SameCause(q, t) ==
  /\ q # t /\ Text(q).cluster = Text(t).cluster
  /\ Text(q).group = "member" /\ Text(t).group = "member"

\* a twin of a sibling, left by a run that the manifest does not tell of
Leftover(q, t) == SameCause(q, t) /\ tickets[q].run # tickets[t].run
Siblings(q, t) == SameCause(q, t) /\ ~ Leftover(q, t)

Reported(name) == tool.pc = "done" /\ tool.name = name /\ origin = "here"

Copies(x, bag) == IF x \in DOMAIN bag THEN bag[x] ELSE 0

\* what the run of the tool has scored: query, candidate and score
Scored ==
  UNION {{<<tool.final[i][1].ticket_name, t, tool.final[i][2][t]>> :
            t \in DOMAIN tool.final[i][2]} : i \in DOMAIN tool.final}

Having(S, n) == Cardinality({x \in S : x[3] = n})
Listed(l) == Cardinality({i \in DOMAIN tool.labeled : tool.labeled[i] = l})

(***************************************************************************)
(* scripts/calibrate_threshold.py, eval/dataset.py: every scored pair is    *)
(* counted once, and the only ones under a wrong label are pairs with a     *)
(* ticket that another run left behind: those are taken for not relevant    *)
(* although they share the root cause (see LabelsAreTrue).                  *)
(***************************************************************************)
OnlyLeftoversMislabeled ==
  Reported("calibrate") =>
    LET scored     == Scored
        same       == {x \in scored : SameCause(x[1], x[2])}
        mislabeled == {x \in scored : Leftover(x[1], x[2])}
    IN \A n \in Score :
         /\ Listed(<<n, TRUE>>) = Having(same \ mislabeled, n)
         /\ Listed(<<n, FALSE>>) = Having((scored \ same) \cup mislabeled, n)

(***************************************************************************)
(* eval/run.py: the total counted for a cluster is the number of its        *)
(* members if the fixture has a near-miss for it, else 0; the hits are the  *)
(* number of those for which its near-miss passes the gate of               *)
(* retrieval/matching.py, which lets a score equal to the threshold         *)
(* through.  (Whether it is among the five that are shown plays no part.)   *)
(***************************************************************************)
Leaking ==
  {x \in Scored : /\ x[3] >= MatchThreshold
                  /\ Text(x[2]).mark = "near-miss" /\ Together(x[1], x[2])}

Members(c) == {p \in Picked : Fixture[p].group = "member" /\ Fixture[p].cluster = c}
HasNearMiss(c) == \E p \in Picked : Fixture[p].mark = "near-miss" /\ Fixture[p].cluster = c

LeakageIsTrue ==
  Reported("evaluate") =>
    LET leaking == Leaking
    IN \A c \in {Fixture[i].cluster : i \in Picked} :
         /\ Copies(c, tool.totals) = IF HasNearMiss(c) THEN Cardinality(Members(c)) ELSE 0
         /\ Copies(c, tool.hits) = Cardinality({x \in leaking : Text(x[1]).cluster = c})

(***************************************************************************)
(* scripts/calibrate_threshold.py: no other observed score makes a better   *)
(* gate for the pairs as they are labeled than the one recommended: F(0.5)  *)
(* is the weighted harmonic mean 5 * tp / (4 * shown + relevant), in whole  *)
(* numbers.                                                                 *)
(***************************************************************************)
ThresholdIsBest ==
  Reported("calibrate") =>
    LET scored    == Scored
        siblings  == {x \in scored : Siblings(x[1], x[2])}
        From(S, n) == Cardinality({x \in S : x[3] >= n})
        Tp(n)     == 5 * From(siblings, n)
        Weight(n) == 4 * From(scored, n) + Cardinality(siblings)
    IN /\ From(siblings, tool.threshold) > 0
       /\ \A n \in {x[3] : x \in scored} :
            Tp(n) * Weight(tool.threshold) <= Tp(tool.threshold) * Weight(n)
-----------------------------------------------------------------------------
(* What the documentation says and the code does not do: see README.        *)

(* scripts/calibrate_threshold.py: a candidate is labeled relevant if it is *)
(* a "true cluster sibling" and not if it is of another cluster or a        *)
(* Distractor; so the relevant ones are those that share the root cause.    *)
LabelsAreTrue ==
  Reported("calibrate") =>
    LET scored == Scored
        same   == {x \in scored : SameCause(x[1], x[2])}
    IN \A n \in Score :
         /\ Listed(<<n, TRUE>>) = Having(same, n)
         /\ Listed(<<n, FALSE>>) = Having(scored \ same, n)
=============================================================================
