# TLA+ models of ticket-match-rag

The service keeps, for every ticket of a Frappe Helpdesk, the Matches to show
beside it: resolved tickets with a similar text. This directory holds TLA+
modules of its core, TLC configurations that check them on small instances, and
theorems checked by TLAPS. Paths are relative to the repository.

## Inventory of the system

| Component | State | Operations | Hard behaviour | Correct when |
|---|---|---|---|---|
| Frappe Helpdesk (external) | tickets, webhook jobs | save, delete, deliver, retry | changes at any time, also between two calls of the service; sends a name only; gives up | — |
| Helpdesk client (`ingestion/helpdesk_client.py`) | none | `get_ticket` (404 when trashed), `list_reusable_tickets` by offset pages | pages of a list that changes meanwhile | the list holds every Reusable Ticket |
| Webhook handler (`ingestion/webhook_handler.py`) | none | verify, refetch, upsert or delete the point, mark, populate a new Query Ticket's row | any call fails half-way; webhooks are repeated, lost, late | the index follows the Helpdesk; a new Query Ticket gets a row |
| Match API (`api/main.py`) | none | `GET /tickets/{name}/matches`, `POST /ingest/full`, startup | handlers hold the event loop to their end; a full ingest works off an old list | a row is served whenever there is one; a stale one leads to a refresh |
| Background refresher (`api/refresh.py`) | in-flight set, tasks (in memory) | `schedule`, `_run` | threads beside the event loop; exceptions; restarts | one refresh per ticket at a time; no name is left behind |
| Match cache (`db/cache.py`) | Postgres rows: Matches, `stale` | `get`, `put`, `mark_all_stale`, `delete` | `put` clears the flag whatever was marked meanwhile | a row the index has moved away from is flagged |
| Choke point (`retrieval/indexing.py`) | none | `index_ticket`, `deindex_ticket` | two stores, no transaction | index mutation and mark go together |
| Vector store (`retrieval/vector_store.py`) | Qdrant points, one per ticket | upsert, retrieve-then-delete, search, `ensure_collection` | check-then-act | one point per ticket |
| Retrieval and gate (`retrieval/`, `ingestion/embedder.py`) | none | `compute_matches`: fetch, search 20, rerank, threshold, drop itself, cut to 5 | limits of pool, gate and cut | only Matches above the threshold, best first, never itself |
| Authentication (`api/auth.py`) | none | `require_api_key` | runs in the threadpool the refreshes use | fails closed |
| Configuration (`config.py`, `.env`) | the values a process read when it started | read at import | API, script and Helpdesk hold values of different times | rows of an old threshold go; a changed secret is put right |
| Startup and deployment (`_lifespan`, `build_pipeline`, compose files) | the collection, the table, the processes | check and create the collection, create the table, restart | two starts race; a store is not up yet | the API comes up |
| Registration (`scripts/register_webhook.py`) | Webhook documents in the Helpdesk | delete those of the address, create two | any call fails in between; names are fixed | after a run that came to its end both events are accepted |
| Seeding (`scripts/seed_helpdesk.py`) | tickets, `data/seed_manifest.json` | create and resolve every ticket of the fixture, write the manifest | fails in between and leaves tickets behind, or a broken manifest; one manifest for all sites | a manifest that can be read describes one whole run |
| Evaluation (`eval/`) | none | queries, relevance, leakage of near-misses | tickets no manifest knows are indexed, too | the counts are those of the gate |
| Calibration (`scripts/calibrate_threshold.py`) | none | label the scores, sweep for the best F0.5 | zero counts, ties, rounding | no other observed score is a better gate |
| `scripts/stress_test.py`, `frappe_bridge/`, `nginx/` | — | load, copied UI files, proxy | — | — |

How they interact: Frappe calls the webhook route; the bridge app in Helpdesk
(another repository) calls `GET /tickets/{name}/matches`; an operator calls
`/ingest/full`. One uvicorn process runs the route handlers. They are `async
def` functions that do not await once they have their request, so a handler
runs on the event loop to its end and no other handler runs beside it. A
refresh is a synchronous background task: it starts after the response, in a
thread, beside the event loop and beside other refreshes. Qdrant and Postgres
are separate services that outlive the process; the in-flight set does not.

## What is modelled

| Module | Code | Content |
|---|---|---|
| `Tickets` | domain of `CONTEXT.md`, `compute_matches` | records, eligibility, rows, `MatchesOf` |
| `HelpdeskClient` | `ingestion/helpdesk_client.py` and the external Helpdesk | tickets, webhooks under way, `GetTicket`, `ListReusable` |
| `VectorStore` | `retrieval/vector_store.py` | the index, `Upsert`, `Exists`/`DeletePoint`, `Search` |
| `MatchCache` | `db/cache.py`, `db/schema.sql` | the rows, `Put`, `MarkAllStale` |
| `Refresher` | `api/refresh.py` | in-flight set, task slots, `Schedule`, `Finish`, `InFlightExact` |
| `Service` | `api/main.py`, `ingestion/webhook_handler.py`, `retrieval/indexing.py`, `retrieval/matching.py` | composes the five: the handlers on the event loop, the tasks, failures, restarts |
| `FullIngest` | `_list_all_tickets`, `ingest_full` | the list as a sequence read page by page while the Helpdesk changes; the entries indexed in the order read |
| `Ranking` | `compute_matches`, `Reranker.rerank`, `HybridSearch.search` | the candidate pool, the stable sort, the gate, the cut, over every order and score of a few points |
| `Selection` | `sorted`, a filtered list comprehension and a slice, as the code uses them | what they return, by the place each element takes |
| `Mirror` | — | abstract: a copy that follows a source, what `Service` promises of the index |
| `Config` | `config.py`, `.env` | the values that matter here, and their change by an operator |
| `Startup` | `build_pipeline`, `ensure_collection`, `ensure_schema`, `_lifespan` | the starts of the API and of the tools, call by call, racing for the collection |
| `Registration` | `scripts/register_webhook.py` | the Webhook documents and the run of the script, call by call |
| `Deployment` | `verify_signature`, `api/auth.py`, the threshold in `compute_matches`, compose files | composes the three above with one row of the cache and a refresh |
| `Seeding` | `scripts/seed_helpdesk.py` | the fixture by groups, clusters and marks; the run, call by call |
| `Evaluation` | `eval/`, `scripts/calibrate_threshold.py` | composes the seeded Helpdesk with the index and a run of either tool |
| `ServiceProofs`, `MirrorProofs`, `DeploymentProofs`, `SelectionProofs`, `FullIngestProofs`, `RankingProofs`, `EvaluationProofs` | — | the theorems |
| `MCService`, `MCRanking`, `MCDeployment` | — | instances for TLC |

`loop[p]` is the handler on the event loop of process `p`: its `pc` names the
next call (`hook_*` for the webhook route, `get_schedule` and `miss_*` for the
read, `ingest_*` for the full ingest), the other fields are its local
variables. `tasks[p][s]` is a background task with its own `pc`: `scheduled`,
`fetched` (has the text), `searched` (has the Matches), `finish` (only the
`finally` clause is left). Each action is one call to the Helpdesk, Qdrant or
Postgres with the computation around it; between any two of them the Helpdesk
may change and other tasks may step.

Failures: `HandlerFail` ends a handler before the effect of its next call, with
404 or 500; Frappe sends an unanswered webhook again or gives up (`Unanswered`).
A call that takes effect and then raises is the next action followed by a
failure. `TaskFail` sends a task to its `finally` clause. `Crash` forgets the
handler, the tasks and the in-flight set of a process; the stores stay.

Abstractions. A subject with its description is one value of `Text`; which
texts are similar enough is the constant relation `Alike`. The candidate pool
of 20 and the cut to 5 do not bind at two tickets and are left to `Ranking`,
whose `AgreesWithMatchesOf` says when the two agree. `pending` is a set: a
webhook carries a name only and its handler refetches, so two for the same
ticket do what one does; an unchanged save (`Update` with the same record) fires
another. The list of `/ingest/full` is read in one step, which is right for one
page of 100, and its tickets are indexed in any order, since the request asks
for none; `FullIngest` reads pages and keeps their order. A fresh hit changes
nothing and is not an action.

`FullIngest` is not composed with webhooks: the handler holds the event loop
while it runs, so only the Helpdesk acts beside it. The order of the REST list is
external; the code names none, so a saved ticket moves to the front or stays,
and a new one comes first. In `Ranking` a score is a small integer, one per
ticket and query, and a mutation may reorder all points, since Qdrant's term
statistics change with every upsert and deletion.

`Deployment` looks at the service over months where `Service` looks at minutes.
`env` is what `.env` says, `conf` what the API read at its start, `script.conf`
what the last run of the script read, `hooks` what the Helpdesk signs with; a
delivery is `Accepted` if address and secret of the Webhook are those of the
API: `verify_signature` compares the secret, and a Webhook with another address
does not reach the API at all. A delivery marks the one row in one step and a read computes its Matches in
one, since `Service` has those steps, and also what a delivery does when no point
is found or a row is to be populated; a Match is its score, so that `Gate` says
which are shown. A refresh keeps its two steps: what it has in hand may be of the
old gate. A failing call ends the process or the script that made it; what it
did stays done. That Qdrant refuses to create a collection twice and Frappe to
insert a name twice is how these services answer, modelled from outside.

`Evaluation` composes `Seeding` with the index and one run of a tool. Of a ticket's
text it knows the place in the fixture; the score of a query and a candidate is
any function of the candidate's place, so that a ticket of an unfinished run
scores like its twin. Nobody seeds while a tool runs (its usage says to seed
first), but a full ingest may step in between two queries. The manifest is written
as the code does it: opening the file empties it (`OpenManifest`), then it is
filled (`WriteManifest`), and a failure between the two leaves `Partial`, which no
tool can read. `SeedElsewhere` is a whole run against another site, seen from
here: it only overwrites the file, with names that begin anywhere in `Elsewhere`.
The history variable `origin` tells which site the file is of. All candidates are
scored, where the code takes a pool of 20: the shipped fixture has more Reusable
Tickets than that, and no property depends on which of them are scored. Fractions
are compared exactly. Python compares floats, which may order two equal fractions either way:
with four relevant pairs, a cut with 1 right and 4 wrong and one with 2 right and
9 wrong have the same F0.5. `BestThresholds` therefore keeps every threshold
that some rounding of the ties leads to, and the rule that the docstring of
`_best_threshold` states for ties is not claimed.

What the code sorts, filters, slices or sweeps through is defined without
recursion. `Arranged` puts an element where its number of predecessors says;
`Selected` and `Slice` name the positions that are kept; `Sweeps` says of a list
of bests how each follows from the one before. TLC evaluates these definitions as
they stand, and facts about them need no induction over sequences. `Rerank` keeps
Python's stability, and `BestThresholds` the order of its sweep.

Three history variables serve the statement of `FlagExact` and
`IndexTracksHelpdesk`; no action reads them. `overtaken`: tickets whose row was
last written by a refresh with Matches the index no longer gave. `missed`: a
handler ended between an index mutation and its mark, and no mark came since.
`lost`: tickets whose last webhook was given up.

## What is checked

| Run | Specification | Instance | Shows |
|---|---|---|---|
| `service_safety` | `Spec` | 1 process, 2 tickets, 1 text, 2 resolutions, 2 edits, 1 fault | `TypeOK`, `InFlightExact`, `IndexTracksHelpdesk`, `FlagExact`, `IndexMirrorsHelpdesk` |
| `service_reads` | `ReadingFromQuery` | 2 texts, 1 resolution, 1 edit, 1 fault | `StaleRowHeals`, `InFlightReleased` |
| `service_webhooks` | `ProgressFromNew` | 1 text, 1 resolution, 2 edits, no fault | `PopulatedOnCreate`, `IndexConverges` |
| `overtaken_refresh` | `Spec` | 1 edit, no fault | violates `SettledRowsAreCurrent` |
| `interrupted_deindex` | `Spec` | 1 edit, 1 fault | violates `IndexAndFlagAgree` |
| `full_ingest` | `Spec` | 3 tickets, pages of 1, 2 resolutions, 2 edits | `TypeOK`, `SkipsAtMostOnePerTrash`, `LastListedWins` |
| `shifted_page` | `Spec` | the same, 1 edit | violates `WalksEveryReusable` |
| `ranking` | `Spec` | 5 tickets, 3 scores, pool 4, cut 2 | `TypeOK`, `MatchesAreBest`, `AgreesWithMatchesOf`, `NewcomerOnlyDisplaces` |
| `deployment` | `CompleteFairSpec` | 2 secrets, 2 addresses, 2 thresholds, 1 tool, 2 changes, 1 fault | `TypeOK`, `RaceIsLostOnce`, `CompletedRunDelivers`, `OldGateGoesWithMark`, `ApiComesUpAgain`, `RegistrationHeals` |
| `moved_port` | `CompleteSpec` | 2 addresses, 1 change, no fault | violates `RerunLeavesNoStale` |
| `evaluation` | `Spec` | 5 places of the fixture, 6 tickets, 3 scores, the other site begins at 7 | `TypeOK`, `ManifestIsComplete`, `OnlyLeftoversMislabeled`, `LeakageIsTrue`, `ThresholdIsBest` |
| `leftover_twin` | `Spec` | 2 places, 3 tickets, 1 score, no other site | violates `LabelsAreTrue` |

- `InFlightExact`: in every process the in-flight set holds exactly the tickets
  of the live tasks, each in one task.
- `IndexTracksHelpdesk`: a point that differs from what the Helpdesk calls for
  belongs to a ticket whose webhook is under way, in hand, or lost.
- `IndexMirrorsHelpdesk`: `Service` implements `Mirror`, with what the Helpdesk
  calls for as the source, the index as the copy, and owed what is announced, in
  hand or lost. Beyond the invariant it says how the index gets there: no step
  touches the point of a ticket that is in order, and a ticket is in order at the
  very step after which nothing is owed for it.
- `FlagExact`: a fresh row whose Matches no search of the index returns was put
  by an overtaken refresh, or a mark was missed by a failure, or the mark is the
  next step. The live-miss path never writes such a row.
- `SkipsAtMostOnePerTrash`: a request that did not fail leaves at most one
  untouched Reusable Ticket unindexed for every ticket trashed while it ran.
- `LastListedWins`: a ticket listed twice ends with the Reusable record listed
  last; a later listing without a resolution is filtered out and leaves the point
  of the earlier one.
- `MatchesAreBest`: the Matches are the best candidates over the threshold, by a
  definition without sorting. `NewcomerOnlyDisplaces`: while the points fit the
  pool, a new ticket only pushes others out; whatever comes in beside it was
  level with one that goes.
- `StaleRowHeals`: no row stays stale for ever if agents keep opening its ticket,
  and one that is marked again and again comes to hold the Matches of the text the
  ticket has. For an edited text nothing promises more: its webhook finds no point
  and a row, so it neither marks nor schedules, and reads find a fresh row. Until
  some other ticket enters or leaves the index, the Matches of the old text are
  served. `docs/adr/0011-lazy-match-cache-revalidation.md:130-131` says that a row is
  "only as fresh as" the last read of its ticket, and does not speak of such an edit.
- `InFlightReleased`: every name leaves the in-flight set again.
- `PopulatedOnCreate`, `IndexConverges`: see the comments in `Service.tla`. Both are
  checked without faults: they say nothing of a populate that fails, which nobody
  tries again before the ticket is saved or opened.
- `RaceIsLostOnce`: no more starts are lost to the race for the collection than
  there are tools. `ApiComesUpAgain`: whatever fails, the API is up again and again.
- `CompletedRunDelivers`: after a run of the script that came to its end, an API
  with the same secret and address accepts both events. `RegistrationHeals`: after
  half a run or a change of the secret, deliveries are accepted again in the
  end — unless the address changed, see finding 4.
- `OldGateGoesWithMark`: after a restart with another threshold and one index
  mutation, no fresh row shows the Matches of the old gate. Until that mutation
  the old rows are served as fresh ones; the code does not mark them.
- `ManifestIsComplete`: a manifest of this site that can be read accounts for the
  whole fixture with tickets of one run. It does not say that there is one: a run
  that fails while it writes has emptied the file, and the earlier manifest is gone.
  Nor does it say anything of the file after a run against another site
  (`--base-url`): the script writes `data/seed_manifest.json` all the same, the local
  ground truth is gone, and the tools cannot tell. `README.md:136-137` has a file of
  its own, `seed_manifest.prod.json`, for production; no code writes or reads it.
- `OnlyLeftoversMislabeled`: calibration counts every scored pair once; measured
  by the shared root cause of `CONTEXT.md:23-28`, the pairs under a wrong label are
  exactly those of siblings that different runs created. See finding 5.
- `LeakageIsTrue`: the total of a cluster is the number of its members if there is
  a near-miss for it, else zero, and its hits are those for which the near-miss
  passes the gate; whether it would be among the five shown is not asked.
- `ThresholdIsBest`: no other observed score has a greater F0.5 for the pairs as
  they are labeled; stated by the harmonic mean in whole numbers.

Bounds of `FullIngest` and `Ranking`: pages of one put a page boundary after every
ticket, three tickets leave one on each side of it, and two edits move it twice.
Pool 4 and cut 2 both bind and both do not among five points, the ticket itself
being one of them; three scores lie under, on and over the threshold, and three
points that pass before a fourth comes leave one to be cut off. The tickets but
the queried one are interchangeable (symmetry; no liveness is checked there).

Bounds of `Deployment`: `MaxChanges` 2 lets the secret and the address, or a value
and its restoration, change around one run; `MaxFaults` 1 breaks any one start or
run at any call; both calls of a start are also raced by the tool. Runs of the
script, restarts, reads and deliveries are unbounded. The environment is complete
at first, and unset secrets come with a change. Bounds of `Evaluation`: `Picked`
takes of the fixture a member and the paraphrase of one cluster, a member of
another, the near-miss of the first and a demo query, so that siblings,
strangers and near-misses all meet; `MaxTickets` leaves room for one ticket of an
unfinished run beside a whole one. `Elsewhere` begins past `MaxTickets` in
`evaluation`, whose properties speak of this site only: what a run elsewhere
writes is read, and no query of it exists. The theorems hold for every `Elsewhere`.
`OneNearMissPerCluster`, which TLC evaluates
over the whole fixture, is what `near_miss_by_cluster` needs to keep every
near-miss. The pool of 20 holds all of the index here.

Bounds of `Service`. `MaxEdits` (saves and deletions) and `MaxFaults` (failing
calls and crashes) are the only caps on behaviours; reads, ingests and refreshes are
unbounded. Two tickets are one that is searched for and one that is found, and
each of them can be either; two edits let a second change overtake the handling
of the first; two resolutions let an old record and a newer one be told apart.
Two slots hold as many tasks as there are tickets, which `InFlightExact` shows
to be enough. The temporal runs start from one Reusable Ticket beside a
Query Ticket, or beside a ticket still to be created, and use no symmetry; in
`service_reads` a second text lets an edit change what is similar to what.

Fairness. `Progress`: a handler or task that has begun takes its next step
(weak fairness; the calls it makes return or raise — the code sets no timeout
on them, so this assumes that the Helpdesk, Qdrant and Postgres answer in the
end); a webhook under way is accepted in the end (strong fairness, since the
loop is busy again and again; connections are served in order of arrival).
`Reading`, for `StaleRowHeals` and `InFlightReleased` only: agents open every
ticket again and again. The documentation promises no more: a row nobody reads stays
stale. Nothing is assumed of edits, ingests, failures and crashes.

`Progress` in `Deployment`: Docker restarts the API (`restart: unless-stopped`) and
a start or a run of the script that has begun goes on; the operator recreates
the container after a change of `.env` (`docs/DEPLOYMENT.md:105`) and runs the
script until a run with the present configuration came to its end, all weakly
fair. Tools, deliveries, reads, changes and faults are under no fairness.

### Findings

1. `overtaken_refresh`. A refresh searches; a webhook changes the index and
   marks every row; the refresh puts its older Matches and thereby clears the
   mark. `docs/ARCHITECTURE.md:122` promises that the next read sees fresh
   Matches; the row is flagged fresh and no read refreshes it until the next
   mutation. No call fails in this behaviour.
2. `interrupted_deindex`. `deindex_ticket` deletes the point, then the mark
   fails. The repeated webhook finds no point and therefore does not mark. Index
   and flags have drifted apart, which `retrieval/indexing.py:5-7` rules out.
3. `shifted_page`. A ticket already listed is trashed between two pages; the
   rest moves up and the offset skips one. `docs/ARCHITECTURE.md:112` says that
   `/ingest/full` walks every Reusable Ticket.
4. `moved_port`. The script is run, the port in `API_WEBHOOK_URL` is changed, the
   script is run again. It asks for Webhooks of the new address, so those of the
   old one stay; the new ones would have their names, so Frappe refuses the first
   and the script fails. The docstring of `scripts/register_webhook.py` (12-15)
   says that this leaves no stale Webhook. For a changed secret it holds.
5. `leftover_twin`. A run of `scripts/seed_helpdesk.py` is broken off, another one
   comes to its end. The ticket the first one left is indexed and has the text and
   the fix of a member, hence its root cause, which is what makes a Duplicate
   Cluster (`CONTEXT.md:23-28`). The manifest does not name it, so calibration
   labels it not relevant, where `scripts/calibrate_threshold.py:5-8` keeps that
   label for members of other clusters and Distractors. A whole second run, as
   `docs/adr/0003-eval-dataset-hard-cases.md:37` asks for, leaves more of them.

## What is proved

`ServiceProofs.tla`, `MirrorProofs.tla` and `Mirror.tla`, for all values of the
constants — any number of tickets, texts, resolutions, task slots, edits and
faults, any relation `Alike`. The assumptions are `DistinctValues`, `NoneIsNoTask`
(`None` and `Trashed` are not values of the sets they are added to) and
`AlikeType`.

| Theorem | Statement | Argument |
|---|---|---|
| `TypeCorrect` | `Spec => []TypeOK` | `TypeInv` adds to `TypeOK` what a handler or task about to write carries: a Reusable record before an upsert, a record before a search, a ticket name everywhere |
| `InFlightCorrect` | `Spec => []InFlightExact` | inductive together with `TypeInv`; one lemma each for `Schedule`, `Finish`, a move within a slot, and a restart; any number of processes |
| `IndexCorrect` | one process: `Spec => []IndexTracksHelpdesk` | `SourceInv` adds that the record a handler is about to write, fetched or listed earlier, is still the wanted one or a newer one is announced |
| `FlagCorrect` | one process: `Spec => []FlagExact` | `FlagInv` adds `MissIsCurrent`: between the search and the put of a live miss the index cannot change, since only the event loop changes it |
| `IndexMirrors` | one process: `Spec => IndexMirrorsHelpdesk` | one lemma for each kind of step of `Mirror` and for the stutter; `SourceInv` justifies the steps that write the index |
| `CopyFollows` | `Mirror`: `Spec => [](TypeOK /\ Follows)` | inductive as it stands: only `Settle` ends what is owed |

`OneProcess` in the last three is what the deployment guarantees (one uvicorn
process) and what they need: with two, a handler of the other process can step
between the fetch and the upsert, or between the search and the put.

`DeploymentProofs.tla`, for all secrets, addresses, thresholds, finite sets of
tools, changes and faults, from `NoneIsNoValue`, `NoneIsNoHook`, `ApiIsNoTool` and
`FewTools`:

| Theorem | Statement | Argument |
|---|---|---|
| `DeploymentTypeCorrect` | `Spec => []TypeOK` | `TypeInv` adds that a run of the script past its first check has a secret |
| `OldGateGone` | `Spec => []OldGateGoesWithMark` | `GateInv` adds that a refresh in hand is one of the running API with its gate, and that nothing is marked while the API comes up |
| `CompletedRunWorks` | `Spec => []CompletedRunDelivers` | `HookInv` adds that a document the present run has written is still there after its next call |
| `RaceLostAtMostOnce` | `Spec => []RaceIsLostOnce` | `RaceInv` counts the starts lost so far and those that still will be: once the collection is there, nobody joins them, and who created it was not one |

`FullIngestProofs.tla`, for any page size, number of tickets, edits and deletions
between the pages, from `TicketsFinite` and `PageSizeType`:

| Theorem | Statement | Argument |
|---|---|---|
| `IngestTypeCorrect` | `Spec => []TypeOK` | inductive as it stands: taking a name out of the list and putting it first keeps every name once |
| `SkipsAreBounded` | `Spec => []SkipsAtMostOnePerTrash` | `SkipInv` counts, while the pages are read, the steady tickets that lie before the offset and were not read: a deletion moves one ticket across the offset and no more, a ticket that moves to the front moves the others away from it |
| `LastListedIsIndexed` | `Spec => []LastListedWins` | `LatestInv` adds that, of the entries read for a ticket, the last one with a resolution is the record listed last |

`RankingProofs.tla`, for any tickets, scores, pool, cut and threshold, from
`RankingConstants`:

| Theorem | Statement | Argument |
|---|---|---|
| `RankingTypeCorrect` | `Spec => []TypeOK` | inductive as it stands |
| `ComputedAreBest` | of `ComputeMatches`, for every order and all scores | `Rerank` holds the candidates in falling order, the gate keeps the order, a cut of what falls leaves out nothing better |
| `ShowsTheBest` | `Spec => []MatchesAreBest` | from the two above |
| `AgreesWithTheService` | `Spec => []AgreesWithMatchesOf` | a pool and a cut that do not bind take nothing away |
| `NewcomersOnlyDisplace` | `Spec => NewcomerOnlyDisplaces` | if a ticket came in and no shown one of its score went, the newcomer and all that was shown would be before it, more than the cut leaves room for |

`EvaluationProofs.tla`, for any part of the fixture, any number of tickets, runs,
failures and runs elsewhere, any scores and threshold, from `PickedOfFixture`,
`NoneIsNoMark`, `OneNearMissPerCluster` and `ScoresAreNaturals`:

| Theorem | Statement | Argument |
|---|---|---|
| `ManifestAlwaysComplete` | `Spec => []ManifestIsComplete` | `SeedInv`: the tickets of a run are numbered in a row and follow the fixture (`Placed`), also those of a run that failed, and the rows noted so far say the truth of them (`Accounts`); of a broken file or one of another site nothing is said |
| `EvaluationTypeCorrect` | `Spec => []TypeOK` | `SeedInv` adds that a demo query is never resolved |
| `OnlyLeftoversAreMislabeled` | `Spec => []OnlyLeftoversMislabeled` | `EvaluationInv`: the list of labels is in bijection with the pairs scored, each pair under the label its runs and clusters call for, since the manifest read at the start still describes its tickets |
| `LeakageAlwaysTrue` | `Spec => []LeakageIsTrue` | `EvaluationInv`: the hits per cluster are the leaking pairs scored so far, the totals the queries gone through; in the end these are in bijection with the members in the fixture |
| `ThresholdAlwaysBest` | `Spec => []ThresholdIsBest` | the best of a sweep is behind no candidate so far (a least counterexample contradicts its step); `Less` is transitive on fractions; precision and recall cancel to whole numbers |

`SelectionProofs.tla` has the theorems about the definitions that these rest on:
`ArrangedSorts`, `SelectedKeepsOrder` and `SliceHolds`, for every finite set, strict
total order and sequence.

So every invariant and every action property of a passing run is a theorem of its
specification. Left to TLC: the liveness properties `StaleRowHeals`,
`InFlightReleased`, `PopulatedOnCreate`, `IndexConverges`, `ApiComesUpAgain` and
`RegistrationHeals` (they rest on fairness, hence on ENABLED, which TLAPS does not
do), and the violations, which are behaviours of small instances anyway.

## What is not modelled, and the plan

Not modelled: the threadpool shared by the authentication and the refreshes (no
call has a timeout, so the models assume that every call returns); the answers
given to requests, such as the 404 for every failure of the live pipeline; a
second API process, which the deployment does not have (`InFlightExact` alone
is proved for any number); vectors and their sizes; `MatchCache.delete`, which
only the load generator calls. Out of scope: the embedding models and the
reranker's scores (numeric), Qdrant's fusion, the metrics of `eval/run.py` (a
library), the ticket texts, `scripts/stress_test.py`, the copied Helpdesk UI
files, the proxy and the image build.

Plan: two replicas in `Service` and what the second one breaks; an abstract
specification of the registration (the documents in the Helpdesk follow the last
run that came to its end) and its refinement.
