------------------------------ MODULE Startup ------------------------------
(***************************************************************************)
(* How the processes of the repository start: the API (_lifespan in         *)
(* api/main.py, build_pipeline) and the tools that build the same pipeline  *)
(* for themselves (eval/run.py, scripts/calibrate_threshold.py).  Each looks *)
(* whether the Qdrant collection exists and creates it if not: two calls.   *)
(* Qdrant rejects the creation of a collection that exists; the exception   *)
(* ends the process.  Docker starts the API again (restart: unless-stopped), *)
(* nobody does so for a tool.                                               *)
(***************************************************************************)
EXTENDS Config, FiniteSets

CONSTANTS
  Api,    \* the API process
  Tool    \* processes of eval.run and calibrate_threshold

ASSUME ApiIsNoTool == Api \notin Tool
ASSUME FewTools == IsFiniteSet(Tool)

Process == {Api} \cup Tool

VARIABLES
  proc,        \* process -> where it is
  conf,        \* the environment the API read when it started, None if it is
               \* down; what a tool read is not followed
  collection,  \* the Qdrant collection exists
  table,       \* the Postgres table ticket_matches_cache exists
  losses       \* history: starts that ended because the collection was there

startupVars == <<proc, conf, collection, table, losses>>

StartPc == {"check", "create", "warm", "schema"}

StartupTypeOK ==
  /\ proc \in [Process -> {"down", "up"} \cup StartPc]
  /\ conf \in Env \cup {None}
  /\ collection \in BOOLEAN /\ table \in BOOLEAN
  /\ losses \in Nat

\* fresh volumes, or those of an earlier deployment
StartupInit ==
  /\ proc = [p \in Process |-> "down"]
  /\ conf = None
  /\ \E used \in BOOLEAN : collection = used /\ table = used
  /\ losses = 0

Move(p, pc) == proc' = [proc EXCEPT ![p] = pc]
End(p) == Move(p, "down") /\ conf' = IF p = Api THEN None ELSE conf

\* the interpreter imports config; the embedding models are loaded
Start(p) ==
  /\ proc[p] = "down"
  /\ Move(p, "check")
  /\ conf' = IF p = Api THEN env ELSE conf
  /\ UNCHANGED <<collection, table, losses>>

\* mutant: creates without a look
CheckNothing(p) ==
  /\ proc[p] = "check"
  /\ Move(p, "create")
  /\ UNCHANGED <<conf, collection, table, losses>>

\* ensure_collection, get_collections
CheckCollection(p) ==
  /\ proc[p] = "check"
  /\ Move(p, IF collection THEN "warm" ELSE "create")
  /\ UNCHANGED <<conf, collection, table, losses>>

\* ensure_collection, create_collection
CreateCollection(p) ==
  /\ proc[p] = "create"
  /\ IF collection THEN End(p) /\ losses' = losses + 1
                   ELSE Move(p, "warm") /\ UNCHANGED <<conf, losses>>
  /\ collection' = TRUE
  /\ UNCHANGED table

\* the rest of build_pipeline; a tool needs no cache
WarmUp(p) ==
  /\ proc[p] = "warm"
  /\ Move(p, IF p = Api THEN "schema" ELSE "up")
  /\ UNCHANGED <<conf, collection, table, losses>>

\* ensure_schema: IF NOT EXISTS throughout; then the routes are there
EnsureSchema(p) ==
  /\ proc[p] = "schema"
  /\ Move(p, "up")
  /\ table' = TRUE
  /\ UNCHANGED <<conf, collection, losses>>

StartStep(p) == CheckCollection(p) \/ CreateCollection(p) \/ WarmUp(p)
                \/ EnsureSchema(p)

\* a call to Qdrant or Postgres fails, the process is killed, or it is done
Stop(p) ==
  /\ proc[p] # "down"
  /\ End(p)
  /\ UNCHANGED <<collection, table, losses>>

(***************************************************************************)
(* retrieval/vector_store.py, ensure_collection: the check and the creation *)
(* are two calls, so a start may find the collection created in between and *)
(* fail.  That happens to each process but one at most once in the life of  *)
(* the collection, so a restart always gets past it.                        *)
(***************************************************************************)
Creating == {p \in Process : proc[p] = "create"}

RaceIsLostOnce == losses <= Cardinality(Tool)
=============================================================================
