----------------------------- MODULE Deployment -----------------------------
(***************************************************************************)
(* A deployment over time: the environment changes, the API is started and  *)
(* stopped, the script is run, and every process goes by the environment it *)
(* read when it started.  The Helpdesk signs deliveries with the secret in  *)
(* its Webhook document; the API checks them against its own.  Of the Match *)
(* cache there is one row, of the Matches their scores.                     *)
(***************************************************************************)
EXTENDS Startup, Registration

CONSTANTS
  BridgeKey,   \* the API key the bridge app sends
  MaxFaults    \* bound: failing calls and crashes in a behaviour

VARIABLES
  row,      \* the cached Matches of a ticket, None if there is no row
  refresh,  \* Matches a background refresh has computed and not yet put
  marked,   \* history: an accepted delivery marked the rows since the API began
  faults    \* number of faults so far

cacheVars == <<row, refresh>>
vars == <<configVars, startupVars, registrationVars, cacheVars, marked, faults>>

Row == [shown : SUBSET Score, stale : BOOLEAN]

TypeOK ==
  /\ ConfigTypeOK /\ StartupTypeOK /\ RegistrationTypeOK
  /\ row \in Row \cup {None}
  /\ refresh \in (SUBSET Score) \cup {None}
  /\ marked \in BOOLEAN
  /\ faults \in Nat

Init ==
  /\ ConfigInit /\ StartupInit /\ RegistrationInit
  /\ row = None /\ refresh = None
  /\ marked = FALSE
  /\ faults = 0

Up == proc[Api] = "up"
Fault == faults < MaxFaults /\ faults' = faults + 1
-----------------------------------------------------------------------------
\* an operator edits .env
EditEnv ==
  /\ Edit
  /\ UNCHANGED <<startupVars, registrationVars, cacheVars, marked, faults>>

\* mutant: no restart policy
StartProcessOnce(p) ==
  /\ p = Api => faults = 0
  /\ Start(p)
  /\ marked' = (marked /\ p # Api)
  /\ UNCHANGED <<configVars, registrationVars, cacheVars, faults>>

\* Docker starts the API; somebody starts a tool
StartProcess(p) ==
  /\ Start(p)
  /\ marked' = (marked /\ p # Api)
  /\ UNCHANGED <<configVars, registrationVars, cacheVars, faults>>

StartingStep(p) ==
  /\ StartStep(p)
  /\ UNCHANGED <<configVars, registrationVars, cacheVars, marked, faults>>

\* mutant: refreshes run in a worker that outlives the API
ForgetNothing(p) == UNCHANGED refresh

\* a background refresh dies with its process
ForgetRefresh(p) == refresh' = IF p = Api THEN None ELSE refresh

\* a failing call, a crash
Crash(p) ==
  /\ Fault
  /\ Stop(p)
  /\ ForgetRefresh(p)
  /\ UNCHANGED <<configVars, registrationVars, row, marked>>

\* up --force-recreate app, for a changed environment
Recreate ==
  /\ conf # None /\ conf # env
  /\ Stop(Api)
  /\ ForgetRefresh(Api)
  /\ UNCHANGED <<configVars, registrationVars, row, marked, faults>>

ToolEnds(p) ==
  /\ p \in Tool /\ proc[p] = "up"
  /\ Stop(p)
  /\ UNCHANGED <<configVars, registrationVars, cacheVars, marked, faults>>

\* the operator runs the script
RunScript ==
  /\ BeginScript
  /\ UNCHANGED <<configVars, startupVars, cacheVars, marked, faults>>

ScriptGoesOn ==
  /\ ScriptStep
  /\ UNCHANGED <<configVars, startupVars, cacheVars, marked, faults>>

ScriptBreaks ==
  /\ Fault
  /\ ScriptFail
  /\ UNCHANGED <<configVars, startupVars, cacheVars, marked>>
-----------------------------------------------------------------------------
(* What becomes of an event e of an HD Ticket: nobody is told, the Webhook  *)
(* points nowhere, verify_signature answers 500 or 401, or it is accepted.  *)
Accepted(e) ==
  /\ Up
  /\ hooks[e] # None /\ hooks[e].url = conf.url
  /\ conf.secret # None /\ hooks[e].secret = conf.secret

\* the index is updated and every row marked; Service.tla has the steps
Deliver(e) ==
  /\ Accepted(e)
  /\ row' = IF row = None THEN None ELSE [row EXCEPT !.stale = TRUE]
  /\ marked' = TRUE
  /\ UNCHANGED <<configVars, startupVars, registrationVars, refresh, faults>>

\* require_api_key: 500 if no key is configured, 401 for another one
Admitted == Up /\ conf.key # None /\ BridgeKey = conf.key

Gate(threshold) == {n \in Score : n >= threshold}

\* a read that finds no row
ReadMiss ==
  /\ Admitted
  /\ row = None
  /\ row' = [shown |-> Gate(conf.threshold), stale |-> FALSE]
  /\ UNCHANGED <<configVars, startupVars, registrationVars, refresh, marked, faults>>

\* a read that finds a stale row; the refresh it schedules searches
ReadStale ==
  /\ Admitted
  /\ row # None /\ row.stale
  /\ refresh = None
  /\ refresh' = Gate(conf.threshold)
  /\ UNCHANGED <<configVars, startupVars, registrationVars, row, marked, faults>>

PutRefresh ==
  /\ refresh # None
  /\ row' = [shown |-> refresh, stale |-> FALSE]
  /\ refresh' = None
  /\ UNCHANGED <<configVars, startupVars, registrationVars, marked, faults>>

Next ==
  \/ EditEnv
  \/ \E p \in Process : StartProcess(p) \/ StartingStep(p) \/ Crash(p) \/ ToolEnds(p)
  \/ Recreate
  \/ RunScript \/ ScriptGoesOn \/ ScriptBreaks
  \/ (\E e \in Event : Deliver(e)) \/ ReadMiss \/ ReadStale \/ PutRefresh

Spec == Init /\ [][Next]_vars
-----------------------------------------------------------------------------
(* Fairness.  Docker restarts the API, and what has begun goes on.  The     *)
(* operator recreates the container after a change of the environment       *)
(* (docs/DEPLOYMENT.md) and runs the script until a run with the present    *)
(* configuration came to its end.                                           *)
Registered == script.pc = "done" /\ script.conf = [url |-> env.url, secret |-> env.secret]

Progress ==
  /\ WF_vars(StartProcess(Api)) /\ WF_vars(StartingStep(Api))
  /\ WF_vars(ScriptGoesOn)
  /\ WF_vars(Recreate)
  /\ WF_vars(RunScript /\ ~Registered)

FairSpec == Spec /\ Progress
-----------------------------------------------------------------------------
(***************************************************************************)
(* scripts/register_webhook.py with ingestion/webhook_handler.py: after a   *)
(* run that came to its end, an API with the same secret at the same address *)
(* accepts the deliveries of both events, whatever earlier runs left behind  *)
(* and whatever was changed in between.                                     *)
(***************************************************************************)
CompletedRunDelivers ==
  /\ script.pc = "done" /\ Up
  /\ conf.url = script.conf.url /\ conf.secret = script.conf.secret
  => \A e \in Event : Accepted(e)

(***************************************************************************)
(* config.py, MATCH_THRESHOLD: rows outlive the process that computed them, *)
(* so after a restart with another threshold a fresh row may show what the  *)
(* new gate holds back, or hold back what it lets through -- but only until *)
(* the first index mutation: no row of the old gate is fresh after a mark,  *)
(* also none that a refresh of the old process had in hand.                 *)
(***************************************************************************)
OldGateGoesWithMark ==
  /\ Up /\ marked
  /\ row # None /\ ~row.stale
  => row.shown = Gate(conf.threshold)

(***************************************************************************)
(* docker-compose.prod.yml: failed starts, lost races for the collection,   *)
(* crashes and changes of the environment keep the API down for a while.    *)
(***************************************************************************)
ApiComesUpAgain == []<>Up

(***************************************************************************)
(* scripts/register_webhook.py: a run that fails half-way, with one or both *)
(* Webhooks deleted, and a changed secret are put right by running it again *)
(* -- unless the address changed, too: the old documents then are not found *)
(* and their names are taken.                                               *)
(***************************************************************************)
Moved == \E e \in Event : hooks[e] # None /\ hooks[e].url # env.url

RegistrationHeals ==
  []<>(env.secret = None \/ Moved \/ \A e \in Event : Accepted(e))
-----------------------------------------------------------------------------
(* What the documentation says and the code does not do: see README.        *)

(* scripts/register_webhook.py, the module's docstring: re-running this     *)
(* after changing WEBHOOK_SECRET or the API's port leaves no stale Webhook; *)
(* so after a run in which no call failed, every document is one it wrote.  *)
RerunLeavesNoStale ==
  script.pc \in {"done", "failed"} /\ faults = 0 =>
    \A e \in Event : hooks[e] # None => hooks[e] = script.conf
=============================================================================
