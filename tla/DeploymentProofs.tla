-------------------------- MODULE DeploymentProofs --------------------------
(***************************************************************************)
(* Theorems of Deployment, for every value of its constants, with their     *)
(* proofs.                                                                  *)
(***************************************************************************)
EXTENDS Deployment, FiniteSetTheorems, TLAPS

(* TypeOK is not inductive: create_webhook writes the configuration the     *)
(* script began with, which has to be one.                                  *)
TypeInv ==
  /\ TypeOK
  /\ script.pc \in ScriptPc \cup {"done"} => script.conf \in Hook

LEMMA MoveType ==
  ASSUME NEW p \in Process, NEW pc \in {"down", "up"} \cup StartPc,
         proc \in [Process -> {"down", "up"} \cup StartPc], Move(p, pc)
  PROVE  proc' \in [Process -> {"down", "up"} \cup StartPc]
BY DEF Move

LEMMA StartStepType ==
  ASSUME NEW p \in Process, env \in Env, StartupTypeOK, Start(p) \/ StartStep(p) \/ Stop(p)
  PROVE  StartupTypeOK'
<1> USE DEF StartupTypeOK, StartPc
<1>1. CASE Start(p)
  BY <1>1, MoveType DEF Start
<1>2. CASE CheckCollection(p)
  BY <1>2, MoveType DEF CheckCollection
<1>3. CASE CreateCollection(p)
  <2>1. CASE collection
    BY <1>3, <2>1, MoveType DEF CreateCollection, End
  <2>2. CASE ~collection
    BY <1>3, <2>2, MoveType DEF CreateCollection
  <2> QED
    BY <2>1, <2>2
<1>4. CASE WarmUp(p)
  BY <1>4, MoveType DEF WarmUp
<1>5. CASE EnsureSchema(p)
  BY <1>5, MoveType DEF EnsureSchema
<1>6. CASE Stop(p)
  BY <1>6, MoveType DEF Stop, End
<1> QED
  BY <1>1, <1>2, <1>3, <1>4, <1>5, <1>6 DEF StartStep

ScriptInv ==
  /\ RegistrationTypeOK
  /\ script.pc \in ScriptPc \cup {"done"} => script.conf \in Hook

LEMMA CreateHookType ==
  ASSUME ScriptInv, NEW e \in Event, NEW here \in ScriptPc,
         NEW next \in ScriptPc \cup {"done"}, CreateHook(e, here, next)
  PROVE  ScriptInv'
<1>1. CASE hooks[e] # None
  BY <1>1 DEF CreateHook, ScriptInv, RegistrationTypeOK, ScriptPc
<1>2. CASE hooks[e] = None
  BY <1>2 DEF CreateHook, ScriptInv, RegistrationTypeOK, ScriptPc
<1> QED
  BY <1>1, <1>2

LEMMA ScriptType ==
  ASSUME env \in Env, ScriptInv, BeginScript \/ ScriptStep \/ ScriptFail
  PROVE  ScriptInv'
<1>1. CASE BeginScript
  BY <1>1 DEF BeginScript, ScriptInv, RegistrationTypeOK, ScriptPc, Hook, Env
<1>2. CASE Login \/ ListHooks \/ EndDelete \/ ScriptFail
  BY <1>2 DEF Login, ListHooks, EndDelete, ScriptFail, Running, ScriptInv,
     RegistrationTypeOK, ScriptPc
<1>3. ASSUME NEW e \in Event, DeleteHook(e)
      PROVE  ScriptInv'
  BY <1>3 DEF DeleteHook, ScriptInv, RegistrationTypeOK, ScriptPc
<1>4. CASE CreateHook("on_update", "create_update", "create_trash")
  BY <1>4, CreateHookType DEF Event, ScriptPc
<1>5. CASE CreateHook("on_trash", "create_trash", "done")
  BY <1>5, CreateHookType DEF Event, ScriptPc
<1> QED
  BY <1>1, <1>2, <1>3, <1>4, <1>5 DEF ScriptStep

LEMMA TypeStep == TypeInv /\ [Next]_vars => TypeInv'
<1> SUFFICES ASSUME TypeInv, [Next]_vars PROVE TypeInv'
  OBVIOUS
<1>t. /\ ConfigTypeOK /\ StartupTypeOK /\ ScriptInv
      /\ row \in Row \cup {None} /\ refresh \in (SUBSET Score) \cup {None}
      /\ marked \in BOOLEAN /\ faults \in Nat
  BY DEF TypeInv, TypeOK, ScriptInv
<1> SUFFICES /\ ConfigTypeOK' /\ StartupTypeOK' /\ ScriptInv'
             /\ row' \in Row \cup {None} /\ refresh' \in (SUBSET Score) \cup {None}
             /\ marked' \in BOOLEAN /\ faults' \in Nat
  BY DEF TypeInv, TypeOK, ScriptInv
<1>e. env \in Env
  BY <1>t DEF ConfigTypeOK
<1>c. UNCHANGED configVars => ConfigTypeOK'
  BY <1>t DEF configVars, ConfigTypeOK
<1>s. UNCHANGED startupVars => StartupTypeOK'
  BY <1>t DEF startupVars, StartupTypeOK
<1>r. UNCHANGED registrationVars => ScriptInv'
  BY <1>t DEF registrationVars, ScriptInv, RegistrationTypeOK
<1>g. \A threshold : Gate(threshold) \in SUBSET Score
  BY DEF Gate
<1> DEFINE Rest == /\ row' \in Row \cup {None} /\ refresh' \in (SUBSET Score) \cup {None}
                   /\ marked' \in BOOLEAN /\ faults' \in Nat
<1>k. UNCHANGED <<cacheVars, marked, faults>> => Rest
  BY <1>t DEF cacheVars
<1>1. CASE EditEnv
  <2>1. /\ Edit /\ UNCHANGED startupVars /\ UNCHANGED registrationVars
        /\ UNCHANGED <<cacheVars, marked, faults>>
    BY <1>1 DEF EditEnv
  <2>2. changes' \in Nat
    BY <2>1, <1>t DEF Edit, ConfigTypeOK
  <2>3. env' \in Env
    BY <2>1, <1>e DEF Edit, Env
  <2> QED
    BY <2>1, <2>2, <2>3, <1>s, <1>r, <1>k DEF ConfigTypeOK
<1>2. ASSUME NEW p \in Process, StartProcess(p) \/ StartingStep(p) \/ ToolEnds(p)
      PROVE  ConfigTypeOK' /\ StartupTypeOK' /\ ScriptInv' /\ Rest
  <2>1. /\ Start(p) \/ StartStep(p) \/ Stop(p)
        /\ UNCHANGED configVars /\ UNCHANGED registrationVars
        /\ UNCHANGED cacheVars /\ UNCHANGED faults
        /\ marked' \in BOOLEAN
    BY <1>2, <1>t DEF StartProcess, StartingStep, ToolEnds
  <2>2. StartupTypeOK'
    BY <2>1, <1>t, <1>e, StartStepType
  <2> QED
    BY <2>1, <2>2, <1>t, <1>c, <1>r DEF cacheVars
<1>3. ASSUME NEW p \in Process, Crash(p) \/ (p = Api /\ Recreate)
      PROVE  ConfigTypeOK' /\ StartupTypeOK' /\ ScriptInv' /\ Rest
  <2>1. /\ Stop(p) /\ ForgetRefresh(p)
        /\ UNCHANGED configVars /\ UNCHANGED registrationVars
        /\ UNCHANGED row /\ UNCHANGED marked
        /\ faults' \in Nat
    BY <1>3, <1>t DEF Crash, Fault, Recreate
  <2>2. StartupTypeOK'
    BY <2>1, <1>t, <1>e, StartStepType
  <2>3. refresh' \in (SUBSET Score) \cup {None}
    BY <2>1, <1>t DEF ForgetRefresh
  <2> QED
    BY <2>1, <2>2, <2>3, <1>t, <1>c, <1>r
<1>4. CASE RunScript \/ ScriptGoesOn \/ ScriptBreaks
  <2>1. /\ BeginScript \/ ScriptStep \/ ScriptFail
        /\ UNCHANGED configVars /\ UNCHANGED startupVars
        /\ UNCHANGED cacheVars /\ UNCHANGED marked
        /\ faults' \in Nat
    BY <1>4, <1>t DEF RunScript, ScriptGoesOn, ScriptBreaks, Fault
  <2>2. ScriptInv'
    BY <2>1, <1>t, <1>e, ScriptType
  <2> QED
    BY <2>1, <2>2, <1>t, <1>c, <1>s DEF cacheVars
<1>5. ASSUME NEW e \in Event, Deliver(e)
      PROVE  ConfigTypeOK' /\ StartupTypeOK' /\ ScriptInv' /\ Rest
  BY <1>5, <1>t, <1>c, <1>s, <1>r DEF Deliver, Row
<1>6. CASE ReadMiss \/ ReadStale \/ PutRefresh
  <2>1. /\ UNCHANGED configVars /\ UNCHANGED startupVars
        /\ UNCHANGED registrationVars /\ UNCHANGED <<marked, faults>>
    BY <1>6 DEF ReadMiss, ReadStale, PutRefresh
  <2>2. row' \in Row \cup {None}
    <3>1. CASE ReadMiss
      <4>1. Gate(conf.threshold) \in SUBSET Score
        BY <1>g
      <4> HIDE DEF Gate
      <4> QED
        BY <3>1, <4>1 DEF ReadMiss, Row
    <3>2. CASE ReadStale
      BY <3>2, <1>t DEF ReadStale
    <3>3. CASE PutRefresh
      BY <3>3, <1>t DEF PutRefresh, Row
    <3> QED
      BY <1>6, <3>1, <3>2, <3>3
  <2>3. refresh' \in (SUBSET Score) \cup {None}
    BY <1>6, <1>t, <1>g DEF ReadMiss, ReadStale, PutRefresh
  <2> QED
    BY <2>1, <2>2, <2>3, <1>t, <1>c, <1>s, <1>r
<1>7. CASE UNCHANGED vars
  <2>1. /\ UNCHANGED configVars /\ UNCHANGED startupVars
        /\ UNCHANGED registrationVars /\ UNCHANGED <<cacheVars, marked, faults>>
    BY <1>7 DEF vars
  <2> QED
    BY <2>1, <1>c, <1>s, <1>r, <1>k
<1>8. Api \in Process
  BY DEF Process
<1> QED
  BY <1>1, <1>2, <1>3, <1>4, <1>5, <1>6, <1>7, <1>8 DEF Next

LEMMA TypeInvariant == Spec => []TypeInv
<1>1. Init => TypeInv
  <2> SUFFICES ASSUME Init PROVE TypeInv
    OBVIOUS
  <2>1. ConfigTypeOK
    BY DEF Init, ConfigInit, ConfigTypeOK
  <2>2. StartupTypeOK
    BY DEF Init, StartupInit, StartupTypeOK
  <2>3. RegistrationTypeOK /\ script.pc = "idle"
    BY DEF Init, RegistrationInit, RegistrationTypeOK
  <2> QED
    BY <2>1, <2>2, <2>3 DEF Init, TypeInv, TypeOK, ScriptPc
<1>2. TypeInv /\ [Next]_vars => TypeInv'
  BY TypeStep
<1> QED
  BY <1>1, <1>2, PTL DEF Spec

(***************************************************************************)
(* Type correctness: however the environment changes and processes and the  *)
(* script fail, no Webhook without a secret is registered, and the API has  *)
(* a whole configuration.                                                   *)
(***************************************************************************)
THEOREM DeploymentTypeCorrect == Spec => []TypeOK
BY TypeInvariant, PTL DEF TypeInv
-----------------------------------------------------------------------------
(* The two classes of steps that move processes.  Those of a tool leave what *)
(* the API has read and where it is alone.                                   *)
ProcessStep(p) == StartProcess(p) \/ StartingStep(p) \/ Crash(p) \/ ToolEnds(p)

LEMMA OthersLeaveApi ==
  ASSUME TypeOK, NEW p \in Process, p # Api, Start(p) \/ StartStep(p) \/ Stop(p)
  PROVE  proc'[Api] = proc[Api] /\ conf' = conf
<1> Api \in Process
  BY DEF Process
<1> USE DEF TypeOK, StartupTypeOK, Move, End
<1>1. CASE Start(p) \/ Stop(p)
  BY <1>1 DEF Start, Stop
<1>2. CASE CheckCollection(p) \/ WarmUp(p) \/ EnsureSchema(p)
  BY <1>2 DEF CheckCollection, WarmUp, EnsureSchema
<1>3. CASE CreateCollection(p)
  BY <1>3 DEF CreateCollection
<1> QED
  BY <1>1, <1>2, <1>3 DEF StartStep

(* While the API is coming up no mark was made since it began, and a refresh *)
(* in hand is one of the API that runs, with the gate of its configuration.  *)
GateInv ==
  /\ refresh # None => Up /\ refresh = Gate(conf.threshold)
  /\ proc[Api] \in StartPc => ~marked
  /\ OldGateGoesWithMark

LEMMA GateStep == TypeInv /\ GateInv /\ [Next]_vars => GateInv'
<1> SUFFICES ASSUME TypeInv, GateInv, [Next]_vars PROVE GateInv'
  OBVIOUS
<1>t. TypeOK /\ Api \in Process /\ proc \in [Process -> {"down", "up"} \cup StartPc]
  BY DEF TypeInv, TypeOK, StartupTypeOK, Process
<1>s. ASSUME UNCHANGED <<proc[Api], conf, row, refresh, marked>>
      PROVE  GateInv'
  BY <1>s DEF GateInv, OldGateGoesWithMark, Up, Gate
<1>1. ASSUME NEW p \in Process, p # Api, ProcessStep(p)
      PROVE  GateInv'
  <2>1. /\ Start(p) \/ StartStep(p) \/ Stop(p)
        /\ row' = row /\ refresh' = refresh
    BY <1>1 DEF ProcessStep, StartProcess, StartingStep, Crash, ToolEnds, ForgetRefresh,
       cacheVars
  <2>2. marked' = marked
    BY <1>1, <1>t DEF ProcessStep, StartProcess, StartingStep, Crash, ToolEnds, TypeOK
  <2>3. proc'[Api] = proc[Api] /\ conf' = conf
    BY <1>1, <1>t, <2>1, OthersLeaveApi
  <2> QED
    BY <2>1, <2>2, <2>3, <1>s
<1>2. CASE StartProcess(Api)
  <2>1. /\ proc[Api] = "down" /\ proc'[Api] = "check"
        /\ marked' = FALSE /\ refresh' = refresh
    BY <1>2, <1>t DEF StartProcess, Start, Move, cacheVars
  <2>2. refresh' = None
    BY <2>1 DEF GateInv, Up
  <2> QED
    BY <2>1, <2>2 DEF GateInv, OldGateGoesWithMark
<1>3. CASE StartingStep(Api)
  <2>1. /\ proc[Api] \in StartPc /\ marked' = marked /\ refresh' = refresh
    BY <1>3 DEF StartingStep, StartStep, CheckCollection, CreateCollection, WarmUp,
       EnsureSchema, StartPc, cacheVars
  <2>2. ~marked /\ refresh = None
    BY <2>1 DEF GateInv, Up, StartPc
  <2> QED
    BY <2>1, <2>2 DEF GateInv, OldGateGoesWithMark
<1>4. CASE Crash(Api) \/ Recreate
  <2>1. proc'[Api] = "down" /\ refresh' = None
    BY <1>4, <1>t DEF Crash, Recreate, Stop, End, Move, ForgetRefresh
  <2> QED
    BY <2>1 DEF GateInv, OldGateGoesWithMark, Up, StartPc
<1>5. CASE ToolEnds(Api)
  BY <1>5, ApiIsNoTool DEF ToolEnds
<1>6. ASSUME NEW e \in Event, Deliver(e)
      PROVE  GateInv'
  <2>1. /\ Up /\ proc' = proc /\ conf' = conf /\ refresh' = refresh
        /\ row' = IF row = None THEN None ELSE [row EXCEPT !.stale = TRUE]
    BY <1>6 DEF Deliver, Accepted, startupVars
  <2>2. row' = None \/ row'.stale
    BY <2>1, <1>t DEF TypeOK, Row
  <2> QED
    BY <2>1, <2>2 DEF GateInv, OldGateGoesWithMark, Up, StartPc
<1>7. CASE ReadMiss
  <2>1. /\ proc' = proc /\ conf' = conf /\ refresh' = refresh /\ marked' = marked
        /\ row'.shown = Gate(conf.threshold)
    BY <1>7 DEF ReadMiss, startupVars
  <2> QED
    BY <2>1 DEF GateInv, OldGateGoesWithMark, Up, Gate
<1>8. CASE ReadStale
  <2>1. /\ Up /\ proc' = proc /\ conf' = conf /\ row' = row /\ marked' = marked
        /\ refresh' = Gate(conf.threshold)
    BY <1>8 DEF ReadStale, Admitted, startupVars
  <2> QED
    BY <2>1 DEF GateInv, OldGateGoesWithMark, Up, Gate
<1>9. CASE PutRefresh
  <2>1. /\ proc' = proc /\ conf' = conf /\ refresh' = None /\ marked' = marked
        /\ refresh # None /\ row'.shown = refresh
    BY <1>9 DEF PutRefresh, startupVars
  <2> QED
    BY <2>1 DEF GateInv, OldGateGoesWithMark, Up, Gate
<1>10. CASE EditEnv \/ RunScript \/ ScriptGoesOn \/ ScriptBreaks \/ UNCHANGED vars
  BY <1>10, <1>s DEF EditEnv, RunScript, ScriptGoesOn, ScriptBreaks, vars, startupVars,
     cacheVars
<1> QED
  BY <1>1, <1>2, <1>3, <1>4, <1>5, <1>6, <1>7, <1>8, <1>9, <1>10 DEF Next, ProcessStep

(***************************************************************************)
(* A threshold changed in .env: once an index mutation marked the rows, no  *)
(* fresh row shows Matches of another gate than that of the API that runs,  *)
(* whichever process computed it.                                           *)
(***************************************************************************)
THEOREM OldGateGone == Spec => []OldGateGoesWithMark
<1>1. Init => GateInv
  BY DEF Init, StartupInit, GateInv, OldGateGoesWithMark
<1>2. TypeInv /\ GateInv /\ [Next]_vars => GateInv'
  BY GateStep
<1>3. GateInv => OldGateGoesWithMark
  BY DEF GateInv
<1> QED
  BY <1>1, <1>2, <1>3, TypeInvariant, PTL DEF Spec
-----------------------------------------------------------------------------
(* A document that the present run has written is there until it ends.       *)
HookInv ==
  /\ script.pc \in {"create_trash", "done"} => hooks["on_update"] = script.conf
  /\ script.pc = "done" => hooks["on_trash"] = script.conf

LEMMA HookStep == TypeInv /\ HookInv /\ [Next]_vars => HookInv'
<1> SUFFICES ASSUME TypeInv, HookInv, [Next]_vars PROVE HookInv'
  OBVIOUS
<1>t. ScriptInv
  BY DEF TypeInv, TypeOK, ScriptInv
<1>s. UNCHANGED registrationVars => HookInv'
  BY DEF registrationVars, HookInv
<1>1. CASE BeginScript \/ Login \/ ListHooks \/ EndDelete \/ ScriptFail
  <2>1. script'.pc \notin {"create_trash", "done"}
    <3>1. CASE BeginScript
      BY <3>1 DEF BeginScript
    <3>2. CASE Login \/ EndDelete
      BY <3>2, <1>t DEF Login, EndDelete, ScriptInv, RegistrationTypeOK
    <3>3. CASE ListHooks
      BY <3>3, <1>t DEF ListHooks, ScriptInv, RegistrationTypeOK
    <3>4. CASE ScriptFail
      BY <3>4, <1>t DEF ScriptFail, ScriptInv, RegistrationTypeOK
    <3> QED
      BY <1>1, <3>1, <3>2, <3>3, <3>4
  <2> QED
    BY <2>1 DEF HookInv
<1>2. ASSUME NEW e \in Event, DeleteHook(e)
      PROVE  HookInv'
  BY <1>2, <1>t DEF DeleteHook, HookInv, ScriptInv, RegistrationTypeOK, ScriptPc
<1>3. CASE CreateHook("on_update", "create_update", "create_trash")
  <2>1. CASE hooks["on_update"] # None
    BY <1>3, <2>1, <1>t DEF CreateHook, HookInv, ScriptInv, RegistrationTypeOK
  <2>2. CASE hooks["on_update"] = None
    <3>1. /\ hooks' = [hooks EXCEPT !["on_update"] = script.conf]
          /\ script' = [script EXCEPT !.pc = "create_trash"]
      BY <1>3, <2>2 DEF CreateHook
    <3> QED
      BY <3>1, <1>t DEF HookInv, ScriptInv, RegistrationTypeOK, Event
  <2> QED
    BY <2>1, <2>2
<1>4. CASE CreateHook("on_trash", "create_trash", "done")
  <2>1. CASE hooks["on_trash"] # None
    BY <1>4, <2>1, <1>t DEF CreateHook, HookInv, ScriptInv, RegistrationTypeOK
  <2>2. CASE hooks["on_trash"] = None
    <3>1. /\ hooks' = [hooks EXCEPT !["on_trash"] = script.conf]
          /\ script' = [script EXCEPT !.pc = "done"]
          /\ script.pc = "create_trash"
      BY <1>4, <2>2 DEF CreateHook
    <3> QED
      BY <3>1, <1>t DEF HookInv, ScriptInv, RegistrationTypeOK, Event
  <2> QED
    BY <2>1, <2>2
<1>5. CASE RunScript \/ ScriptGoesOn \/ ScriptBreaks
  BY <1>1, <1>2, <1>3, <1>4, <1>5 DEF RunScript, ScriptGoesOn, ScriptBreaks, ScriptStep
<1>6. CASE ~(RunScript \/ ScriptGoesOn \/ ScriptBreaks)
  <2>1. UNCHANGED registrationVars
    BY <1>6 DEF Next, vars, EditEnv, StartProcess, StartingStep, Crash, ToolEnds, Recreate,
       Deliver, ReadMiss, ReadStale, PutRefresh
  <2> QED
    BY <2>1, <1>s
<1> QED
  BY <1>5, <1>6

(***************************************************************************)
(* After a run of the script that came to its end, an API with the same      *)
(* secret and address accepts the deliveries of both events, whatever runs   *)
(* that failed or had another configuration left behind.                     *)
(***************************************************************************)
THEOREM CompletedRunWorks == Spec => []CompletedRunDelivers
<1>1. Init => HookInv
  BY DEF Init, RegistrationInit, HookInv
<1>2. TypeInv /\ HookInv /\ [Next]_vars => HookInv'
  BY HookStep
<1>3. TypeInv /\ HookInv => CompletedRunDelivers
  <2> SUFFICES ASSUME TypeInv, HookInv, script.pc = "done", Up,
                      conf.url = script.conf.url, conf.secret = script.conf.secret,
                      NEW e \in Event
               PROVE  Accepted(e)
    BY DEF CompletedRunDelivers
  <2>1. script.conf \in Hook /\ hooks[e] = script.conf
    BY DEF TypeInv, HookInv, Event
  <2>2. script.conf # None /\ script.conf.secret # None
    BY <2>1, NoneIsNoHook, NoneIsNoValue DEF Hook
  <2> QED
    BY <2>1, <2>2 DEF Accepted
<1> QED
  BY <1>1, <1>2, <1>3, TypeInvariant, PTL DEF Spec
-----------------------------------------------------------------------------
(* Once the collection is there, every start that is still about to create   *)
(* it is lost, and none joins them; the process that created it is not one.  *)
RaceInv ==
  /\ ~collection => losses = 0
  /\ collection => losses + Cardinality(Creating) <= Cardinality(Tool)

LEMMA ProcessCount ==
  /\ IsFiniteSet(Process)
  /\ Cardinality(Tool) \in Nat
  /\ Cardinality(Process) = Cardinality(Tool) + 1
BY FewTools, ApiIsNoTool, FS_AddElement, FS_CardinalityType DEF Process

LEMMA CreatingCount ==
  IsFiniteSet(Creating) /\ Cardinality(Creating) \in Nat
                        /\ Cardinality(Creating) <= Cardinality(Process)
<1>1. Creating \subseteq Process
  BY DEF Creating
<1> QED
  BY <1>1, ProcessCount, FS_Subset, FS_CardinalityType

(* What a step of a process does to Creating: only a failing look adds to    *)
(* it, and CreateCollection takes p out.                                     *)
LEMMA CreatingStep ==
  ASSUME TypeOK, NEW p \in Process, Start(p) \/ StartStep(p) \/ Stop(p)
  PROVE  \/ /\ ~collection /\ collection' = collection /\ losses' = losses
         \/ /\ collection' = collection /\ losses' = losses
            /\ Creating' \subseteq Creating
         \/ /\ collection' = TRUE /\ p \in Creating /\ Creating' = Creating \ {p}
            /\ losses' = IF collection THEN losses + 1 ELSE losses
<1> USE DEF TypeOK, StartupTypeOK, Creating, Move, End
<1>1. CASE Start(p) \/ Stop(p)
  BY <1>1 DEF Start, Stop
<1>2. CASE WarmUp(p) \/ EnsureSchema(p)
  BY <1>2 DEF WarmUp, EnsureSchema
<1>3. CASE CheckCollection(p)
  BY <1>3 DEF CheckCollection
<1>4. CASE CreateCollection(p)
  <2>1. proc[p] = "create" /\ \E pc \in {"down", "warm"} : proc' = [proc EXCEPT ![p] = pc]
    BY <1>4 DEF CreateCollection
  <2>2. p \in Creating /\ Creating' = Creating \ {p}
    BY <2>1
  <2>3. collection' = TRUE /\ losses' = IF collection THEN losses + 1 ELSE losses
    BY <1>4 DEF CreateCollection
  <2> QED
    BY <2>2, <2>3
<1> QED
  BY <1>1, <1>2, <1>3, <1>4 DEF StartStep

LEMMA RaceStep == TypeInv /\ RaceInv /\ [Next]_vars => RaceInv'
<1> SUFFICES ASSUME TypeInv, RaceInv, [Next]_vars PROVE RaceInv'
  OBVIOUS
<1>t. TypeOK /\ collection \in BOOLEAN /\ losses \in Nat
  BY DEF TypeInv, TypeOK, StartupTypeOK
<1>1. ASSUME NEW p \in Process, Start(p) \/ StartStep(p) \/ Stop(p)
      PROVE  RaceInv'
  <2>1. CASE ~collection /\ collection' = collection /\ losses' = losses
    BY <2>1 DEF RaceInv
  <2>2. CASE /\ collection' = collection /\ losses' = losses
             /\ Creating' \subseteq Creating
    <3>1. Cardinality(Creating') \in Nat /\ Cardinality(Creating') <= Cardinality(Creating)
      BY <2>2, CreatingCount, FS_Subset, FS_CardinalityType
    <3> QED
      BY <2>2, <3>1, <1>t, CreatingCount, ProcessCount DEF RaceInv
  <2>3. CASE /\ collection' = TRUE /\ p \in Creating /\ Creating' = Creating \ {p}
             /\ losses' = IF collection THEN losses + 1 ELSE losses
    <3>1. Cardinality(Creating') = Cardinality(Creating) - 1
      BY <2>3, CreatingCount, FS_RemoveElement
    <3> QED
      BY <2>3, <3>1, <1>t, CreatingCount, ProcessCount DEF RaceInv
  <2> QED
    BY <1>1, <1>t, <2>1, <2>2, <2>3, CreatingStep
<1>2. UNCHANGED startupVars => RaceInv'
  BY DEF startupVars, RaceInv, Creating
<1>3. ASSUME NEW p \in Process, ProcessStep(p)
      PROVE  RaceInv'
  BY <1>1, <1>3 DEF ProcessStep, StartProcess, StartingStep, Crash, ToolEnds
<1>4. CASE Recreate
  BY <1>1, <1>4 DEF Recreate, Process
<1>5. CASE ~Recreate /\ ~(\E p \in Process : ProcessStep(p))
  <2>1. UNCHANGED startupVars
    BY <1>5 DEF Next, vars, ProcessStep, EditEnv, RunScript, ScriptGoesOn, ScriptBreaks,
       Deliver, ReadMiss, ReadStale, PutRefresh
  <2> QED
    BY <2>1, <1>2
<1> QED
  BY <1>3, <1>4, <1>5

(***************************************************************************)
(* The check and the creation of the collection are two calls; however many  *)
(* processes race for it, and however often they start, no more starts are   *)
(* lost to it than there are tools.                                          *)
(***************************************************************************)
THEOREM RaceLostAtMostOnce == Spec => []RaceIsLostOnce
<1>1. Init => RaceInv
  <2> SUFFICES ASSUME Init PROVE RaceInv
    OBVIOUS
  <2>1. losses = 0 /\ Creating = {}
    BY DEF Init, StartupInit, Creating
  <2> QED
    BY <2>1, ProcessCount, FS_EmptySet DEF RaceInv
<1>2. TypeInv /\ RaceInv /\ [Next]_vars => RaceInv'
  BY RaceStep
<1>3. TypeInv /\ RaceInv => RaceIsLostOnce
  BY CreatingCount, ProcessCount DEF TypeInv, TypeOK, StartupTypeOK, RaceInv, RaceIsLostOnce
<1> QED
  BY <1>1, <1>2, <1>3, TypeInvariant, PTL DEF Spec
=============================================================================
