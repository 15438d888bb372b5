------------------------------- MODULE Config -------------------------------
(***************************************************************************)
(* The environment of the service (.env) and config.py, which reads it when *)
(* a process starts.  An operator may change a value at any time; a process *)
(* that runs keeps the values it started with (docs/DEPLOYMENT.md).  Model  *)
(* names, store addresses and the Helpdesk's credentials are left out.      *)
(***************************************************************************)
EXTENDS Naturals

CONSTANTS
  Secret,      \* values of WEBHOOK_SECRET
  Key,         \* values of API_KEY
  Url,         \* values of API_WEBHOOK_URL: where the API can be reached
  Score,       \* rerank scores, and values of MATCH_THRESHOLD
  None,        \* a variable that is not set
  MaxChanges   \* bound: changes of the environment in a behaviour

Env == [secret : Secret \cup {None}, key : Key \cup {None}, url : Url,
        threshold : Score]

ASSUME NoneIsNoValue == None \notin Secret \cup Key \cup Env
ASSUME ScoresAreNumbers == Score \subseteq Nat

VARIABLES
  env,      \* the environment a process would start with
  changes   \* number of changes so far

configVars == <<env, changes>>

ConfigTypeOK == env \in Env /\ changes \in Nat

ConfigInit == env \in Env /\ changes = 0

\* the operator changes one variable
Edit ==
  /\ changes < MaxChanges
  /\ changes' = changes + 1
  /\ \/ \E s \in Secret \cup {None} : env' = [env EXCEPT !.secret = s]
     \/ \E k \in Key \cup {None} : env' = [env EXCEPT !.key = k]
     \/ \E u \in Url : env' = [env EXCEPT !.url = u]
     \/ \E n \in Score : env' = [env EXCEPT !.threshold = n]
=============================================================================
