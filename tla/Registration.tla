---------------------------- MODULE Registration ----------------------------
(***************************************************************************)
(* scripts/register_webhook.py: the Webhook documents in the Helpdesk, one  *)
(* for each event since webhook_docevent is single-select, and the script   *)
(* that deletes those pointed at API_WEBHOOK_URL and creates both anew.     *)
(* Every step is one REST call.  The documents' names are fixed, and Frappe *)
(* refuses to insert one whose name is taken.                               *)
(***************************************************************************)
EXTENDS Config

Event == {"on_update", "on_trash"}
Hook  == [url : Url, secret : Secret]

ASSUME NoneIsNoHook == None \notin Hook

VARIABLES
  hooks,   \* event -> the document for it, None if there is none
  script   \* the last run of the script, with its configuration

registrationVars == <<hooks, script>>

ScriptPc == {"login", "list", "delete", "create_update", "create_trash"}

RegistrationTypeOK ==
  /\ hooks \in [Event -> Hook \cup {None}]
  /\ script \in [pc : {"idle", "done", "failed"} \cup ScriptPc,
                 conf : Hook \cup {None}, found : SUBSET Event]

RegistrationInit ==
  /\ hooks = [e \in Event |-> None]
  /\ script = [pc |-> "idle", conf |-> None, found |-> {}]

Running == script.pc \in ScriptPc

\* mutant: an unset secret is not looked at
BeginScriptUnchecked ==
  /\ ~Running
  /\ script' = [pc |-> "login", found |-> {},
                conf |-> [url |-> env.url, secret |-> env.secret]]
  /\ UNCHANGED hooks

\* an unset secret ends the script before it did anything
BeginScript ==
  /\ ~Running
  /\ env.secret # None
  /\ script' = [pc |-> "login", found |-> {},
                conf |-> [url |-> env.url, secret |-> env.secret]]
  /\ UNCHANGED hooks

Login ==
  /\ script.pc = "login"
  /\ script' = [script EXCEPT !.pc = "list"]
  /\ UNCHANGED hooks

\* mutant: nothing is deleted
ListNothing ==
  /\ script.pc = "list"
  /\ script' = [script EXCEPT !.pc = "delete"]
  /\ UNCHANGED hooks

\* delete_existing, the filter on request_url
ListHooks ==
  /\ script.pc = "list"
  /\ script' = [script EXCEPT !.pc = "delete",
       !.found = {e \in Event : hooks[e] # None /\ hooks[e].url = script.conf.url}]
  /\ UNCHANGED hooks

\* delete_existing, the loop
DeleteHook(e) ==
  /\ script.pc = "delete"
  /\ e \in script.found
  /\ hooks' = [hooks EXCEPT ![e] = None]
  /\ script' = [script EXCEPT !.found = @ \ {e}]

EndDelete ==
  /\ script.pc = "delete"
  /\ script.found = {}
  /\ script' = [script EXCEPT !.pc = "create_update"]
  /\ UNCHANGED hooks

\* mutant: no raise_for_status
CreateUnchecked(e, here, next) ==
  /\ script.pc = here
  /\ IF hooks[e] # None THEN UNCHANGED hooks
                        ELSE hooks' = [hooks EXCEPT ![e] = script.conf]
  /\ script' = [script EXCEPT !.pc = next]

\* create_webhook: a taken name is answered with an error
CreateHook(e, here, next) ==
  /\ script.pc = here
  /\ IF hooks[e] # None
       THEN UNCHANGED hooks /\ script' = [script EXCEPT !.pc = "failed"]
       ELSE /\ hooks' = [hooks EXCEPT ![e] = script.conf]
            /\ script' = [script EXCEPT !.pc = next]

ScriptStep ==
  \/ Login \/ ListHooks \/ EndDelete
  \/ \E e \in Event : DeleteHook(e)
  \/ CreateHook("on_update", "create_update", "create_trash")
  \/ CreateHook("on_trash", "create_trash", "done")

\* a call fails, and the script with it; what it did stays done
ScriptFail ==
  /\ Running
  /\ script' = [script EXCEPT !.pc = "failed", !.found = {}]
  /\ UNCHANGED hooks
=============================================================================
