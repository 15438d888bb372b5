----------------------------- MODULE Refresher -----------------------------
(***************************************************************************)
(* api/refresh.py: the background tasks of every process and the in-flight  *)
(* set that collapses two refreshes of one ticket into one.  A task sits in *)
(* a slot from schedule() to the end of _run(); it walks through the        *)
(* external calls of refresh_ticket_cache, which Service.tla adds.          *)
(***************************************************************************)
EXTENDS Tickets

CONSTANTS
  Proc,   \* API processes (uvicorn runs one)
  Slot    \* bound: background tasks of a process at a time; as many as
          \* there are tickets never hold a schedule() up

VARIABLES
  inflight,  \* process -> BackgroundRefresher._in_flight
  tasks      \* process -> slot -> the task in it, None if it is free

refreshVars == <<inflight, tasks>>

TaskPc == {"scheduled", "fetched", "searched", "finish"}
Task   == [pc : TaskPc, ticket : Ticket, text : Text \cup {None},
           matches : SUBSET Entry]

ASSUME NoneIsNoTask == None \notin Task

RefresherTypeOK ==
  /\ inflight \in [Proc -> SUBSET Ticket]
  /\ tasks \in [Proc -> [Slot -> Task \cup {None}]]

RefresherInit ==
  /\ inflight = [p \in Proc |-> {}]
  /\ tasks = [p \in Proc |-> [s \in Slot |-> None]]

NewTask(t) == [pc |-> "scheduled", ticket |-> t, text |-> None, matches |-> {}]

AddTask(p, t) ==
  \E s \in Slot : /\ tasks[p][s] = None
                  /\ tasks' = [tasks EXCEPT ![p][s] = NewTask(t)]

\* mutant: no test of the in-flight set
ScheduleNoDedup(p, t) ==
  /\ inflight' = [inflight EXCEPT ![p] = @ \cup {t}]
  /\ AddTask(p, t)

\* test and add are one step: they hold the lock
Schedule(p, t) ==
  \/ t \in inflight[p] /\ UNCHANGED refreshVars
  \/ /\ t \notin inflight[p]
     /\ inflight' = [inflight EXCEPT ![p] = @ \cup {t}]
     /\ AddTask(p, t)

TaskAt(p, s, pc) == tasks[p][s] # None /\ tasks[p][s].pc = pc

Advance(p, s, task) == tasks' = [tasks EXCEPT ![p][s] = task]

\* mutant: no discard
FinishKeepingName(p, s) ==
  /\ TaskAt(p, s, "finish")
  /\ Advance(p, s, None)
  /\ UNCHANGED inflight

\* the finally clause of _run
Finish(p, s) ==
  /\ TaskAt(p, s, "finish")
  /\ Advance(p, s, None)
  /\ inflight' = [inflight EXCEPT ![p] = @ \ {tasks[p][s].ticket}]

\* the process dies: the set and the tasks are in its memory
ForgetTasks(p) ==
  /\ inflight' = [inflight EXCEPT ![p] = {}]
  /\ tasks' = [tasks EXCEPT ![p] = [s \in Slot |-> None]]

(***************************************************************************)
(* BackgroundRefresher's promise: a process works on a ticket in at most    *)
(* one task at a time, and the in-flight set holds exactly the tickets it   *)
(* works on.  A name left behind by a failing task would never be refreshed *)
(* again; a name dropped early would let a second refresh in.               *)
(***************************************************************************)
Live(p) == {s \in Slot : tasks[p][s] # None}

InFlightExact ==
  \A p \in Proc :
    /\ inflight[p] = {tasks[p][s].ticket : s \in Live(p)}
    /\ \A r, s \in Live(p) : tasks[p][r].ticket = tasks[p][s].ticket => r = s
=============================================================================
