--------------------------- MODULE ServiceProofs ---------------------------
(***************************************************************************)
(* Theorems of Service, for every value of its constants, with their        *)
(* proofs.  TypeOK is not inductive: HookUpsert writes the record its       *)
(* handler carries, so a handler that is about to upsert must carry a       *)
(* Reusable one, and so on.  TypeInv says it.                               *)
(***************************************************************************)
EXTENDS Service, TLAPS

HandlerOK(h) ==
  /\ h \in Handler
  /\ h.pc \in HookPc \cup GetPc => h.ticket \in Ticket
  /\ h.pc = "hook_upsert" => h.rec \in Reusable
  /\ h.pc \in {"miss_search", "miss_put"} => h.rec \in Record

TaskOK(task) == task \in Task /\ (task.pc = "fetched" => task.text \in Text)

LoopInv == loop \in [Proc -> Handler] /\ \A p \in Proc : HandlerOK(loop[p])

TasksInv ==
  /\ tasks \in [Proc -> [Slot -> Task \cup {None}]]
  /\ \A p \in Proc, s \in Slot : tasks[p][s] # None => TaskOK(tasks[p][s])

TypeInv == TypeOK /\ LoopInv /\ TasksInv
-----------------------------------------------------------------------------
(* What a step puts on the loop or in a slot keeps the two invariants.      *)

LEMMA IdleOK == HandlerOK(Idle)
BY DistinctValues DEF HandlerOK, Idle, Handler, NoWork, Index, HookPc, GetPc

LEMMA LoopUpdate ==
  ASSUME LoopInv, NEW p \in Proc, NEW h, HandlerOK(h),
         loop' = [loop EXCEPT ![p] = h]
  PROVE  LoopInv'
BY DEF LoopInv, HandlerOK

LEMMA DoneOK ==
  ASSUME LoopInv, NEW p \in Proc, Done(p)
  PROVE  LoopInv'
BY LoopUpdate, IdleOK DEF Done

LEMMA GotoOK ==
  ASSUME LoopInv, NEW p \in Proc, NEW pc, Goto(p, pc),
         pc \in HookPc \cup GetPc \cup IngestPc,
         pc \notin {"hook_upsert", "miss_search", "miss_put"},
         loop[p].pc \in HookPc
  PROVE  LoopInv'
<1> DEFINE h == [loop[p] EXCEPT !.pc = pc]
<1>1. loop' = [loop EXCEPT ![p] = h]
  BY DEF Goto
<1>2. HandlerOK(h)
  BY DEF LoopInv, HandlerOK, Handler, HookPc, GetPc, IngestPc
<1> QED
  BY <1>1, <1>2, LoopUpdate

LEMMA BeginOK ==
  ASSUME LoopInv, NEW p \in Proc, NEW t \in Ticket, NEW pc,
         Begin(p, [Idle EXCEPT !.pc = pc, !.ticket = t]),
         pc \in {"hook_fetch", "get_schedule", "miss_fetch"}
  PROVE  LoopInv'
<1> DEFINE h == [Idle EXCEPT !.pc = pc, !.ticket = t]
<1>1. HandlerOK(h)
  BY IdleOK DEF HandlerOK, Idle, Handler, HookPc, GetPc, IngestPc
<1> QED
  BY <1>1, LoopUpdate DEF Begin

LEMMA NextToIngestOK ==
  ASSUME NEW work \in Index
  PROVE  HandlerOK(NextToIngest(work))
BY IdleOK DEF HandlerOK, NextToIngest, Idle, Handler, HookPc, GetPc, IngestPc

LEMMA AdvanceOK ==
  ASSUME TasksInv, NEW p \in Proc, NEW s \in Slot, NEW task,
         task = None \/ TaskOK(task), Advance(p, s, task)
  PROVE  TasksInv'
BY DEF TasksInv, TaskOK, Advance

LEMMA ScheduleOK ==
  ASSUME TasksInv, RefresherTypeOK, NEW p \in Proc, NEW t \in Ticket,
         Schedule(p, t)
  PROVE  TasksInv' /\ RefresherTypeOK'
<1>1. TaskOK(NewTask(t))
  BY DEF TaskOK, NewTask, Task, TaskPc
<1>2. CASE UNCHANGED refreshVars
  BY <1>2 DEF TasksInv, RefresherTypeOK, refreshVars
<1>3. CASE AddTask(p, t) /\ inflight' = [inflight EXCEPT ![p] = @ \cup {t}]
  <2>1. PICK s \in Slot : tasks' = [tasks EXCEPT ![p][s] = NewTask(t)]
    BY <1>3 DEF AddTask
  <2>2. TasksInv'
    BY <1>1, <2>1, AdvanceOK DEF Advance
  <2>3. inflight' \in [Proc -> SUBSET Ticket]
    BY <1>3 DEF RefresherTypeOK
  <2> QED
    BY <2>2, <2>3 DEF RefresherTypeOK, TasksInv
<1> QED
  BY <1>2, <1>3 DEF Schedule

LEMMA ForgetTasksOK ==
  ASSUME TasksInv, RefresherTypeOK, NEW p \in Proc, ForgetTasks(p)
  PROVE  TasksInv' /\ RefresherTypeOK'
BY DEF TasksInv, RefresherTypeOK, ForgetTasks

(* The operations on the stores.                                            *)

LEMMA GetTicketType ==
  ASSUME HelpdeskTypeOK, NEW t \in Ticket
  PROVE  /\ GetTicket(t) \in Record \cup {None}
         /\ Wanted(t) \in Reusable \cup {None}
         /\ (GetTicket(t) # None /\ Eligible(GetTicket(t))) =>
               GetTicket(t) \in Reusable /\ GetTicket(t) = Wanted(t)
         /\ ~(GetTicket(t) # None /\ Eligible(GetTicket(t))) => Wanted(t) = None
BY DistinctValues
   DEF HelpdeskTypeOK, GetTicket, Wanted, Eligible, Record, Reusable

LEMMA ListReusableType ==
  ASSUME HelpdeskTypeOK
  PROVE  ListReusable \in Index /\ \A t \in Ticket : ListReusable[t] = Wanted(t)
BY GetTicketType DEF ListReusable, Index

LEMMA SearchType ==
  ASSUME NEW t, NEW query
  PROVE  Search(t, query) \in SUBSET Entry
BY DEF Search, MatchesOf

LEMMA PutType ==
  ASSUME MatchCacheTypeOK, NEW t \in Ticket, NEW matches \in SUBSET Entry,
         Put(t, matches)
  PROVE  MatchCacheTypeOK'
BY DEF MatchCacheTypeOK, Put, Row

LEMMA MarkAllStaleType ==
  ASSUME MatchCacheTypeOK, MarkAllStale
  PROVE  MatchCacheTypeOK' /\ \A t \in Ticket : ~IsFresh(t)'
<1> DEFINE marked(t) == IF IsFresh(t) THEN [rows[t] EXCEPT !.stale = TRUE] ELSE rows[t]
<1>1. ASSUME NEW t \in Ticket
      PROVE  marked(t) \in Row \cup {None} /\ (marked(t) # None => marked(t).stale)
  BY DistinctValues DEF MatchCacheTypeOK, IsFresh, Row
<1>2. rows' = [t \in Ticket |-> marked(t)]
  BY DEF MarkAllStale
<1> QED
  BY <1>1, <1>2 DEF MatchCacheTypeOK, IsFresh
-----------------------------------------------------------------------------
LEMMA InitType == Init => TypeInv
<1> SUFFICES ASSUME Init PROVE TypeInv
  OBVIOUS
<1>1. HelpdeskTypeOK
  BY DEF Init, HelpdeskInit, HelpdeskTypeOK
<1>2. VectorStoreTypeOK
  BY <1>1, GetTicketType DEF Init, VectorStoreTypeOK, Index
<1>3. MatchCacheTypeOK /\ RefresherTypeOK /\ TasksInv
  BY DEF Init, MatchCacheInit, MatchCacheTypeOK, RefresherInit, RefresherTypeOK,
         TasksInv
<1>4. LoopInv
  BY IdleOK DEF Init, LoopInv, HandlerOK
<1> QED
  BY <1>1, <1>2, <1>3, <1>4 DEF Init, TypeInv, TypeOK, LoopInv

(* The Helpdesk and the webhooks under way.                                 *)
LEMMA HelpdeskStepType ==
  ASSUME HelpdeskTypeOK, HelpdeskStep
  PROVE  HelpdeskTypeOK'
<1>1. PICK t \in Ticket, value \in Record \cup {Trashed} : Write(t, value)
  BY DEF HelpdeskStep, Create, Update, Trash
<1> QED
  BY <1>1 DEF Write, HelpdeskTypeOK

LEMMA UnansweredType ==
  ASSUME HelpdeskTypeOK, LoopInv, lost \in SUBSET Ticket, NEW p \in Proc,
         Unanswered(p), UNCHANGED <<helpdesk, edits>>
  PROVE  HelpdeskTypeOK' /\ lost' \in SUBSET Ticket
BY DEF HelpdeskTypeOK, LoopInv, HandlerOK, Unanswered

LEMMA AfterIndexingOK ==
  ASSUME LoopInv, NEW p \in Proc, loop[p].pc \in HookPc, AfterIndexing(p)
  PROVE  LoopInv'
BY DoneOK, GotoOK DEF AfterIndexing, HookPc

LEMMA LoopTypes ==
  ASSUME LoopInv, NEW p \in Proc
  PROVE  /\ HandlerOK(loop[p])
         /\ loop[p].rec \in Record \cup {None}
         /\ loop[p].found \in SUBSET Entry
         /\ loop[p].work \in Index
         /\ loop[p].pc \in HookPc \cup GetPc => loop[p].ticket \in Ticket
BY DEF LoopInv, HandlerOK, Handler

(* A task that does not finish stays in its slot and keeps its ticket.      *)
LEMMA TaskMoves ==
  ASSUME TypeInv, NEW p \in Proc, NEW s \in Slot,
         \/ TaskFetch(p, s) \/ TaskSearch(p, s) \/ TaskPut(p, s) \/ TaskFail(p, s)
  PROVE  /\ tasks[p][s] # None /\ TaskOK(tasks[p][s])
         /\ UNCHANGED inflight
         /\ \E next : /\ TaskOK(next) /\ next.ticket = tasks[p][s].ticket
                      /\ Advance(p, s, next)
<1> DEFINE task == tasks[p][s]
<1>1. task # None /\ TaskOK(task)
  BY DEF TaskFetch, TaskSearch, TaskPut, TaskFail, TaskAt, TypeInv, TasksInv
<1>2. UNCHANGED inflight
  BY DEF TaskFetch, TaskSearch, TaskPut, TaskFail
<1>3. CASE TaskFetch(p, s)
  <2> DEFINE rec == GetTicket(task.ticket)
             next == IF rec = None THEN [task EXCEPT !.pc = "finish"]
                     ELSE [task EXCEPT !.pc = "fetched", !.text = rec.text]
  <2>1. rec \in Record \cup {None}
    BY <1>1, GetTicketType DEF TypeInv, TypeOK, TaskOK, Task
  <2>2. TaskOK(next) /\ next.ticket = task.ticket
    <3> HIDE DEF rec, task
    <3>1. CASE rec = None
      BY <3>1, <1>1 DEF TaskOK, Task, TaskPc
    <3>2. CASE rec \in Record
      BY <3>2, <1>1, DistinctValues DEF TaskOK, Task, TaskPc, Record
    <3> QED
      BY <2>1, <3>1, <3>2
  <2>3. Advance(p, s, next)
    BY <1>3 DEF TaskFetch
  <2> HIDE DEF next
  <2> QED
    BY <1>1, <1>2, <2>2, <2>3
<1>4. CASE TaskSearch(p, s)
  <2> DEFINE found == Search(task.ticket, task.text)
             next == [task EXCEPT !.pc = "searched", !.text = None,
                                  !.matches = found]
  <2>1. found \in SUBSET Entry
    BY SearchType
  <2>2. TaskOK(next) /\ next.ticket = task.ticket
    <3> HIDE DEF found, task
    <3> QED
      BY <1>1, <2>1 DEF TaskOK, Task, TaskPc
  <2>3. Advance(p, s, next)
    BY <1>4 DEF TaskSearch
  <2> HIDE DEF next
  <2> QED
    BY <1>1, <1>2, <2>2, <2>3
<1>5. CASE TaskPut(p, s)
  <2> DEFINE next == [task EXCEPT !.pc = "finish", !.matches = {}]
  <2>1. TaskOK(next) /\ next.ticket = task.ticket
    BY <1>1 DEF TaskOK, Task, TaskPc
  <2>2. Advance(p, s, next)
    BY <1>5 DEF TaskPut
  <2> HIDE DEF next
  <2> QED
    BY <1>1, <1>2, <2>1, <2>2
<1>6. CASE TaskFail(p, s)
  <2> DEFINE next == [task EXCEPT !.pc = "finish", !.text = None, !.matches = {}]
  <2>1. TaskOK(next) /\ next.ticket = task.ticket
    BY <1>1 DEF TaskOK, Task, TaskPc
  <2>2. Advance(p, s, next)
    BY <1>6 DEF TaskFail
  <2> HIDE DEF next
  <2> QED
    BY <1>1, <1>2, <2>1, <2>2
<1> QED
  BY <1>3, <1>4, <1>5, <1>6

LEMMA StepType == TypeInv /\ [Next]_vars => TypeInv'
<1> SUFFICES ASSUME TypeInv, [Next]_vars PROVE TypeInv'
  OBVIOUS
<1> USE DEF TypeInv, TypeOK
<1>1. CASE UNCHANGED vars
  BY <1>1 DEF vars, helpdeskVars, storeVars, refreshVars, histVars, HelpdeskTypeOK,
     VectorStoreTypeOK, MatchCacheTypeOK, RefresherTypeOK, LoopInv, TasksInv
<1>2. CASE HelpdeskStep
  BY <1>2, HelpdeskStepType DEF HelpdeskStep, storeVars, refreshVars, histVars,
     VectorStoreTypeOK, MatchCacheTypeOK, RefresherTypeOK, LoopInv, TasksInv
<1> USE DEF helpdeskVars, storeVars, refreshVars, histVars
<1>3. ASSUME NEW p \in Proc, NEW t \in Ticket, ReceiveWebhook(p, t)
      PROVE  TypeInv'
  <2>1. LoopInv'
    BY <1>3, BeginOK DEF ReceiveWebhook
  <2> QED
    BY <1>3, <2>1 DEF ReceiveWebhook, HelpdeskTypeOK, VectorStoreTypeOK,
       MatchCacheTypeOK, RefresherTypeOK, LoopInv, TasksInv
<1>4. ASSUME NEW p \in Proc, NEW t \in Ticket, GetLookup(p, t)
      PROVE  TypeInv'
  <2>1. LoopInv'
    BY <1>4, BeginOK DEF GetLookup
  <2> QED
    BY <1>4, <2>1 DEF GetLookup, HelpdeskTypeOK, VectorStoreTypeOK,
       MatchCacheTypeOK, RefresherTypeOK, LoopInv, TasksInv
<1>5. ASSUME NEW p \in Proc, IngestList(p)
      PROVE  TypeInv'
  <2>1. LoopInv'
    BY <1>5, ListReusableType, NextToIngestOK, LoopUpdate DEF IngestList, Begin
  <2> QED
    BY <1>5, <2>1 DEF IngestList, HelpdeskTypeOK, VectorStoreTypeOK,
       MatchCacheTypeOK, RefresherTypeOK, LoopInv, TasksInv
<1>6. ASSUME NEW p \in Proc, HookFetch(p)
      PROVE  TypeInv'
  <2> DEFINE rec == GetTicket(loop[p].ticket)
             h == [loop[p] EXCEPT !.pc = AfterFetch(rec), !.rec = rec]
  <2>1. loop[p].ticket \in Ticket
    BY <1>6, LoopTypes DEF HookFetch, HookPc
  <2>2. HandlerOK(h)
    BY <2>1, LoopTypes, GetTicketType
       DEF HandlerOK, Handler, AfterFetch, HookPc, GetPc
  <2>3. LoopInv'
    BY <1>6, <2>2, LoopUpdate DEF HookFetch
  <2> QED
    BY <1>6, <2>1, <2>3 DEF HookFetch, HelpdeskTypeOK, VectorStoreTypeOK,
       MatchCacheTypeOK, RefresherTypeOK, LoopInv, TasksInv
<1>7. ASSUME NEW p \in Proc, HookUpsert(p)
      PROVE  TypeInv'
  <2>1. LoopInv'
    BY <1>7, GotoOK DEF HookUpsert, HookPc
  <2>2. loop[p].ticket \in Ticket /\ loop[p].rec \in Reusable
    BY <1>7, LoopTypes DEF HookUpsert, HandlerOK, HookPc
  <2>3. VectorStoreTypeOK'
    BY <1>7, <2>2 DEF HookUpsert, Upsert, VectorStoreTypeOK, Index
  <2> QED
    BY <1>7, <2>1, <2>3 DEF HookUpsert, HelpdeskTypeOK, MatchCacheTypeOK,
       RefresherTypeOK, LoopInv, TasksInv
<1>8. ASSUME NEW p \in Proc, HookRetrieve(p)
      PROVE  TypeInv'
  <2>1. LoopInv'
    BY <1>8, GotoOK, AfterIndexingOK DEF HookRetrieve, HookPc
  <2> QED
    BY <1>8, <2>1 DEF HookRetrieve, HelpdeskTypeOK, VectorStoreTypeOK,
       MatchCacheTypeOK, RefresherTypeOK, LoopInv, TasksInv
<1>9. ASSUME NEW p \in Proc, HookDelete(p)
      PROVE  TypeInv'
  <2>1. LoopInv'
    BY <1>9, GotoOK DEF HookDelete, HookPc
  <2>2. VectorStoreTypeOK'
    BY <1>9 DEF HookDelete, DeletePoint, VectorStoreTypeOK, Index
  <2> QED
    BY <1>9, <2>1, <2>2 DEF HookDelete, HelpdeskTypeOK, MatchCacheTypeOK,
       RefresherTypeOK, LoopInv, TasksInv
<1>10. ASSUME NEW p \in Proc, HookMark(p)
       PROVE  TypeInv'
  <2>1. LoopInv'
    BY <1>10, AfterIndexingOK DEF HookMark, HookPc
  <2>2. MatchCacheTypeOK'
    BY <1>10, MarkAllStaleType DEF HookMark
  <2> QED
    BY <1>10, <2>1, <2>2 DEF HookMark, MarkHistory, HelpdeskTypeOK,
       VectorStoreTypeOK, RefresherTypeOK, LoopInv, TasksInv
<1>11. ASSUME NEW p \in Proc, HookLookup(p)
       PROVE  TypeInv'
  <2>1. LoopInv'
    BY <1>11, GotoOK, DoneOK DEF HookLookup, HookPc
  <2> QED
    BY <1>11, <2>1 DEF HookLookup, HelpdeskTypeOK, VectorStoreTypeOK,
       MatchCacheTypeOK, RefresherTypeOK, LoopInv, TasksInv
<1>12. ASSUME NEW p \in Proc, HookSchedule(p) \/ GetSchedule(p)
       PROVE  TypeInv'
  <2>1. LoopInv'
    BY <1>12, DoneOK DEF HookSchedule, GetSchedule
  <2>2. loop[p].ticket \in Ticket
    BY <1>12, LoopTypes DEF HookSchedule, GetSchedule, HookPc, GetPc
  <2>3. TasksInv' /\ RefresherTypeOK'
    BY <1>12, <2>2, ScheduleOK DEF HookSchedule, GetSchedule
  <2> QED
    BY <1>12, <2>1, <2>3 DEF HookSchedule, GetSchedule, HelpdeskTypeOK,
       VectorStoreTypeOK, MatchCacheTypeOK, LoopInv
<1>13. ASSUME NEW p \in Proc, MissFetch(p)
       PROVE  TypeInv'
  <2> DEFINE rec == GetTicket(loop[p].ticket)
             h == [loop[p] EXCEPT !.pc = "miss_search", !.rec = rec]
  <2>1. loop[p].ticket \in Ticket
    BY <1>13, LoopTypes DEF MissFetch, GetPc
  <2>2. rec # None => HandlerOK(h)
    BY <2>1, LoopTypes, GetTicketType DEF HandlerOK, Handler, HookPc, GetPc
  <2>3. LoopInv'
    BY <1>13, <2>2, LoopUpdate, DoneOK DEF MissFetch
  <2> QED
    BY <1>13, <2>3 DEF MissFetch, HelpdeskTypeOK, VectorStoreTypeOK,
       MatchCacheTypeOK, RefresherTypeOK, LoopInv, TasksInv
<1>14. ASSUME NEW p \in Proc, MissSearch(p)
       PROVE  TypeInv'
  <2> DEFINE found == Search(loop[p].ticket, loop[p].rec.text)
             h == [loop[p] EXCEPT !.pc = "miss_put", !.found = found]
  <2>1. found \in SUBSET Entry
    BY SearchType
  <2>2. HandlerOK(h)
    <3> HIDE DEF found
    <3> QED
      BY <1>14, <2>1, LoopTypes DEF MissSearch, HandlerOK, Handler, HookPc, GetPc
  <2>3. LoopInv'
    BY <1>14, <2>2, LoopUpdate DEF MissSearch
  <2> QED
    BY <1>14, <2>3 DEF MissSearch, HelpdeskTypeOK, VectorStoreTypeOK,
       MatchCacheTypeOK, RefresherTypeOK, LoopInv, TasksInv
<1>15. ASSUME NEW p \in Proc, MissPut(p)
       PROVE  TypeInv'
  <2>1. LoopInv'
    BY <1>15, DoneOK DEF MissPut
  <2>2. MatchCacheTypeOK'
    BY <1>15, LoopTypes, PutType DEF MissPut, GetPc
  <2> QED
    BY <1>15, <2>1, <2>2 DEF MissPut, HelpdeskTypeOK, VectorStoreTypeOK,
       RefresherTypeOK, LoopInv, TasksInv
<1>16. ASSUME NEW p \in Proc, NEW t \in Ticket, IngestUpsert(p, t)
       PROVE  TypeInv'
  <2> DEFINE h == [loop[p] EXCEPT !.pc = "ingest_mark", !.work = [@ EXCEPT ![t] = None]]
  <2>1. loop[p].work \in Index /\ loop[p].work[t] \in Reusable
    BY <1>16, LoopTypes DEF IngestUpsert, Index
  <2>2. HandlerOK(h)
    BY <2>1, LoopTypes DEF HandlerOK, Handler, Index, HookPc, GetPc, IngestPc
  <2>3. LoopInv'
    BY <1>16, <2>2, LoopUpdate DEF IngestUpsert
  <2>4. VectorStoreTypeOK'
    BY <1>16, <2>1 DEF IngestUpsert, Upsert, VectorStoreTypeOK, Index
  <2> QED
    BY <1>16, <2>3, <2>4 DEF IngestUpsert, HelpdeskTypeOK, MatchCacheTypeOK,
       RefresherTypeOK, LoopInv, TasksInv
<1>17. ASSUME NEW p \in Proc, IngestMark(p)
       PROVE  TypeInv'
  <2>1. LoopInv'
    BY <1>17, LoopTypes, NextToIngestOK, LoopUpdate DEF IngestMark
  <2>2. MatchCacheTypeOK'
    BY <1>17, MarkAllStaleType DEF IngestMark
  <2> QED
    BY <1>17, <2>1, <2>2 DEF IngestMark, MarkHistory, HelpdeskTypeOK,
       VectorStoreTypeOK, RefresherTypeOK, LoopInv, TasksInv
<1>18. ASSUME NEW p \in Proc, HandlerFail(p)
       PROVE  TypeInv'
  <2>1. LoopInv'
    BY <1>18, DoneOK DEF HandlerFail
  <2>2. HelpdeskTypeOK' /\ lost' \in SUBSET Ticket
    BY <1>18, UnansweredType DEF HandlerFail
  <2> QED
    BY <1>18, <2>1, <2>2 DEF HandlerFail, Fault, VectorStoreTypeOK,
       MatchCacheTypeOK, RefresherTypeOK, LoopInv, TasksInv
<1>19. ASSUME NEW p \in Proc, Crash(p)
       PROVE  TypeInv'
  <2>1. LoopInv'
    BY <1>19, DoneOK DEF Crash
  <2>2. HelpdeskTypeOK' /\ lost' \in SUBSET Ticket
    BY <1>19, UnansweredType DEF Crash
  <2>3. TasksInv' /\ RefresherTypeOK'
    BY <1>19, ForgetTasksOK DEF Crash
  <2> QED
    BY <1>19, <2>1, <2>2, <2>3 DEF Crash, Fault, VectorStoreTypeOK,
       MatchCacheTypeOK, LoopInv
<1>20. ASSUME NEW p \in Proc, NEW s \in Slot, TaskStep(p, s) \/ TaskFail(p, s)
       PROVE  TypeInv'
  <2> DEFINE task == tasks[p][s]
  <2>1. CASE TaskFinish(p, s)
    <3>1. TasksInv'
      BY <2>1, AdvanceOK DEF TaskFinish, Finish
    <3>2. inflight' \in [Proc -> SUBSET Ticket]
      BY <2>1 DEF TaskFinish, Finish, RefresherTypeOK
    <3> QED
      BY <2>1, <3>1, <3>2 DEF TaskFinish, HelpdeskTypeOK, VectorStoreTypeOK,
         MatchCacheTypeOK, RefresherTypeOK, LoopInv, TasksInv
  <2>2. CASE ~TaskFinish(p, s)
    <3>1. TaskOK(task) /\ UNCHANGED inflight /\ TasksInv'
      BY <1>20, <2>2, TaskMoves, AdvanceOK DEF TaskStep
    <3>2. MatchCacheTypeOK' /\ overtaken' \in SUBSET Ticket
      <4>1. CASE TaskPut(p, s)
        BY <3>1, <4>1, PutType DEF TaskPut, TaskOK, Task
      <4>2. CASE ~TaskPut(p, s)
        BY <1>20, <2>2, <4>2
           DEF TaskStep, TaskFetch, TaskSearch, TaskFail, MatchCacheTypeOK
      <4> QED
        BY <4>1, <4>2
    <3> QED
      BY <1>20, <2>2, <3>1, <3>2
         DEF TaskStep, TaskFetch, TaskSearch, TaskPut, TaskFail, Fault,
             HelpdeskTypeOK, VectorStoreTypeOK, RefresherTypeOK, LoopInv, TasksInv
  <2> QED
    BY <2>1, <2>2
<1> QED
  BY <1>1, <1>2, <1>3, <1>4, <1>5, <1>6, <1>7, <1>8, <1>9, <1>10, <1>11, <1>12,
     <1>13, <1>14, <1>15, <1>16, <1>17, <1>18, <1>19, <1>20
     DEF Next, HandlerStep

LEMMA TypeInvariant == Spec => []TypeInv
<1>1. Init => TypeInv
  BY InitType
<1>2. TypeInv /\ [Next]_vars => TypeInv'
  BY StepType
<1> QED
  BY <1>1, <1>2, PTL DEF Spec

(***************************************************************************)
(* Type correctness: whatever the order of webhooks, reads, refreshes,      *)
(* failures and restarts, the index holds Reusable Tickets only, the cache  *)
(* rows of Matches, and every handler a well-formed state.                  *)
(***************************************************************************)
THEOREM TypeCorrect == Spec => []TypeOK
BY TypeInvariant, PTL DEF TypeInv
-----------------------------------------------------------------------------
(* The in-flight set.                                                       *)

LEMMA InFlightAdvance ==
  ASSUME InFlightExact, TasksInv, NEW p \in Proc, NEW s \in Slot, NEW task,
         tasks[p][s] # None, task # None, task.ticket = tasks[p][s].ticket,
         Advance(p, s, task), UNCHANGED inflight
  PROVE  InFlightExact'
<1>1. \A q \in Proc : Live(q)' = Live(q)
  BY DEF Live, Advance, TasksInv
<1>2. \A q \in Proc : \A r \in Live(q) :
         tasks'[q][r].ticket = tasks[q][r].ticket
  BY DEF Live, Advance, TasksInv
<1> QED
  BY <1>1, <1>2 DEF InFlightExact

LEMMA InFlightSchedule ==
  ASSUME InFlightExact, TasksInv, RefresherTypeOK,
         NEW p \in Proc, NEW t \in Ticket, Schedule(p, t)
  PROVE  InFlightExact'
<1>1. CASE UNCHANGED refreshVars
  BY <1>1 DEF InFlightExact, Live, refreshVars
<1>2. CASE t \notin inflight[p] /\ AddTask(p, t)
             /\ inflight' = [inflight EXCEPT ![p] = @ \cup {t}]
  <2>1. PICK s \in Slot : /\ tasks[p][s] = None
                          /\ tasks' = [tasks EXCEPT ![p][s] = NewTask(t)]
    BY <1>2 DEF AddTask
  <2>2. NewTask(t) # None /\ NewTask(t).ticket = t
    BY NoneIsNoTask DEF NewTask, Task, TaskPc
  <2>3. /\ Live(p)' = Live(p) \cup {s}
        /\ \A q \in Proc : q # p => Live(q)' = Live(q) /\ tasks'[q] = tasks[q]
        /\ \A r \in Live(p) : r # s /\ tasks'[p][r] = tasks[p][r]
        /\ tasks'[p][s] = NewTask(t)
    BY <2>1, <2>2 DEF Live, TasksInv
  <2>4. \A q \in Proc : inflight'[q] = IF q = p THEN inflight[p] \cup {t}
                                       ELSE inflight[q]
    BY <1>2 DEF RefresherTypeOK
  <2>5. \A r \in Live(p) : tasks[p][r].ticket # t
    BY <1>2 DEF InFlightExact
  <2>6. inflight'[p] = {tasks'[p][r].ticket : r \in Live(p)'}
    <3>1. inflight[p] = {tasks[p][r].ticket : r \in Live(p)}
      BY DEF InFlightExact
    <3>2. {tasks'[p][r].ticket : r \in Live(p) \cup {s}}
             = {tasks[p][r].ticket : r \in Live(p)} \cup {t}
      BY <2>2, <2>3
    <3> QED
      BY <2>3, <2>4, <3>1, <3>2
  <2>7. \A r1, r2 \in Live(p)' :
           tasks'[p][r1].ticket = tasks'[p][r2].ticket => r1 = r2
    BY <2>2, <2>3, <2>5 DEF InFlightExact
  <2> QED
    BY <2>3, <2>4, <2>6, <2>7 DEF InFlightExact
<1> QED
  BY <1>1, <1>2 DEF Schedule

LEMMA InFlightFinish ==
  ASSUME InFlightExact, TasksInv, RefresherTypeOK,
         NEW p \in Proc, NEW s \in Slot, Finish(p, s)
  PROVE  InFlightExact'
<1> DEFINE t == tasks[p][s].ticket
<1>1. s \in Live(p)
  BY DEF Finish, TaskAt, Live
<1>2. /\ Live(p)' = Live(p) \ {s}
      /\ \A q \in Proc : q # p => Live(q)' = Live(q) /\ tasks'[q] = tasks[q]
      /\ \A r \in Live(p) : r # s => tasks'[p][r] = tasks[p][r]
  BY DEF Finish, Advance, Live, TasksInv
<1>3. \A q \in Proc : inflight'[q] = IF q = p THEN inflight[p] \ {t}
                                     ELSE inflight[q]
  BY DEF Finish, RefresherTypeOK
<1>4. inflight'[p] = {tasks'[p][r].ticket : r \in Live(p)'}
  <2>1. inflight[p] = {tasks[p][r].ticket : r \in Live(p)}
    BY DEF InFlightExact
  <2>2. \A r \in Live(p) : tasks[p][r].ticket = t => r = s
    BY <1>1 DEF InFlightExact
  <2>3. {tasks[p][r].ticket : r \in Live(p)} \ {t}
           = {tasks'[p][r].ticket : r \in Live(p) \ {s}}
    BY <1>2, <2>2
  <2> QED
    BY <1>2, <1>3, <2>1, <2>3
<1>5. \A r1, r2 \in Live(p)' :
         tasks'[p][r1].ticket = tasks'[p][r2].ticket => r1 = r2
  BY <1>2 DEF InFlightExact
<1> QED
  BY <1>2, <1>3, <1>4, <1>5 DEF InFlightExact

LEMMA InFlightForget ==
  ASSUME InFlightExact, TasksInv, RefresherTypeOK, NEW p \in Proc, ForgetTasks(p)
  PROVE  InFlightExact'
<1>1. /\ Live(p)' = {} /\ inflight'[p] = {}
      /\ \A q \in Proc : q # p => /\ Live(q)' = Live(q) /\ tasks'[q] = tasks[q]
                                  /\ inflight'[q] = inflight[q]
  BY DEF ForgetTasks, Live, TasksInv, RefresherTypeOK
<1> QED
  BY <1>1 DEF InFlightExact

LEMMA InFlightStep == TypeInv /\ InFlightExact /\ [Next]_vars => InFlightExact'
<1> SUFFICES ASSUME TypeInv, InFlightExact, [Next]_vars
             PROVE  InFlightExact'
  OBVIOUS
<1> USE DEF TypeInv, TypeOK
<1>1. CASE UNCHANGED refreshVars
  BY <1>1 DEF InFlightExact, Live, refreshVars
<1>2. ASSUME NEW p \in Proc, HookSchedule(p) \/ GetSchedule(p)
      PROVE  InFlightExact'
  <2>1. loop[p].ticket \in Ticket
    BY <1>2, LoopTypes DEF HookSchedule, GetSchedule, HookPc, GetPc
  <2> QED
    BY <1>2, <2>1, InFlightSchedule DEF HookSchedule, GetSchedule
<1>3. ASSUME NEW p \in Proc, Crash(p)
      PROVE  InFlightExact'
  BY <1>3, InFlightForget DEF Crash
<1>4. ASSUME NEW p \in Proc, NEW s \in Slot, TaskStep(p, s) \/ TaskFail(p, s)
      PROVE  InFlightExact'
  <2>1. CASE TaskFinish(p, s)
    BY <2>1, InFlightFinish DEF TaskFinish
  <2>2. CASE ~TaskFinish(p, s)
    BY <1>4, <2>2, TaskMoves, InFlightAdvance, NoneIsNoTask DEF TaskStep, TaskOK
  <2> QED
    BY <2>1, <2>2
<1> QED
  BY <1>1, <1>2, <1>3, <1>4
     DEF Next, vars, HelpdeskStep, ReceiveWebhook, GetLookup, IngestList,
         HandlerStep, HookFetch, HookUpsert, HookRetrieve, HookDelete, HookMark,
         HookLookup, MissFetch, MissSearch, MissPut, IngestUpsert, IngestMark,
         HandlerFail

(***************************************************************************)
(* In every process the in-flight set names exactly the tickets that have a *)
(* background task, each one task, whatever fails and however the handlers  *)
(* and tasks interleave: BackgroundRefresher.schedule and _run.             *)
(***************************************************************************)
THEOREM InFlightCorrect == Spec => []InFlightExact
<1>1. Init => InFlightExact
  BY DEF Init, RefresherInit, InFlightExact, Live
<1>2. TypeInv /\ InFlightExact /\ [Next]_vars => InFlightExact'
  BY InFlightStep
<1> QED
  BY <1>1, <1>2, TypeInvariant, PTL DEF Spec
-----------------------------------------------------------------------------
(* In one process, the index follows the Helpdesk.  SourceInv adds what a    *)
(* handler is about to write: the record it fetched, or one of a list, is    *)
(* still the wanted one, or a webhook announces (or lost) the newer one.     *)

OneProcess == \A p, q \in Proc : p = q

Announced(t) == t \in pending \cup lost

HookWrites(p) ==
  LET t == loop[p].ticket IN
  /\ loop[p].pc = "hook_upsert" => loop[p].rec = Wanted(t) \/ Announced(t)
  /\ loop[p].pc \in {"hook_retrieve", "hook_delete"} =>
        Wanted(t) = None \/ Announced(t)

IngestWrites(p) ==
  loop[p].pc \in IngestPc =>
    \A t \in Ticket : loop[p].work[t] # None =>
      loop[p].work[t] = Wanted(t) \/ Announced(t)

SourceInv ==
  /\ IndexTracksHelpdesk
  /\ \A p \in Proc : HookWrites(p) /\ IngestWrites(p)

(* In one process, what a live miss found is what the index gives.           *)

MissIsCurrent ==
  \A p \in Proc : loop[p].pc = "miss_put" =>
    loop[p].found = Search(loop[p].ticket, loop[p].rec.text)

Sourced(p) ==
  /\ \A t \in Ticket :
       \/ index[t] = Wanted(t) \/ Announced(t)
       \/ loop[p].ticket = t /\ loop[p].pc \in BeforeIndexing
  /\ HookWrites(p) /\ IngestWrites(p)

LEMMA SourcedOne ==
  ASSUME OneProcess, NEW p \in Proc
  PROVE  (SourceInv <=> Sourced(p)) /\ (SourceInv' <=> Sourced(p)')
BY DEF OneProcess, SourceInv, Sourced, IndexTracksHelpdesk, Handled, Announced

(* The end of a handler, at a point where its ticket is in order.           *)
LEMMA SourcedDone ==
  ASSUME LoopInv, NEW p \in Proc, loop'[p] = Idle,
         \A t \in Ticket : index'[t] = Wanted(t)' \/ Announced(t)'
  PROVE  Sourced(p)'
BY DEF Sourced, HookWrites, IngestWrites, Idle, IngestPc

LEMMA GotoResult ==
  ASSUME LoopInv, NEW p \in Proc, NEW pc, Goto(p, pc)
  PROVE  /\ loop'[p].pc = pc
         /\ loop'[p].ticket = loop[p].ticket
         /\ loop'[p].rec = loop[p].rec
         /\ loop'[p].found = loop[p].found
         /\ loop'[p].work = loop[p].work
<1>1. loop'[p] = [loop[p] EXCEPT !.pc = pc]
  BY DEF Goto, LoopInv
<1>2. loop[p] \in Handler
  BY DEF LoopInv
<1> QED
  BY <1>1, <1>2 DEF Handler

LEMMA SourceStep ==
  ASSUME OneProcess
  PROVE  TypeInv /\ SourceInv /\ [Next]_vars => SourceInv'
<1> SUFFICES ASSUME TypeInv, SourceInv, [Next]_vars PROVE SourceInv'
  OBVIOUS
<1>t. LoopInv /\ HelpdeskTypeOK /\ VectorStoreTypeOK
  BY DEF TypeInv, TypeOK
<1>1. CASE UNCHANGED <<helpdesk, pending, lost, index, loop>>
  BY <1>1 DEF SourceInv, IndexTracksHelpdesk, HookWrites, IngestWrites, Announced,
     Wanted, Handled
<1>2. CASE HelpdeskStep
  <2>1. PICK t \in Ticket, value \in Record \cup {Trashed} : Write(t, value)
    BY <1>2 DEF HelpdeskStep, Create, Update, Trash
  <2>2. \A u \in Ticket : /\ Announced(u) => Announced(u)'
                          /\ u # t => Wanted(u)' = Wanted(u)
    BY <2>1, <1>2, <1>t
       DEF Write, HelpdeskStep, histVars, Announced, Wanted, HelpdeskTypeOK
  <2>3. Announced(t)'
    BY <2>1 DEF Write, Announced
  <2>4. UNCHANGED <<index, loop>>
    BY <1>2 DEF HelpdeskStep, storeVars
  <2>5. \A p \in Proc : HookWrites(p)' /\ IngestWrites(p)'
    BY <2>2, <2>3, <2>4, LoopTypes, <1>t
       DEF SourceInv, HookWrites, IngestWrites, HookPc
  <2> QED
    BY <2>2, <2>3, <2>4, <2>5
       DEF SourceInv, IndexTracksHelpdesk, Announced, Handled
<1>3. ASSUME NEW p \in Proc,
             \/ \E t \in Ticket : ReceiveWebhook(p, t) \/ GetLookup(p, t)
             \/ IngestList(p) \/ HandlerStep(p) \/ HandlerFail(p) \/ Crash(p)
      PROVE  SourceInv'
  <2> SUFFICES Sourced(p)'
    BY SourcedOne
  <2>0. Sourced(p) /\ HandlerOK(loop[p])
    BY SourcedOne, LoopTypes, <1>t
  <2> DEFINE name == loop[p].ticket
             h    == loop'[p]
  <2>f. \A x : loop' = [loop EXCEPT ![p] = x] => h = x
    BY <1>t DEF LoopInv
  <2>i. Done(p) => h = Idle
    BY <2>f DEF Done
  <2>g. \A pc : Goto(p, pc) => h.pc = pc /\ h.ticket = name
    BY <1>t, GotoResult
  <2>a. AfterIndexing(p) => h.pc \in {"idle", "hook_lookup"}
    BY <2>i, <2>g DEF AfterIndexing, Idle
  <2>u. ASSUME UNCHANGED <<helpdesk, pending, lost>>
        PROVE  \A t \in Ticket : Wanted(t)' = Wanted(t) /\ (Announced(t)' <=> Announced(t))
    BY <2>u DEF Wanted, Announced
  <2>1. ASSUME NEW t \in Ticket, ReceiveWebhook(p, t)
        PROVE  Sourced(p)'
    <3>1. loop[p] = Idle /\ h.pc = "hook_fetch" /\ h.ticket = t
      BY <2>1, <2>f DEF ReceiveWebhook, Begin, Idle
    <3>2. \A u \in Ticket : Wanted(u)' = Wanted(u)
      BY <2>1 DEF ReceiveWebhook, Wanted
    <3>3. \A u \in Ticket : u # t => (Announced(u)' <=> Announced(u))
      BY <2>1 DEF ReceiveWebhook, histVars, Announced
    <3>4. index' = index
      BY <2>1 DEF ReceiveWebhook, storeVars
    <3>5. \A u \in Ticket : index[u] = Wanted(u) \/ Announced(u)
      BY <3>1, <2>0 DEF Sourced, Idle, BeforeIndexing
    <3> QED
      BY <3>1, <3>2, <3>3, <3>4, <3>5
         DEF Sourced, HookWrites, IngestWrites, IngestPc, BeforeIndexing
  <2>2. ASSUME NEW t \in Ticket, GetLookup(p, t)
        PROVE  Sourced(p)'
    <3>1. loop[p] = Idle /\ h.pc \in GetPc
      BY <2>2, <2>f DEF GetLookup, Begin, Idle, GetPc
    <3>2. UNCHANGED <<helpdesk, pending, lost, index>>
      BY <2>2 DEF GetLookup, helpdeskVars, storeVars, histVars
    <3> QED
      BY <3>1, <3>2, <2>0, <2>u
         DEF Sourced, HookWrites, IngestWrites, IngestPc, GetPc, BeforeIndexing, Idle
  <2>3. CASE IngestList(p)
    <3>1. loop[p] = Idle /\ h = NextToIngest(ListReusable)
      BY <2>3, <2>f DEF IngestList, Begin
    <3>2. UNCHANGED <<helpdesk, pending, lost, index>>
      BY <2>3 DEF IngestList, helpdeskVars, storeVars, histVars
    <3>3. \/ h = Idle
          \/ h.pc = "ingest_upsert" /\ h.work = ListReusable
      BY <3>1 DEF NextToIngest, Idle
    <3> QED
      BY <3>1, <3>2, <3>3, <2>0, <2>u, ListReusableType, <1>t
         DEF Sourced, HookWrites, IngestWrites, IngestPc, BeforeIndexing, Idle
  <2>4. CASE HookFetch(p)
    <3>1. /\ loop[p].pc = "hook_fetch" /\ name \in Ticket
          /\ h = [loop[p] EXCEPT !.pc = AfterFetch(GetTicket(name)),
                                 !.rec = GetTicket(name)]
      BY <2>4, <2>0, <1>t DEF HookFetch, LoopInv, HandlerOK, HookPc
    <3>2. /\ h.pc = AfterFetch(GetTicket(name)) /\ h.ticket = name
          /\ h.rec = GetTicket(name)
      BY <3>1, <2>0 DEF HandlerOK, Handler
    <3>3. /\ \A u \in Ticket : Wanted(u)' = Wanted(u)
          /\ \A u \in Ticket : u # name => (Announced(u)' <=> Announced(u))
          /\ index' = index
      BY <2>4 DEF HookFetch, helpdeskVars, storeVars, Wanted, Announced
    <3>4. /\ h.pc = "hook_upsert" => h.rec = Wanted(name)
          /\ h.pc = "hook_retrieve" => Wanted(name) = None
          /\ h.pc \in {"hook_upsert", "hook_retrieve"}
      BY <3>1, <3>2, GetTicketType, <1>t DEF AfterFetch
    <3> QED
      BY <3>1, <3>2, <3>3, <3>4, <2>0
         DEF Sourced, HookWrites, IngestWrites, IngestPc, BeforeIndexing
  <2>5. CASE HookUpsert(p)
    <3>1. loop[p].pc = "hook_upsert" /\ name \in Ticket
      BY <2>5, <2>0 DEF HookUpsert, HandlerOK, HookPc
    <3>2. h.pc = "hook_mark"
      BY <2>5, <2>g DEF HookUpsert
    <3>3. UNCHANGED <<helpdesk, pending, lost>>
      BY <2>5 DEF HookUpsert, helpdeskVars, histVars
    <3>4. /\ index'[name] = loop[p].rec
          /\ \A u \in Ticket : u # name => index'[u] = index[u]
      BY <2>5, <3>1, <1>t DEF HookUpsert, Upsert, VectorStoreTypeOK, Index
    <3> QED
      BY <3>1, <3>2, <3>3, <3>4, <2>0, <2>u
         DEF Sourced, HookWrites, IngestWrites, IngestPc, BeforeIndexing
  <2>6. CASE HookRetrieve(p)
    <3>1. loop[p].pc = "hook_retrieve" /\ name \in Ticket
      BY <2>6, <2>0 DEF HookRetrieve, HandlerOK, HookPc
    <3>2. UNCHANGED <<helpdesk, pending, lost, index>>
      BY <2>6 DEF HookRetrieve, helpdeskVars, storeVars, histVars
    <3>3. \/ h.pc = "hook_delete" /\ h.ticket = name
          \/ h.pc \in {"idle", "hook_lookup"} /\ index[name] = None
      BY <2>6, <2>g, <2>a DEF HookRetrieve, Exists
    <3>4. Wanted(name) = None \/ Announced(name)
      BY <3>1, <2>0 DEF Sourced, HookWrites
    <3>5. \A u \in Ticket : u # name => index[u] = Wanted(u) \/ Announced(u)
      BY <2>0 DEF Sourced
    <3>6. \A t \in Ticket : \/ index'[t] = Wanted(t)' \/ Announced(t)'
                            \/ h.ticket = t /\ h.pc = "hook_delete"
      BY <3>2, <3>3, <3>4, <3>5, <2>u
    <3>7. HookWrites(p)' /\ IngestWrites(p)'
      BY <3>1, <3>2, <3>3, <3>4, <2>u DEF HookWrites, IngestWrites, IngestPc
    <3> QED
      BY <3>6, <3>7 DEF Sourced, BeforeIndexing
  <2>7. CASE HookDelete(p)
    <3>1. loop[p].pc = "hook_delete" /\ name \in Ticket
      BY <2>7, <2>0 DEF HookDelete, HandlerOK, HookPc
    <3>2. h.pc = "hook_mark"
      BY <2>7, <2>g DEF HookDelete
    <3>3. UNCHANGED <<helpdesk, pending, lost>>
      BY <2>7 DEF HookDelete, helpdeskVars, histVars
    <3>4. /\ index'[name] = None
          /\ \A u \in Ticket : u # name => index'[u] = index[u]
      BY <2>7, <3>1, <1>t DEF HookDelete, DeletePoint, VectorStoreTypeOK, Index
    <3>5. Wanted(name) = None \/ Announced(name)
      BY <3>1, <2>0 DEF Sourced, HookWrites
    <3>6. \A u \in Ticket : u # name => index[u] = Wanted(u) \/ Announced(u)
      BY <2>0 DEF Sourced
    <3>7. \A t \in Ticket : index'[t] = Wanted(t)' \/ Announced(t)'
      BY <3>3, <3>4, <3>5, <3>6, <2>u
    <3> QED
      BY <3>2, <3>7 DEF Sourced, HookWrites, IngestWrites, IngestPc
  <2>8. CASE HookMark(p) \/ HookLookup(p)
    <3>1. loop[p].pc \in {"hook_mark", "hook_lookup"}
      BY <2>8 DEF HookMark, HookLookup
    <3>2. UNCHANGED <<helpdesk, pending, lost, index>>
      BY <2>8 DEF HookMark, HookLookup, MarkHistory, helpdeskVars, storeVars, histVars
    <3>3. h.pc \in {"idle", "hook_lookup", "hook_schedule"}
      BY <2>8, <2>i, <2>g, <2>a DEF HookMark, HookLookup, Idle
    <3>4. \A t \in Ticket : index[t] = Wanted(t) \/ Announced(t)
      BY <3>1, <2>0 DEF Sourced, BeforeIndexing
    <3>5. \A t \in Ticket : index'[t] = Wanted(t)' \/ Announced(t)'
      BY <3>2, <3>4, <2>u
    <3> QED
      BY <3>1, <3>3, <3>5 DEF Sourced, HookWrites, IngestWrites, IngestPc
  <2>9. CASE HookSchedule(p) \/ GetSchedule(p) \/ MissPut(p)
    <3>1. loop[p].pc \in {"hook_schedule", "get_schedule", "miss_put"} /\ h = Idle
      BY <2>9, <2>i DEF HookSchedule, GetSchedule, MissPut
    <3>2. UNCHANGED <<helpdesk, pending, lost, index>>
      BY <2>9 DEF HookSchedule, GetSchedule, MissPut, helpdeskVars, storeVars, histVars
    <3> QED
      BY <3>1, <3>2, <2>0, <2>u, <1>t, SourcedDone DEF Sourced, BeforeIndexing
  <2>10. CASE MissFetch(p) \/ MissSearch(p)
    <3>1. /\ loop[p].pc \in {"miss_fetch", "miss_search"}
          /\ h.pc \in {"idle", "miss_search", "miss_put"}
      BY <2>10, <2>i, <2>0, <1>t
         DEF MissFetch, MissSearch, LoopInv, HandlerOK, Handler, Idle
    <3>2. UNCHANGED <<helpdesk, pending, lost, index>>
      BY <2>10 DEF MissFetch, MissSearch, helpdeskVars, storeVars, histVars
    <3>4. \A t \in Ticket : index[t] = Wanted(t) \/ Announced(t)
      BY <3>1, <2>0 DEF Sourced, BeforeIndexing
    <3>5. \A t \in Ticket : index'[t] = Wanted(t)' \/ Announced(t)'
      BY <3>2, <3>4, <2>u
    <3> QED
      BY <3>1, <3>5 DEF Sourced, HookWrites, IngestWrites, IngestPc
  <2>11. ASSUME NEW t \in Ticket, IngestUpsert(p, t)
         PROVE  Sourced(p)'
    <3> DEFINE work == loop[p].work
    <3>1. /\ loop[p].pc = "ingest_upsert" /\ work[t] # None
          /\ h = [loop[p] EXCEPT !.pc = "ingest_mark",
                                 !.work = [work EXCEPT ![t] = None]]
      BY <2>11, <1>t DEF IngestUpsert, LoopInv
    <3>2. work \in Index
      BY <2>0 DEF HandlerOK, Handler
    <3>3. h.pc = "ingest_mark" /\ h.work = [work EXCEPT ![t] = None]
      <4> HIDE DEF h
      <4> QED
        BY <3>1, <2>0 DEF HandlerOK, Handler
    <3>4. \A u \in Ticket : h.work[u] # None => h.work[u] = work[u]
      BY <3>2, <3>3 DEF Index
    <3>5. UNCHANGED <<helpdesk, pending, lost>>
      BY <2>11 DEF IngestUpsert, helpdeskVars, histVars
    <3>6. /\ index'[t] = work[t]
          /\ \A u \in Ticket : u # t => index'[u] = index[u]
      BY <2>11, <1>t DEF IngestUpsert, Upsert, VectorStoreTypeOK, Index
    <3>7. \A u \in Ticket : work[u] # None => work[u] = Wanted(u) \/ Announced(u)
      BY <3>1, <2>0 DEF Sourced, IngestWrites, IngestPc
    <3>8. \A u \in Ticket : index[u] = Wanted(u) \/ Announced(u)
      BY <3>1, <2>0 DEF Sourced, BeforeIndexing
    <3> QED
      BY <3>1, <3>3, <3>4, <3>5, <3>6, <3>7, <3>8, <2>u
         DEF Sourced, HookWrites, IngestWrites, IngestPc, BeforeIndexing
  <2>12. CASE IngestMark(p)
    <3>1. /\ loop[p].pc = "ingest_mark"
          /\ h = NextToIngest(loop[p].work)
      BY <2>12, <2>f DEF IngestMark
    <3>2. UNCHANGED <<helpdesk, pending, lost, index>>
      BY <2>12 DEF IngestMark, MarkHistory, helpdeskVars
    <3>3. \/ h = Idle
          \/ h.pc = "ingest_upsert" /\ h.work = loop[p].work
      BY <3>1 DEF NextToIngest, Idle
    <3> QED
      BY <3>1, <3>2, <3>3, <2>0, <2>u
         DEF Sourced, HookWrites, IngestWrites, IngestPc, BeforeIndexing, Idle
  <2>13. CASE HandlerFail(p) \/ Crash(p)
    <3>1. h = Idle /\ Unanswered(p) /\ UNCHANGED <<helpdesk, index>>
      BY <2>13, <2>i DEF HandlerFail, Crash, storeVars
    <3>2. \A t \in Ticket : /\ Wanted(t)' = Wanted(t)
                            /\ Announced(t) => Announced(t)'
                            /\ loop[p].pc \in BeforeIndexing /\ name = t =>
                                 Announced(t)'
      BY <3>1 DEF Unanswered, Wanted, Announced, BeforeIndexing, HookPc
    <3> QED
      BY <3>1, <3>2, <2>0, <1>t, SourcedDone DEF Sourced
  <2> QED
    BY <1>3, <2>1, <2>2, <2>3, <2>4, <2>5, <2>6, <2>7, <2>8, <2>9, <2>10, <2>11,
       <2>12, <2>13 DEF HandlerStep
<1> QED
  <2>1. ASSUME NEW p \in Proc, NEW s \in Slot, TaskStep(p, s) \/ TaskFail(p, s)
        PROVE  UNCHANGED <<helpdesk, pending, lost, index, loop>>
    BY <2>1 DEF TaskStep, TaskFetch, TaskSearch, TaskPut, TaskFinish, TaskFail,
       helpdeskVars, storeVars, histVars
  <2>2. UNCHANGED vars => UNCHANGED <<helpdesk, pending, lost, index, loop>>
    BY DEF vars, helpdeskVars, storeVars, histVars
  <2> QED
    BY <1>1, <1>2, <1>3, <2>1, <2>2 DEF Next

(***************************************************************************)
(* In one process, the index differs from what the Helpdesk calls for only  *)
(* at tickets whose webhook is under way, being handled, or was lost:       *)
(* handle_webhook and ingest_full never put an old record over a newer one  *)
(* that nobody will announce any more.                                      *)
(***************************************************************************)
THEOREM IndexCorrect ==
  ASSUME OneProcess
  PROVE  Spec => []IndexTracksHelpdesk
<1>1. Init => SourceInv
  BY DEF Init, SourceInv, IndexTracksHelpdesk, HookWrites, IngestWrites, Idle,
     IngestPc
<1>2. TypeInv /\ SourceInv /\ [Next]_vars => SourceInv'
  BY SourceStep
<1>3. SourceInv => IndexTracksHelpdesk
  BY DEF SourceInv
<1> QED
  BY <1>1, <1>2, <1>3, TypeInvariant, PTL DEF Spec
-----------------------------------------------------------------------------
(* In one process, the stale flag is right, up to an overtaken refresh and a *)
(* missed mark.  FlagInv adds MissIsCurrent: only the loop changes the       *)
(* index, so the Matches a live miss found are still those of the index when *)
(* it puts them.                                                             *)

Current(t) == Found(t, rows[t].matches)

FlagInv == FlagExact /\ MissIsCurrent

Flagged(p) ==
  /\ \A t \in Ticket : IsFresh(t) =>
       Current(t) \/ t \in overtaken \/ missed \/ loop[p].pc \in MarkPc
  /\ loop[p].pc = "miss_put" =>
       loop[p].found = Search(loop[p].ticket, loop[p].rec.text)

LEMMA FlaggedOne ==
  ASSUME OneProcess, NEW p \in Proc
  PROVE  (FlagInv <=> Flagged(p)) /\ (FlagInv' <=> Flagged(p)')
BY DEF OneProcess, FlagInv, FlagExact, MissIsCurrent, Flagged, Marking, Current

LEMMA CurrentNext ==
  ASSUME index' = index, NEW t \in Ticket
  PROVE  /\ \A query : Search(t, query)' = Search(t, query)
         /\ \A matches : rows'[t].matches = matches =>
                         (Current(t)' <=> Found(t, matches))
         /\ rows'[t] = rows[t] =>
              (Current(t)' <=> Current(t)) /\ (IsFresh(t)' <=> IsFresh(t))
BY DEF Search, Current, Found, IsFresh

LEMMA PutResult ==
  ASSUME MatchCacheTypeOK, NEW t \in Ticket, NEW matches, Put(t, matches)
  PROVE  /\ rows'[t].matches = matches
         /\ \A u \in Ticket : u # t => rows'[u] = rows[u]
BY DEF MatchCacheTypeOK, Put

(* A step of the loop that touches neither store and no history, and that    *)
(* does not lead to the put of a live miss.                                  *)
LEMMA FlaggedQuiet ==
  ASSUME LoopInv, NEW p \in Proc, Flagged(p),
         index' = index, rows' = rows, overtaken' = overtaken,
         missed \/ loop[p].pc \in MarkPc => missed',
         loop'[p].pc # "miss_put"
  PROVE  Flagged(p)'
BY CurrentNext DEF Flagged

(* A step that ends in front of a mark.                                      *)
LEMMA FlaggedMarking ==
  ASSUME NEW p \in Proc, loop'[p].pc \in MarkPc
  PROVE  Flagged(p)'
BY DEF Flagged, MarkPc

LEMMA FlagStep ==
  ASSUME OneProcess
  PROVE  TypeInv /\ FlagInv /\ [Next]_vars => FlagInv'
<1> SUFFICES ASSUME TypeInv, FlagInv, [Next]_vars PROVE FlagInv'
  OBVIOUS
<1>t. LoopInv /\ MatchCacheTypeOK
  BY DEF TypeInv, TypeOK
<1>1. CASE UNCHANGED <<storeVars, loop, overtaken, missed>>
  <2>1. index' = index /\ rows' = rows /\ loop' = loop
    BY <1>1 DEF storeVars
  <2>2. FlagExact'
    BY <1>1, <2>1 DEF FlagInv, FlagExact, Marking, Found, Search, IsFresh
  <2>3. MissIsCurrent'
    BY <2>1 DEF FlagInv, MissIsCurrent, Search
  <2> QED
    BY <2>2, <2>3 DEF FlagInv
<1>2. ASSUME NEW p \in Proc, NEW s \in Slot, TaskPut(p, s)
      PROVE  FlagInv'
  <2> SUFFICES Flagged(p)'
    BY FlaggedOne
  <2>1. PICK t \in Ticket, m \in SUBSET Entry :
          t = tasks[p][s].ticket /\ m = tasks[p][s].matches
    BY <1>2, TaskMoves DEF TaskOK, Task
  <2>2. index' = index /\ loop' = loop /\ missed' = missed
    BY <1>2 DEF TaskPut
  <2>3. rows'[t].matches = m /\ \A u \in Ticket : u # t => rows'[u] = rows[u]
    BY <1>2, <2>1, <1>t, PutResult DEF TaskPut
  <2>4. Current(t)' \/ t \in overtaken'
    <3>1. Current(t)' <=> Found(t, m)
      BY <2>2, <2>3, CurrentNext
    <3>2. ~Found(t, m) => t \in overtaken'
      BY <1>2, <2>1 DEF TaskPut
    <3> QED
      BY <3>1, <3>2
  <2>5. \A u \in Ticket : u # t => (u \in overtaken' <=> u \in overtaken)
    BY <1>2, <2>1 DEF TaskPut
  <2>6. Flagged(p)
    BY FlaggedOne
  <2>7. \A u \in Ticket : u # t =>
          (Current(u)' <=> Current(u)) /\ (IsFresh(u)' <=> IsFresh(u))
    BY <2>2, <2>3, CurrentNext
  <2>8. \A u \in Ticket : IsFresh(u)' =>
          Current(u)' \/ u \in overtaken' \/ missed' \/ loop'[p].pc \in MarkPc
    BY <2>2, <2>4, <2>5, <2>6, <2>7 DEF Flagged
  <2>9. loop'[p].pc = "miss_put" =>
          loop'[p].found = MatchesOf(loop'[p].ticket, loop'[p].rec.text, index')
    BY <2>2, <2>6 DEF Flagged, Search
  <2> QED
    BY <2>8, <2>9 DEF Flagged, Search
<1>3. ASSUME NEW p \in Proc,
             \/ \E t \in Ticket : ReceiveWebhook(p, t) \/ GetLookup(p, t)
             \/ IngestList(p) \/ HandlerStep(p) \/ HandlerFail(p) \/ Crash(p)
      PROVE  FlagInv'
  <2> SUFFICES Flagged(p)'
    BY FlaggedOne
  <2>0. Flagged(p) /\ HandlerOK(loop[p])
    BY FlaggedOne, LoopTypes, <1>t
  <2> DEFINE name == loop[p].ticket
             h    == loop'[p]
  <2>f. \A x : loop' = [loop EXCEPT ![p] = x] => h = x
    BY <1>t DEF LoopInv
  <2>i. Done(p) => h = Idle
    BY <2>f DEF Done
  <2>g. \A pc : Goto(p, pc) => h.pc = pc
    BY <1>t, GotoResult
  <2>a. AfterIndexing(p) => h.pc \in {"idle", "hook_lookup"}
    BY <2>i, <2>g DEF AfterIndexing, Idle
  <2>1. CASE \/ \E t \in Ticket : ReceiveWebhook(p, t) \/ GetLookup(p, t)
             \/ IngestList(p)
    <3>1. loop[p] = Idle /\ h.pc # "miss_put"
      <4>1. ASSUME NEW t \in Ticket, ReceiveWebhook(p, t)
            PROVE  loop[p] = Idle /\ h.pc = "hook_fetch"
        BY <4>1, <2>f DEF ReceiveWebhook, Begin, Idle
      <4>2. ASSUME NEW t \in Ticket, GetLookup(p, t)
            PROVE  loop[p] = Idle /\ h.pc \in {"get_schedule", "miss_fetch"}
        BY <4>2, <2>f DEF GetLookup, Begin, Idle
      <4>3. CASE IngestList(p)
        BY <4>3, <2>f DEF IngestList, Begin, NextToIngest, Idle
      <4> QED
        BY <2>1, <4>1, <4>2, <4>3
    <3>2. index' = index /\ rows' = rows /\ overtaken' = overtaken /\ missed' = missed
      BY <2>1 DEF ReceiveWebhook, GetLookup, IngestList, storeVars, histVars
    <3> QED
      BY <3>1, <3>2, <2>0, <1>t, FlaggedQuiet DEF Idle, MarkPc
  <2>2. CASE \/ HookFetch(p) \/ HookRetrieve(p) \/ HookLookup(p)
             \/ HookSchedule(p) \/ GetSchedule(p) \/ MissFetch(p)
    <3>1. loop[p].pc \notin MarkPc
      BY <2>2 DEF HookFetch, HookRetrieve, HookLookup, HookSchedule, GetSchedule,
         MissFetch, MarkPc
    <3>2. index' = index /\ rows' = rows /\ overtaken' = overtaken /\ missed' = missed
      BY <2>2 DEF HookFetch, HookRetrieve, HookLookup, HookSchedule, GetSchedule,
         MissFetch, storeVars, histVars
    <3>3. h.pc # "miss_put"
      <4>1. CASE HookFetch(p)
        BY <4>1, <2>0, <1>t DEF HookFetch, AfterFetch, LoopInv, HandlerOK, Handler
      <4>2. CASE MissFetch(p)
        BY <4>2, <2>0, <2>i, <1>t
           DEF MissFetch, LoopInv, HandlerOK, Handler, Idle
      <4>3. CASE \/ HookRetrieve(p) \/ HookLookup(p)
                 \/ HookSchedule(p) \/ GetSchedule(p)
        BY <4>3, <2>i, <2>g, <2>a
           DEF HookRetrieve, HookLookup, HookSchedule, GetSchedule, Idle
      <4> QED
        BY <2>2, <4>1, <4>2, <4>3
    <3> QED
      BY <3>1, <3>2, <3>3, <2>0, <1>t, FlaggedQuiet
  <2>3. CASE HookUpsert(p) \/ HookDelete(p)
    <3>1. h.pc \in MarkPc
      BY <2>3, <2>g DEF HookUpsert, HookDelete, MarkPc
    <3> QED
      BY <3>1, FlaggedMarking
  <2>4. ASSUME NEW t \in Ticket, IngestUpsert(p, t)
        PROVE  Flagged(p)'
    <3>1. h.pc \in MarkPc
      BY <2>4, <2>0, <1>t DEF IngestUpsert, LoopInv, HandlerOK, Handler, MarkPc
    <3> QED
      BY <3>1, FlaggedMarking
  <2>5. CASE HookMark(p) \/ IngestMark(p)
    <3>1. \A t \in Ticket : ~IsFresh(t)'
      BY <2>5, <1>t, MarkAllStaleType DEF HookMark, IngestMark
    <3>2. h.pc # "miss_put"
      <4>1. HookMark(p) => h.pc \in {"idle", "hook_lookup"}
        BY <2>a DEF HookMark
      <4>2. IngestMark(p) => h = NextToIngest(loop[p].work)
        BY <2>f DEF IngestMark
      <4>3. NextToIngest(loop[p].work).pc # "miss_put"
        BY DEF NextToIngest, Idle
      <4> QED
        BY <2>5, <4>1, <4>2, <4>3
    <3> QED
      BY <3>1, <3>2 DEF Flagged
  <2>6. CASE MissSearch(p)
    <3> DEFINE found == Search(name, loop[p].rec.text)
    <3>1. h = [loop[p] EXCEPT !.pc = "miss_put", !.found = found]
      BY <2>6, <1>t DEF MissSearch, LoopInv
    <3>2. h.found = found /\ h.ticket = name /\ h.rec = loop[p].rec
      <4> HIDE DEF h, found
      <4> QED
        BY <3>1, <2>0 DEF HandlerOK, Handler
    <3>3. /\ index' = index /\ rows' = rows /\ overtaken' = overtaken
          /\ missed' = missed /\ loop[p].pc \notin MarkPc
      BY <2>6 DEF MissSearch, storeVars, histVars, MarkPc
    <3>4. h.found = MatchesOf(h.ticket, h.rec.text, index')
      BY <3>2, <3>3 DEF Search
    <3>5. \A u \in Ticket : IsFresh(u)' =>
            Current(u)' \/ u \in overtaken' \/ missed' \/ h.pc \in MarkPc
      BY <3>3, <2>0, CurrentNext DEF Flagged
    <3> QED
      BY <3>4, <3>5 DEF Flagged, Search
  <2>7. CASE MissPut(p)
    <3>1. loop[p].pc = "miss_put"
      BY <2>7 DEF MissPut
    <3>2. PICK t \in Ticket, q \in Text :
            t = name /\ loop[p].found = Search(t, q)
      BY <3>1, <2>0 DEF Flagged, HandlerOK, GetPc, Record
    <3>3. /\ rows'[t].matches = loop[p].found
          /\ \A u \in Ticket : u # t => rows'[u] = rows[u]
      BY <2>7, <3>2, <1>t, PutResult DEF MissPut
    <3>4. /\ index' = index /\ missed' = missed /\ h.pc = "idle"
          /\ \A u \in Ticket : u # t => (u \in overtaken' <=> u \in overtaken)
      BY <2>7, <2>i, <3>2 DEF MissPut, Idle
    <3>5. Current(t)'
      BY <3>2, <3>3, <3>4, CurrentNext DEF Found
    <3>6. \A u \in Ticket : u # t =>
            (Current(u)' <=> Current(u)) /\ (IsFresh(u)' <=> IsFresh(u))
      BY <3>3, <3>4, CurrentNext
    <3>7. \A u \in Ticket : IsFresh(u)' =>
            Current(u)' \/ u \in overtaken' \/ missed' \/ h.pc \in MarkPc
      BY <3>1, <3>4, <3>5, <3>6, <2>0 DEF Flagged, MarkPc
    <3> QED
      BY <3>4, <3>7 DEF Flagged
  <2>8. CASE HandlerFail(p) \/ Crash(p)
    <3>1. index' = index /\ rows' = rows /\ overtaken' = overtaken /\ h.pc = "idle"
      BY <2>8, <2>i DEF HandlerFail, Crash, storeVars, Idle
    <3>2. missed' = (missed \/ loop[p].pc \in MarkPc)
      BY <2>8 DEF HandlerFail, Crash
    <3> QED
      BY <3>1, <3>2, <2>0, <1>t, FlaggedQuiet
  <2> QED
    BY <1>3, <2>1, <2>2, <2>3, <2>4, <2>5, <2>6, <2>7, <2>8 DEF HandlerStep
<1> QED
  <2>1. ASSUME NEW p \in Proc, NEW s \in Slot,
               TaskStep(p, s) \/ TaskFail(p, s), ~TaskPut(p, s)
        PROVE  UNCHANGED <<storeVars, loop, overtaken, missed>>
    BY <2>1 DEF TaskStep, TaskFetch, TaskSearch, TaskFinish, TaskFail, storeVars,
       histVars
  <2>2. UNCHANGED vars \/ HelpdeskStep =>
          UNCHANGED <<storeVars, loop, overtaken, missed>>
    BY DEF vars, HelpdeskStep, histVars
  <2> QED
    BY <1>1, <1>2, <1>3, <2>1, <2>2 DEF Next

(***************************************************************************)
(* In one process, a fresh row that no search of the index would return was *)
(* written by a refresh that a mark had overtaken, or follows a mark missed *)
(* by a failure, or the mark is about to come: index_ticket, deindex_ticket *)
(* and the live-miss path of get_matches keep the flag right.               *)
(***************************************************************************)
THEOREM FlagCorrect ==
  ASSUME OneProcess
  PROVE  Spec => []FlagExact
<1>1. Init => FlagInv
  BY DEF Init, MatchCacheInit, FlagInv, FlagExact, MissIsCurrent, IsFresh, Idle
<1>2. TypeInv /\ FlagInv /\ [Next]_vars => FlagInv'
  BY FlagStep
<1>3. FlagInv => FlagExact
  BY DEF FlagInv
<1> QED
  BY <1>1, <1>2, <1>3, TypeInvariant, PTL DEF Spec
=============================================================================
