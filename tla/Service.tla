------------------------------ MODULE Service ------------------------------
(***************************************************************************)
(* The running service: webhook deliveries, GET /tickets/{name}/matches,    *)
(* POST /ingest/full and the background refreshes, over the Helpdesk, the   *)
(* Qdrant index and the Match cache.                                        *)
(*                                                                         *)
(* The route handlers are async functions that never await once they have   *)
(* their request, so a process runs one at a time on its event loop, to the *)
(* end; background tasks run in the threadpool, beside the loop and each    *)
(* other.  Every step below is one call to an external service, with the    *)
(* computation around it, or one access to the in-flight set.               *)
(***************************************************************************)
EXTENDS HelpdeskClient, VectorStore, MatchCache, Refresher

CONSTANT MaxFaults   \* bound: failing calls and crashes in a behaviour

VARIABLES
  loop,      \* process -> the handler on its event loop
  faults,    \* number of faults so far
  overtaken, \* history: tickets whose row was last written by a background
             \* refresh with Matches the index no longer gave
  missed,    \* history: a handler ended between an index mutation and the
             \* mark that belongs to it, and no mark came after
  lost       \* history: tickets whose last webhook was given up unread or
             \* half done

histVars == <<overtaken, missed, lost>>
storeVars == <<index, rows>>
vars == <<helpdeskVars, storeVars, refreshVars, loop, faults, histVars>>

HookPc == {"hook_fetch", "hook_upsert", "hook_retrieve", "hook_delete",
           "hook_mark", "hook_lookup", "hook_schedule"}
GetPc    == {"get_schedule", "miss_fetch", "miss_search", "miss_put"}
IngestPc == {"ingest_upsert", "ingest_mark"}
MarkPc   == {"hook_mark", "ingest_mark"}

Handler == [pc     : {"idle"} \cup HookPc \cup GetPc \cup IngestPc,
            ticket : Ticket \cup {None},
            rec    : Record \cup {None},   \* what get_ticket returned
            found  : SUBSET Entry,         \* what the search returned
            work   : Index]                \* what /ingest/full has still to index

NoWork == [t \in Ticket |-> None]
Idle   == [pc |-> "idle", ticket |-> None, rec |-> None, found |-> {},
           work |-> NoWork]

TypeOK ==
  /\ HelpdeskTypeOK /\ VectorStoreTypeOK /\ MatchCacheTypeOK /\ RefresherTypeOK
  /\ loop \in [Proc -> Handler]
  /\ faults \in Nat
  /\ overtaken \in SUBSET Ticket
  /\ missed \in BOOLEAN
  /\ lost \in SUBSET Ticket

(* The index is in step with the Helpdesk, as after a first /ingest/full.   *)
Init ==
  /\ HelpdeskInit /\ MatchCacheInit /\ RefresherInit
  /\ index = [t \in Ticket |-> Wanted(t)]
  /\ loop = [p \in Proc |-> Idle]
  /\ faults = 0
  /\ overtaken = {} /\ missed = FALSE /\ lost = {}

Begin(p, handler) == loop[p] = Idle /\ loop' = [loop EXCEPT ![p] = handler]
Goto(p, pc) == loop' = [loop EXCEPT ![p].pc = pc]
Done(p) == loop' = [loop EXCEPT ![p] = Idle]
Fault == faults < MaxFaults /\ faults' = faults + 1
-----------------------------------------------------------------------------
(* Somebody works in the Helpdesk.                                          *)
HelpdeskStep ==
  /\ \E t \in Ticket : \/ \E rec \in Record : Create(t, rec) \/ Update(t, rec)
                       \/ Trash(t)
  /\ UNCHANGED <<storeVars, refreshVars, loop, faults, histVars>>
-----------------------------------------------------------------------------
(* POST /webhook/helpdesk                                                   *)

ReceiveWebhook(p, t) ==
  /\ t \in pending
  /\ Begin(p, [Idle EXCEPT !.pc = "hook_fetch", !.ticket = t])
  /\ pending' = pending \ {t}
  /\ UNCHANGED <<helpdesk, edits, storeVars, refreshVars, faults, histVars>>

\* mutants: the 404 branch does nothing; eligibility is not looked at
AfterFetchIgnoring404(rec) ==
  IF rec # None /\ Eligible(rec) THEN "hook_upsert"
  ELSE IF rec = None THEN "hook_lookup" ELSE "hook_retrieve"
AfterFetchUnchecked(rec) == IF rec # None THEN "hook_upsert" ELSE "hook_retrieve"

AfterFetch(rec) ==
  IF rec # None /\ Eligible(rec) THEN "hook_upsert" ELSE "hook_retrieve"

HookFetch(p) ==
  LET t == loop[p].ticket IN
  /\ loop[p].pc = "hook_fetch"
  /\ loop' = [loop EXCEPT ![p].pc = AfterFetch(GetTicket(t)),
                          ![p].rec = GetTicket(t)]
  /\ lost' = lost \ {t}
  /\ UNCHANGED <<helpdeskVars, storeVars, refreshVars, faults, overtaken, missed>>

HookUpsert(p) ==
  /\ loop[p].pc = "hook_upsert"
  /\ Upsert(loop[p].ticket, loop[p].rec)
  /\ Goto(p, "hook_mark")
  /\ UNCHANGED <<helpdeskVars, rows, refreshVars, faults, histVars>>

\* mutant: no populate after a deindex
AfterIndexingDone(p) == Done(p)

(* A trashed or indexed ticket is done after its mark; an ineligible one    *)
(* still needs a row.                                                       *)
AfterIndexing(p) ==
  IF loop[p].rec # None /\ ~Eligible(loop[p].rec) THEN Goto(p, "hook_lookup")
                                                  ELSE Done(p)

HookRetrieve(p) ==
  /\ loop[p].pc = "hook_retrieve"
  /\ IF Exists(loop[p].ticket) THEN Goto(p, "hook_delete") ELSE AfterIndexing(p)
  /\ UNCHANGED <<helpdeskVars, storeVars, refreshVars, faults, histVars>>

\* mutant: the deletion is not followed by a mark
HookDeleteUnmarked(p) ==
  /\ loop[p].pc = "hook_delete"
  /\ DeletePoint(loop[p].ticket)
  /\ AfterIndexing(p)
  /\ UNCHANGED <<helpdeskVars, rows, refreshVars, faults, histVars>>

HookDelete(p) ==
  /\ loop[p].pc = "hook_delete"
  /\ DeletePoint(loop[p].ticket)
  /\ Goto(p, "hook_mark")
  /\ UNCHANGED <<helpdeskVars, rows, refreshVars, faults, histVars>>

MarkHistory == overtaken' = {} /\ missed' = FALSE /\ UNCHANGED lost

HookMark(p) ==
  /\ loop[p].pc = "hook_mark"
  /\ MarkAllStale
  /\ MarkHistory
  /\ AfterIndexing(p)
  /\ UNCHANGED <<helpdeskVars, index, refreshVars, faults>>

HookLookup(p) ==
  /\ loop[p].pc = "hook_lookup"
  /\ IF rows[loop[p].ticket] = None THEN Goto(p, "hook_schedule") ELSE Done(p)
  /\ UNCHANGED <<helpdeskVars, storeVars, refreshVars, faults, histVars>>

HookSchedule(p) ==
  /\ loop[p].pc = "hook_schedule"
  /\ Schedule(p, loop[p].ticket)
  /\ Done(p)
  /\ UNCHANGED <<helpdeskVars, storeVars, faults, histVars>>

\* mutant: the webhook is answered before it is handled
UnansweredNever(p) == UNCHANGED <<pending, lost>>

(* What becomes of the webhook a handler was working on: Frappe sends it    *)
(* again, or has given up.                                                  *)
Unanswered(p) ==
  \/ /\ loop[p].pc \notin HookPc
     /\ UNCHANGED <<pending, lost>>
  \/ /\ loop[p].pc \in HookPc
     /\ pending' = pending \cup {loop[p].ticket}
     /\ UNCHANGED lost
  \/ /\ loop[p].pc \in HookPc
     /\ lost' = lost \cup {loop[p].ticket}
     /\ UNCHANGED pending

(* A call of a handler to the Helpdesk, the embedder, Qdrant or Postgres    *)
(* fails: the handler answers 404 or 500 and is over.                       *)
HandlerFail(p) ==
  /\ Fault
  /\ loop[p].pc \notin {"idle", "hook_schedule", "get_schedule"}
  /\ Done(p)
  /\ Unanswered(p)
  /\ missed' = (missed \/ loop[p].pc \in MarkPc)
  /\ UNCHANGED <<helpdesk, edits, storeVars, refreshVars, overtaken>>
-----------------------------------------------------------------------------
(* GET /tickets/{ticket_name}/matches.  A fresh row is returned and nothing *)
(* changes; a stale one is returned and a refresh scheduled.                *)

GetLookup(p, t) ==
  /\ \/ IsStale(t) /\ Begin(p, [Idle EXCEPT !.pc = "get_schedule", !.ticket = t])
     \/ rows[t] = None /\ Begin(p, [Idle EXCEPT !.pc = "miss_fetch", !.ticket = t])
  /\ UNCHANGED <<helpdeskVars, storeVars, refreshVars, faults, histVars>>

GetSchedule(p) ==
  /\ loop[p].pc = "get_schedule"
  /\ Schedule(p, loop[p].ticket)
  /\ Done(p)
  /\ UNCHANGED <<helpdeskVars, storeVars, faults, histVars>>

MissFetch(p) ==
  LET rec == GetTicket(loop[p].ticket) IN
  /\ loop[p].pc = "miss_fetch"
  /\ IF rec = None THEN Done(p)
     ELSE loop' = [loop EXCEPT ![p].pc = "miss_search", ![p].rec = rec]
  /\ UNCHANGED <<helpdeskVars, storeVars, refreshVars, faults, histVars>>

MissSearch(p) ==
  /\ loop[p].pc = "miss_search"
  /\ loop' = [loop EXCEPT ![p].pc = "miss_put",
                ![p].found = Search(loop[p].ticket, loop[p].rec.text)]
  /\ UNCHANGED <<helpdeskVars, storeVars, refreshVars, faults, histVars>>

MissPut(p) ==
  /\ loop[p].pc = "miss_put"
  /\ Put(loop[p].ticket, loop[p].found)
  /\ overtaken' = overtaken \ {loop[p].ticket}
  /\ Done(p)
  /\ UNCHANGED <<helpdeskVars, index, refreshVars, faults, missed, lost>>
-----------------------------------------------------------------------------
(* POST /ingest/full                                                        *)

NextToIngest(work) == IF work = NoWork THEN Idle
                      ELSE [Idle EXCEPT !.pc = "ingest_upsert", !.work = work]

IngestList(p) ==
  /\ Begin(p, NextToIngest(ListReusable))
  /\ UNCHANGED <<helpdeskVars, storeVars, refreshVars, faults, histVars>>

IngestUpsert(p, t) ==
  /\ loop[p].pc = "ingest_upsert"
  /\ loop[p].work[t] # None
  /\ Upsert(t, loop[p].work[t])
  /\ loop' = [loop EXCEPT ![p].pc = "ingest_mark",
                          ![p].work = [@ EXCEPT ![t] = None]]
  /\ UNCHANGED <<helpdeskVars, rows, refreshVars, faults, histVars>>

IngestMark(p) ==
  /\ loop[p].pc = "ingest_mark"
  /\ MarkAllStale
  /\ MarkHistory
  /\ loop' = [loop EXCEPT ![p] = NextToIngest(loop[p].work)]
  /\ UNCHANGED <<helpdeskVars, index, refreshVars, faults>>
-----------------------------------------------------------------------------
(* A background refresh: _run, refresh_ticket_cache, compute_matches        *)

TaskFetch(p, s) ==
  LET rec == GetTicket(tasks[p][s].ticket) IN
  /\ TaskAt(p, s, "scheduled")
  /\ Advance(p, s, IF rec = None THEN [tasks[p][s] EXCEPT !.pc = "finish"]
                   ELSE [tasks[p][s] EXCEPT !.pc = "fetched", !.text = rec.text])
  /\ UNCHANGED <<helpdeskVars, storeVars, inflight, loop, faults, histVars>>

TaskSearch(p, s) ==
  LET task == tasks[p][s] IN
  /\ TaskAt(p, s, "fetched")
  /\ Advance(p, s, [task EXCEPT !.pc = "searched", !.text = None,
                                !.matches = Search(task.ticket, task.text)])
  /\ UNCHANGED <<helpdeskVars, storeVars, inflight, loop, faults, histVars>>

\* some search of the present index gives exactly these Matches for t
Found(t, matches) == \E query \in Text : matches = Search(t, query)

TaskPut(p, s) ==
  LET task == tasks[p][s] IN
  /\ TaskAt(p, s, "searched")
  /\ Put(task.ticket, task.matches)
  /\ overtaken' = IF Found(task.ticket, task.matches)
                  THEN overtaken \ {task.ticket} ELSE overtaken \cup {task.ticket}
  /\ Advance(p, s, [task EXCEPT !.pc = "finish", !.matches = {}])
  /\ UNCHANGED <<helpdeskVars, index, inflight, loop, faults, missed, lost>>

(* A call fails; _run logs the exception and goes on to its finally clause. *)
TaskFail(p, s) ==
  /\ Fault
  /\ tasks[p][s] # None /\ tasks[p][s].pc # "finish"
  /\ Advance(p, s, [tasks[p][s] EXCEPT !.pc = "finish", !.text = None,
                                       !.matches = {}])
  /\ UNCHANGED <<helpdeskVars, storeVars, inflight, loop, histVars>>

TaskFinish(p, s) ==
  /\ Finish(p, s)
  /\ UNCHANGED <<helpdeskVars, storeVars, loop, faults, histVars>>
-----------------------------------------------------------------------------
(* The process is killed and started again: handlers and tasks are gone,    *)
(* the index and the cache stay.                                            *)
Crash(p) ==
  /\ Fault
  /\ Done(p)
  /\ Unanswered(p)
  /\ ForgetTasks(p)
  /\ missed' = (missed \/ loop[p].pc \in MarkPc)
  /\ UNCHANGED <<helpdesk, edits, storeVars, overtaken>>

HandlerStep(p) ==
  \/ HookFetch(p) \/ HookUpsert(p) \/ HookRetrieve(p) \/ HookDelete(p)
  \/ HookMark(p) \/ HookLookup(p) \/ HookSchedule(p)
  \/ GetSchedule(p) \/ MissFetch(p) \/ MissSearch(p) \/ MissPut(p)
  \/ (\E t \in Ticket : IngestUpsert(p, t)) \/ IngestMark(p)

TaskStep(p, s) ==
  TaskFetch(p, s) \/ TaskSearch(p, s) \/ TaskPut(p, s) \/ TaskFinish(p, s)

Next ==
  \/ HelpdeskStep
  \/ \E p \in Proc :
       \/ \E t \in Ticket : ReceiveWebhook(p, t) \/ GetLookup(p, t)
       \/ IngestList(p) \/ HandlerStep(p) \/ HandlerFail(p) \/ Crash(p)
       \/ \E s \in Slot : TaskStep(p, s) \/ TaskFail(p, s)

Spec == Init /\ [][Next]_vars
-----------------------------------------------------------------------------
(* Fairness.  A handler or a task that has begun goes on: the calls it makes *)
(* return or raise.  A webhook under way is accepted in the end, however     *)
(* busy the loop is: connections are served in the order they arrive.        *)
Progress ==
  /\ \A p \in Proc : WF_vars(HandlerStep(p))
  /\ \A p \in Proc, s \in Slot : WF_vars(TaskStep(p, s))
  /\ \A t \in Ticket : SF_vars(\E p \in Proc : ReceiveWebhook(p, t))

(* Agents open every ticket again and again.                                *)
Reading == \A t \in Ticket : SF_vars(\E p \in Proc : GetLookup(p, t))

ProgressSpec == Spec /\ Progress
ReadingSpec  == Spec /\ Progress /\ Reading
-----------------------------------------------------------------------------
(***************************************************************************)
(* retrieval/indexing.py, ingestion/webhook_handler.py: in one process, a   *)
(* point that differs from what the Helpdesk calls for belongs to a ticket  *)
(* whose webhook is under way, was lost, or is being handled at this        *)
(* moment.  In particular neither /ingest/full, which writes the records of *)
(* a list it read earlier, nor a handler that read its ticket earlier can   *)
(* put an old record over a newer one unnoticed.                            *)
(***************************************************************************)
BeforeIndexing == {"hook_fetch", "hook_upsert", "hook_retrieve", "hook_delete"}

Handled(t) == \E p \in Proc : /\ loop[p].ticket = t
                              /\ loop[p].pc \in BeforeIndexing

IndexTracksHelpdesk ==
  \A t \in Ticket :
    index[t] # Wanted(t) => t \in pending \cup lost \/ Handled(t)

(***************************************************************************)
(* The same as a refinement: in one process, the handlers of a ticket's     *)
(* webhook and of /ingest/full, with their failures and restarts, implement *)
(* Mirror.  So also no step of theirs touches the point of a ticket that is *)
(* in order, and a ticket whose webhook is dealt with is in order at that   *)
(* very step.                                                               *)
(***************************************************************************)
AbstractIndex ==
  INSTANCE Mirror WITH
    Key    <- Ticket,
    Value  <- Reusable \cup {None},
    source <- [t \in Ticket |-> Wanted(t)],
    copy   <- index,
    owed   <- {t \in Ticket : t \in pending \cup lost \/ Handled(t)}

IndexMirrorsHelpdesk == AbstractIndex!Spec

(***************************************************************************)
(* db/cache.py and the choke point: in one process, a row whose Matches no  *)
(* search of the index would return carries the stale flag -- unless a      *)
(* background refresh wrote it with a search made before the last mark, a   *)
(* mark was missed by a failure, or the mark is the next step of the loop.  *)
(* So the live-miss path never writes such a row, and a mutation never      *)
(* leaves one fresh.                                                        *)
(***************************************************************************)
Marking == \E p \in Proc : loop[p].pc \in MarkPc

FlagExact ==
  \A t \in Ticket :
    IsFresh(t) /\ ~Found(t, rows[t].matches) =>
      t \in overtaken \/ missed \/ Marking

(***************************************************************************)
(* A webhook for a Query Ticket leads to a row for it, without any agent    *)
(* opening the ticket, as long as no call fails (populate-on-create).       *)
(***************************************************************************)
Query(t) == helpdesk[t] \in Record /\ ~Eligible(helpdesk[t])

PopulatedOnCreate ==
  \A t \in Ticket : t \in pending /\ Query(t) ~> rows[t] # None \/ ~Query(t)

(***************************************************************************)
(* Every name leaves the in-flight set again, failing tasks included.       *)
(***************************************************************************)
InFlightReleased ==
  \A p \in Proc, t \in Ticket : []<>(t \notin inflight[p])

(***************************************************************************)
(* Webhooks alone bring the index in step with the Helpdesk, except for     *)
(* tickets whose webhook was lost.                                          *)
(***************************************************************************)
IndexConverges ==
  \A t \in Ticket : <>[](index[t] = Wanted(t) \/ t \in lost)

(***************************************************************************)
(* If agents keep opening tickets, no row stays stale for ever, in spite of *)
(* failing refreshes and restarts, and one that is marked again and again   *)
(* comes to hold the Matches of the text the ticket has -- unless its       *)
(* ticket was trashed ("the row stays as it was and heals on a later read", *)
(* api/refresh.py).  More cannot be said of a ticket whose text is edited   *)
(* when it has a row: its webhook neither marks the row nor schedules a     *)
(* refresh (ingestion/webhook_handler.py), and no read does while the row   *)
(* is fresh, so the Matches of the old text stay until some index mutation  *)
(* marks them.                                                              *)
(***************************************************************************)
FitsText(t) ==
  /\ IsFresh(t) /\ helpdesk[t] \in Record
  /\ rows[t].matches = Search(t, helpdesk[t].text)

StaleRowHeals ==
  \A t \in Ticket : []<>IsStale(t) => []<>(FitsText(t) \/ helpdesk[t] = Trashed)
-----------------------------------------------------------------------------
(* What the documentation says and the code does not do: see README.        *)

Settled == /\ pending = {} /\ lost = {}
           /\ \A p \in Proc : loop[p] = Idle /\ Live(p) = {}

(* ARCHITECTURE.md: the read after the one that triggered a refresh sees    *)
(* fresh Matches; so when nothing is under way and no call has failed, a    *)
(* row that is not flagged holds what a search of the index returns.        *)
SettledRowsAreCurrent ==
  Settled /\ faults = 0 =>
    \A t \in Ticket : IsFresh(t) => Found(t, rows[t].matches)

(* retrieval/indexing.py: "the index changed" and "the Match cache was      *)
(* flagged for revalidation" never drift apart; so when every webhook was   *)
(* handled to the end, a fresh row not overtaken by a refresh shows only    *)
(* tickets that still are in the index.                                     *)
IndexAndFlagAgree ==
  Settled =>
    \A t \in Ticket : IsFresh(t) /\ t \notin overtaken =>
      \A e \in rows[t].matches : index[e.ticket] # None
=============================================================================
