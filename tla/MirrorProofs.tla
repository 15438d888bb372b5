---------------------------- MODULE MirrorProofs ----------------------------
(***************************************************************************)
(* In one process, Service implements Mirror: every step of the service     *)
(* maps to a step of Mirror or changes none of its variables.  The steps    *)
(* that change the index are justified by SourceInv (ServiceProofs): what a *)
(* handler is about to write is wanted, or a newer webhook is owed.         *)
(***************************************************************************)
EXTENDS ServiceProofs

Owed(t) == Announced(t) \/ Handled(t)

LEMMA MirrorStutters ==
  ASSUME index' = index,
         \A t \in Ticket : Wanted(t)' = Wanted(t) /\ (Owed(t)' <=> Owed(t))
  PROVE  UNCHANGED AbstractIndex!mirrorVars
<1>1. [t \in Ticket |-> Wanted(t)'] = [t \in Ticket |-> Wanted(t)]
  OBVIOUS
<1>2. {t \in Ticket : Owed(t)'} = {t \in Ticket : Owed(t)}
  OBVIOUS
<1> QED
  BY <1>1, <1>2 DEF AbstractIndex!mirrorVars, Owed, Announced

LEMMA MirrorAnnounces ==
  ASSUME index' = index, NEW t \in Ticket, NEW v, Wanted(t)' = v,
         \A u \in Ticket : /\ u # t => Wanted(u)' = Wanted(u)
                           /\ Owed(u)' <=> Owed(u) \/ u = t
  PROVE  AbstractIndex!Announce(t, v)
<1>1. [u \in Ticket |-> Wanted(u)'] = [[u \in Ticket |-> Wanted(u)] EXCEPT ![t] = v]
  OBVIOUS
<1>2. {u \in Ticket : Owed(u)'} = {u \in Ticket : Owed(u)} \cup {t}
  OBVIOUS
<1> QED
  BY <1>1, <1>2 DEF AbstractIndex!Announce, Owed, Announced

LEMMA MirrorAttempts ==
  ASSUME NEW t \in Ticket, NEW v, Owed(t), index' = [index EXCEPT ![t] = v],
         \A u \in Ticket : Wanted(u)' = Wanted(u) /\ (Owed(u)' <=> Owed(u))
  PROVE  AbstractIndex!Attempt(t, v)
<1>1. [u \in Ticket |-> Wanted(u)'] = [u \in Ticket |-> Wanted(u)]
  OBVIOUS
<1>2. {u \in Ticket : Owed(u)'} = {u \in Ticket : Owed(u)}
  OBVIOUS
<1> QED
  BY <1>1, <1>2 DEF AbstractIndex!Attempt, Owed, Announced

LEMMA MirrorSettles ==
  ASSUME NEW t \in Ticket, Owed(t), index' = [index EXCEPT ![t] = Wanted(t)],
         \A u \in Ticket : Wanted(u)' = Wanted(u) /\ (Owed(u)' <=> Owed(u) /\ u # t)
  PROVE  AbstractIndex!Settle(t)
<1>1. [u \in Ticket |-> Wanted(u)'] = [u \in Ticket |-> Wanted(u)]
  OBVIOUS
<1>2. {u \in Ticket : Owed(u)'} = {u \in Ticket : Owed(u)} \ {t}
  OBVIOUS
<1> QED
  BY <1>1, <1>2 DEF AbstractIndex!Settle, Owed, Announced
-----------------------------------------------------------------------------
(* The process p: its loop says which ticket is handled.                    *)
OwedBy(p, t) ==
  t \in pending \/ t \in lost \/ (loop[p].ticket = t /\ loop[p].pc \in BeforeIndexing)

LEMMA OwedOne ==
  ASSUME OneProcess, NEW p \in Proc, NEW t
  PROVE  (Owed(t) <=> OwedBy(p, t)) /\ (Owed(t)' <=> OwedBy(p, t)')
BY DEF OneProcess, Owed, OwedBy, Announced, Handled

MirrorStep == [AbstractIndex!Next]_(AbstractIndex!mirrorVars)

LEMMA MirrorNext ==
  /\ \A t \in Ticket, v \in Reusable \cup {None} :
       /\ AbstractIndex!Announce(t, v) => AbstractIndex!Next
       /\ AbstractIndex!Attempt(t, v) => AbstractIndex!Next
  /\ \A t \in Ticket : AbstractIndex!Settle(t) => AbstractIndex!Next
BY DEF AbstractIndex!Next

LEMMA WantedType ==
  ASSUME NEW t
  PROVE  Wanted(t) \in Reusable \cup {None} /\ Wanted(t)' \in Reusable \cup {None}
BY DEF Wanted

(* The Helpdesk changes and announces it.                                   *)
LEMMA MirrorHelpdesk ==
  ASSUME TypeInv, HelpdeskStep
  PROVE  AbstractIndex!Next
<1>1. PICK t \in Ticket, value \in Record \cup {Trashed} : Write(t, value)
  BY DEF HelpdeskStep, Create, Update, Trash
<1>2. index' = index /\ loop' = loop /\ lost' = lost
  BY DEF HelpdeskStep, storeVars, histVars
<1>3. \A u \in Ticket : u # t => Wanted(u)' = Wanted(u)
  BY <1>1 DEF Write, Wanted, TypeInv, TypeOK, HelpdeskTypeOK
<1>4. \A u \in Ticket : Owed(u)' <=> Owed(u) \/ u = t
  BY <1>1, <1>2 DEF Write, Owed, Announced, Handled
<1>5. PICK v \in Reusable \cup {None} : Wanted(t)' = v
  BY WantedType
<1>6. AbstractIndex!Announce(t, v)
  BY <1>2, <1>3, <1>4, <1>5, MirrorAnnounces
<1> QED
  BY <1>6, MirrorNext

(* The end of the handling of ticket t, with its point written for the last *)
(* time: in order, unless a newer webhook is under way or was lost.         *)
LEMMA MirrorEnd ==
  ASSUME OneProcess, VectorStoreTypeOK, NEW p \in Proc, NEW t \in Ticket,
         NEW v \in Reusable \cup {None},
         loop[p].ticket = t, loop[p].pc \in BeforeIndexing,
         loop'[p].pc \notin BeforeIndexing,
         index' = [index EXCEPT ![t] = v], v = Wanted(t) \/ Announced(t),
         helpdesk' = helpdesk, pending' = pending, lost' = lost
  PROVE  AbstractIndex!Next
<1>1. \A u \in Ticket : Wanted(u)' = Wanted(u)
  BY DEF Wanted
<1>2. \A u \in Ticket : /\ Owed(u) <=> Announced(u) \/ u = t
                        /\ Owed(u)' <=> Announced(u)
  BY OwedOne DEF OwedBy, Announced
<1>3. CASE Announced(t)
  <2>1. AbstractIndex!Attempt(t, v)
    BY <1>1, <1>2, <1>3, MirrorAttempts
  <2> QED
    BY <2>1, MirrorNext
<1>4. CASE ~Announced(t)
  <2>1. index' = [index EXCEPT ![t] = Wanted(t)]
    BY <1>4
  <2>2. AbstractIndex!Settle(t)
    BY <1>1, <1>2, <1>4, <2>1, MirrorSettles
  <2> QED
    BY <2>2, MirrorNext
<1> QED
  BY <1>3, <1>4

(* A step of the loop that leaves the index alone and what is owed as well. *)
LEMMA MirrorQuiet ==
  ASSUME OneProcess, NEW p \in Proc, helpdesk' = helpdesk, index' = index,
         \A t \in Ticket : OwedBy(p, t)' <=> OwedBy(p, t)
  PROVE  MirrorStep
<1>1. \A t \in Ticket : Wanted(t)' = Wanted(t) /\ (Owed(t)' <=> Owed(t))
  BY OwedOne DEF Wanted
<1> QED
  BY <1>1, MirrorStutters DEF MirrorStep

LEMMA MirrorLoop ==
  ASSUME OneProcess, TypeInv, SourceInv, NEW p \in Proc,
         \/ \E t \in Ticket : ReceiveWebhook(p, t) \/ GetLookup(p, t)
         \/ IngestList(p) \/ HandlerStep(p) \/ HandlerFail(p) \/ Crash(p)
  PROVE  MirrorStep
<1>t. LoopInv /\ HelpdeskTypeOK /\ VectorStoreTypeOK
  BY DEF TypeInv, TypeOK
<1>0. Sourced(p) /\ HandlerOK(loop[p])
  BY SourcedOne, LoopTypes, <1>t
<1> DEFINE name == loop[p].ticket
           h    == loop'[p]
<1>f. \A x : loop' = [loop EXCEPT ![p] = x] => h = x
  BY <1>t DEF LoopInv
<1>i. Done(p) => h = Idle
  BY <1>f DEF Done
<1>g. \A pc : Goto(p, pc) => h.pc = pc /\ h.ticket = name
  BY <1>t, GotoResult
<1>a. AfterIndexing(p) => h.pc \in {"idle", "hook_lookup"}
  BY <1>i, <1>g DEF AfterIndexing, Idle
<1>1. ASSUME NEW t \in Ticket, ReceiveWebhook(p, t)
      PROVE  MirrorStep
  <2>1. loop[p] = Idle /\ h.pc = "hook_fetch" /\ h.ticket = t
    BY <1>1, <1>f DEF ReceiveWebhook, Begin, Idle
  <2>2. /\ helpdesk' = helpdesk /\ index' = index /\ lost' = lost
        /\ t \in pending /\ pending' = pending \ {t}
    BY <1>1 DEF ReceiveWebhook, storeVars, histVars
  <2> QED
    BY <2>1, <2>2, MirrorQuiet DEF OwedBy, BeforeIndexing, Idle
<1>2. ASSUME NEW t \in Ticket, GetLookup(p, t)
      PROVE  MirrorStep
  <2>1. loop[p] = Idle /\ h.pc \in GetPc
    BY <1>2, <1>f DEF GetLookup, Begin, Idle, GetPc
  <2>2. helpdesk' = helpdesk /\ pending' = pending /\ lost' = lost /\ index' = index
    BY <1>2 DEF GetLookup, helpdeskVars, storeVars, histVars
  <2> QED
    BY <2>1, <2>2, MirrorQuiet DEF OwedBy, BeforeIndexing, GetPc, Idle
<1>3. CASE \/ IngestList(p) \/ IngestMark(p)
           \/ HookMark(p) \/ HookLookup(p) \/ HookSchedule(p)
           \/ GetSchedule(p) \/ MissFetch(p) \/ MissSearch(p) \/ MissPut(p)
  <2>1. loop[p].pc \notin BeforeIndexing
    BY <1>3 DEF IngestList, Begin, IngestMark, HookMark, HookLookup, HookSchedule,
       GetSchedule, MissFetch, MissSearch, MissPut, BeforeIndexing, Idle
  <2>2. h.pc \notin BeforeIndexing
    <3>1. CASE IngestList(p) \/ IngestMark(p)
      <4>1. \A work : NextToIngest(work).pc \in {"idle", "ingest_upsert"}
        BY DEF NextToIngest, Idle
      <4>2. \E work : h = NextToIngest(work)
        BY <3>1, <1>f DEF IngestList, Begin, IngestMark
      <4> QED
        BY <4>1, <4>2 DEF BeforeIndexing
    <3>2. CASE HookMark(p) \/ HookLookup(p) \/ HookSchedule(p) \/ GetSchedule(p)
               \/ MissPut(p)
      BY <3>2, <1>i, <1>g, <1>a
         DEF HookMark, HookLookup, HookSchedule, GetSchedule, MissPut, BeforeIndexing, Idle
    <3>3. CASE MissFetch(p) \/ MissSearch(p)
      <4>1. h.pc \in {"idle", "miss_search", "miss_put"}
        BY <3>3, <1>i, <1>0, <1>t
           DEF MissFetch, MissSearch, LoopInv, HandlerOK, Handler, Idle
      <4> QED
        BY <4>1 DEF BeforeIndexing
    <3> QED
      BY <1>3, <3>1, <3>2, <3>3
  <2>3. helpdesk' = helpdesk /\ pending' = pending /\ lost' = lost /\ index' = index
    BY <1>3 DEF IngestList, IngestMark, HookMark, HookLookup, HookSchedule, GetSchedule,
       MissFetch, MissSearch, MissPut, MarkHistory, helpdeskVars, storeVars, histVars
  <2> QED
    BY <2>1, <2>2, <2>3, MirrorQuiet DEF OwedBy
<1>4. CASE HookFetch(p)
  <2>1. /\ loop[p].pc = "hook_fetch"
        /\ h = [loop[p] EXCEPT !.pc = AfterFetch(GetTicket(name)),
                               !.rec = GetTicket(name)]
    BY <1>4, <1>t DEF HookFetch, LoopInv
  <2>2. h.pc \in {"hook_upsert", "hook_retrieve"} /\ h.ticket = name
    BY <2>1, <1>0 DEF HandlerOK, Handler, AfterFetch
  <2>3. /\ helpdesk' = helpdesk /\ pending' = pending /\ index' = index
        /\ lost' = lost \ {name}
    BY <1>4 DEF HookFetch, helpdeskVars, storeVars
  <2> QED
    BY <2>1, <2>2, <2>3, MirrorQuiet DEF OwedBy, BeforeIndexing
<1>5. CASE HookUpsert(p)
  <2>1. loop[p].pc = "hook_upsert" /\ name \in Ticket /\ loop[p].rec \in Reusable
    BY <1>5, <1>0 DEF HookUpsert, HandlerOK, HookPc
  <2>2. h.pc = "hook_mark"
    BY <1>5, <1>g DEF HookUpsert
  <2>3. /\ helpdesk' = helpdesk /\ pending' = pending /\ lost' = lost
        /\ index' = [index EXCEPT ![name] = loop[p].rec]
    BY <1>5 DEF HookUpsert, Upsert, helpdeskVars, histVars
  <2>4. loop[p].rec = Wanted(name) \/ Announced(name)
    BY <2>1, <1>0 DEF Sourced, HookWrites
  <2> QED
    BY <2>1, <2>2, <2>3, <2>4, <1>t, MirrorEnd, MirrorNext DEF MirrorStep, BeforeIndexing
<1>6. CASE HookRetrieve(p)
  <2>1. loop[p].pc = "hook_retrieve" /\ name \in Ticket
    BY <1>6, <1>0 DEF HookRetrieve, HandlerOK, HookPc
  <2>2. helpdesk' = helpdesk /\ pending' = pending /\ lost' = lost /\ index' = index
    BY <1>6 DEF HookRetrieve, helpdeskVars, storeVars, histVars
  <2>3. CASE index[name] # None
    <3>1. h.pc = "hook_delete" /\ h.ticket = name
      BY <1>6, <2>3, <1>g DEF HookRetrieve, Exists
    <3> QED
      BY <2>1, <2>2, <3>1, MirrorQuiet DEF OwedBy, BeforeIndexing
  <2>4. CASE index[name] = None
    <3>1. h.pc \notin BeforeIndexing
      BY <1>6, <2>4, <1>a DEF HookRetrieve, Exists, BeforeIndexing
    <3>2. None = Wanted(name) \/ Announced(name)
      BY <2>1, <1>0 DEF Sourced, HookWrites
    <3>3. index' = [index EXCEPT ![name] = None]
      BY <2>1, <2>2, <2>4, <1>t DEF VectorStoreTypeOK, Index
    <3> QED
      BY <2>1, <2>2, <3>1, <3>2, <3>3, <1>t, MirrorEnd DEF MirrorStep, BeforeIndexing
  <2> QED
    BY <2>3, <2>4
<1>7. CASE HookDelete(p)
  <2>1. loop[p].pc = "hook_delete" /\ name \in Ticket
    BY <1>7, <1>0 DEF HookDelete, HandlerOK, HookPc
  <2>2. h.pc = "hook_mark"
    BY <1>7, <1>g DEF HookDelete
  <2>3. /\ helpdesk' = helpdesk /\ pending' = pending /\ lost' = lost
        /\ index' = [index EXCEPT ![name] = None]
    BY <1>7 DEF HookDelete, DeletePoint, helpdeskVars, histVars
  <2>4. None = Wanted(name) \/ Announced(name)
    BY <2>1, <1>0 DEF Sourced, HookWrites
  <2> QED
    BY <2>1, <2>2, <2>3, <2>4, <1>t, MirrorEnd DEF MirrorStep, BeforeIndexing
<1>8. ASSUME NEW t \in Ticket, IngestUpsert(p, t)
      PROVE  MirrorStep
  <2> DEFINE v == loop[p].work[t]
  <2>1. loop[p].pc = "ingest_upsert" /\ v \in Reusable
    BY <1>8, <1>0 DEF IngestUpsert, HandlerOK, Handler, Index
  <2>2. h.pc = "ingest_mark"
    BY <1>8, <1>0, <1>t DEF IngestUpsert, LoopInv, HandlerOK, Handler
  <2>3. /\ helpdesk' = helpdesk /\ pending' = pending /\ lost' = lost
        /\ index' = [index EXCEPT ![t] = v]
    BY <1>8 DEF IngestUpsert, Upsert, helpdeskVars, histVars
  <2>4. v = Wanted(t) \/ Announced(t)
    BY <1>8, <2>1, <1>0 DEF Sourced, IngestWrites, IngestPc, IngestUpsert
  <2>5. \A u \in Ticket : Wanted(u)' = Wanted(u) /\ (Owed(u)' <=> Owed(u))
    BY <2>1, <2>2, <2>3, OwedOne DEF Wanted, OwedBy, BeforeIndexing
  <2>6. CASE Announced(t)
    <3>1. AbstractIndex!Attempt(t, v)
      <4> HIDE DEF v
      <4> QED
        BY <2>3, <2>5, <2>6, MirrorAttempts DEF Owed
    <3> QED
      BY <3>1, <2>1, MirrorNext DEF MirrorStep
  <2>7. CASE ~Announced(t)
    <3>1. index[t] = v
      BY <2>1, <2>4, <2>7, <1>0 DEF Sourced, BeforeIndexing
    <3>2. index' = index
      BY <2>3, <3>1, <1>t DEF VectorStoreTypeOK, Index
    <3> QED
      BY <2>5, <3>2, MirrorStutters DEF MirrorStep
  <2> QED
    BY <2>6, <2>7
<1>9. CASE HandlerFail(p) \/ Crash(p)
  <2>1. h = Idle /\ helpdesk' = helpdesk /\ index' = index /\ Unanswered(p)
    BY <1>9, <1>i DEF HandlerFail, Crash, storeVars
  <2>2. h.pc \notin BeforeIndexing
    BY <2>1 DEF Idle, BeforeIndexing
  <2>3. CASE pending' = pending /\ lost' = lost /\ loop[p].pc \notin HookPc
    BY <2>1, <2>2, <2>3, MirrorQuiet DEF OwedBy, HookPc, BeforeIndexing
  <2>4. CASE /\ loop[p].pc \in HookPc
             /\ \/ pending' = pending \cup {name} /\ lost' = lost
                \/ pending' = pending /\ lost' = lost \cup {name}
    <3>1. PICK t \in Ticket : t = name
      BY <2>4, <1>0 DEF HandlerOK
    <3>2. \A u \in Ticket : Wanted(u)' = Wanted(u)
      BY <2>1 DEF Wanted
    <3>3. \A u \in Ticket : Owed(u)' <=> Owed(u) \/ u = t
      BY <2>2, <2>4, <3>1, OwedOne DEF OwedBy
    <3>4. PICK v \in Reusable \cup {None} : Wanted(t)' = v
      BY WantedType
    <3>5. AbstractIndex!Announce(t, v)
      BY <2>1, <3>2, <3>3, <3>4, MirrorAnnounces
    <3> QED
      BY <3>5, MirrorNext DEF MirrorStep
  <2> QED
    BY <2>1, <2>3, <2>4 DEF Unanswered
<1> QED
  BY <1>1, <1>2, <1>3, <1>4, <1>5, <1>6, <1>7, <1>8, <1>9 DEF HandlerStep

LEMMA MirrorSteps ==
  ASSUME OneProcess
  PROVE  TypeInv /\ SourceInv /\ [Next]_vars => MirrorStep
<1> SUFFICES ASSUME TypeInv, SourceInv, [Next]_vars PROVE MirrorStep
  OBVIOUS
<1>1. CASE UNCHANGED <<helpdesk, pending, lost, index, loop>>
  <2>1. \A t \in Ticket : Wanted(t)' = Wanted(t) /\ (Owed(t)' <=> Owed(t))
    BY <1>1 DEF Wanted, Owed, Announced, Handled
  <2> QED
    BY <1>1, <2>1, MirrorStutters DEF MirrorStep
<1>2. CASE HelpdeskStep
  BY <1>2, MirrorHelpdesk DEF MirrorStep
<1>3. ASSUME NEW p \in Proc, NEW s \in Slot, TaskStep(p, s) \/ TaskFail(p, s)
      PROVE  UNCHANGED <<helpdesk, pending, lost, index, loop>>
  BY <1>3 DEF TaskStep, TaskFetch, TaskSearch, TaskPut, TaskFinish, TaskFail,
     helpdeskVars, storeVars, histVars
<1>4. UNCHANGED vars => UNCHANGED <<helpdesk, pending, lost, index, loop>>
  BY DEF vars, helpdeskVars, storeVars, histVars
<1> QED
  BY <1>1, <1>2, <1>3, <1>4, MirrorLoop DEF Next

LEMMA MirrorInit == Init => AbstractIndex!Init
<1> SUFFICES ASSUME Init PROVE AbstractIndex!Init
  OBVIOUS
<1>1. {t \in Ticket : t \in pending \cup lost \/ Handled(t)} = {}
  BY DEF Init, HelpdeskInit, Handled, Idle, BeforeIndexing
<1>2. [t \in Ticket |-> Wanted(t)] \in [Ticket -> Reusable \cup {None}]
  BY WantedType
<1>3. index = [t \in Ticket |-> Wanted(t)]
  BY DEF Init
<1> QED
  BY <1>1, <1>2, <1>3 DEF AbstractIndex!Init

(***************************************************************************)
(* In one process, handle_webhook and ingest_full with index_ticket and     *)
(* deindex_ticket implement Mirror: they never touch the point of a ticket  *)
(* that is in order, and put it in order at the step after which nothing is *)
(* owed any more, whatever fails in between.                                *)
(***************************************************************************)
THEOREM IndexMirrors ==
  ASSUME OneProcess
  PROVE  Spec => IndexMirrorsHelpdesk
<1>1. Init => AbstractIndex!Init /\ SourceInv
  BY MirrorInit DEF Init, SourceInv, IndexTracksHelpdesk, HookWrites, IngestWrites,
     Idle, IngestPc
<1>2. TypeInv /\ SourceInv /\ [Next]_vars => SourceInv' /\ MirrorStep
  BY SourceStep, MirrorSteps
<1> QED
  BY <1>1, <1>2, TypeInvariant, PTL
     DEF Spec, IndexMirrorsHelpdesk, AbstractIndex!Spec, MirrorStep
=============================================================================
