--------------------------- MODULE HelpdeskClient ---------------------------
(***************************************************************************)
(* Frappe Helpdesk as the service sees it.  Its tickets change at any time; *)
(* every save and every deletion fires a webhook that carries the name of   *)
(* the ticket only, so two undelivered ones for the same ticket are one     *)
(* member of pending.  HelpdeskClient reads the tickets over REST.          *)
(***************************************************************************)
EXTENDS Tickets, Naturals

CONSTANT MaxEdits   \* bound: saves and deletions in a behaviour

VARIABLES
  helpdesk,  \* ticket -> its record, None before creation, Trashed after deletion
  pending,   \* tickets a webhook is under way for
  edits      \* number of saves and deletions so far

helpdeskVars == <<helpdesk, pending, edits>>

HelpdeskTypeOK ==
  /\ helpdesk \in [Ticket -> Record \cup {None, Trashed}]
  /\ pending \in SUBSET Ticket
  /\ edits \in Nat

HelpdeskInit ==
  /\ helpdesk \in [Ticket -> Record \cup {None}]
  /\ pending = {}
  /\ edits = 0

Write(t, value) ==
  /\ edits < MaxEdits
  /\ edits' = edits + 1
  /\ helpdesk' = [helpdesk EXCEPT ![t] = value]
  /\ pending' = pending \cup {t}

\* an insert runs on_update as well
Create(t, rec) == helpdesk[t] = None /\ Write(t, rec)

\* a save; it may leave the fields the service reads as they were
Update(t, rec) == helpdesk[t] \in Record /\ Write(t, rec)

Trash(t) == helpdesk[t] \in Record /\ Write(t, Trashed)

\* get_ticket: the record, or None for the HTTPError 404
GetTicket(t) == IF helpdesk[t] \in Record THEN helpdesk[t] ELSE None

(* The record the index should hold for t, None if it should hold nothing.  *)
Wanted(t) == IF helpdesk[t] \in Reusable THEN helpdesk[t] ELSE None

\* mutant: no filter on resolution_details
ListAll == [t \in Ticket |-> GetTicket(t)]

\* list_reusable_tickets, for a Helpdesk whose tickets fit one page
ListReusable ==
  [t \in Ticket |-> LET rec == GetTicket(t)
                    IN IF rec # None /\ Eligible(rec) THEN rec ELSE None]
=============================================================================
