------------------------------ MODULE Tickets ------------------------------
(***************************************************************************)
(* The domain of the service (CONTEXT.md): Ticket Records, which of them    *)
(* are Reusable, and which Reusable Tickets match a text.  A subject and a  *)
(* description are one member of Text, a resolution one member of           *)
(* Resolution; None stands for an empty resolution, a ticket that was not   *)
(* created yet, an absent point, an absent row.                             *)
(***************************************************************************)
CONSTANTS
  Ticket,      \* names of HD Tickets
  Text,        \* what match_text() returns for a subject and a description
  Resolution,  \* non-empty values of resolution_details
  None,
  Trashed,     \* a ticket that was deleted in the Helpdesk
  Alike        \* <<query, text>>: text is retrieved for query and its rerank
               \* score reaches the Match Threshold

Record   == [text : Text, res : Resolution \cup {None}]
Reusable == [text : Text, res : Resolution]
Entry    == [ticket : Ticket, rec : Reusable]
Row      == [matches : SUBSET Entry, stale : BOOLEAN]
Index    == [Ticket -> Reusable \cup {None}]

ASSUME DistinctValues ==
  /\ None \notin Ticket \cup Resolution \cup Record \cup Row
  /\ Trashed \notin Record \cup {None}

ASSUME AlikeType == Alike \subseteq Text \X Text

\* ticket.get("resolution_details") is truthy
Eligible(rec) == rec.res # None

(* The Matches of ticket t for the query text: the indexed tickets other    *)
(* than t that clear the gate.  The cut to MAX_MATCHES and the size of the  *)
(* candidate pool are left out: at most five tickets are compared.          *)
MatchesOf(t, query, index) ==
  {e \in Entry : /\ e.ticket # t
                 /\ index[e.ticket] = e.rec
                 /\ <<query, e.rec.text>> \in Alike}
=============================================================================
