----------------------------- MODULE FullIngest -----------------------------
(***************************************************************************)
(* POST /ingest/full page by page.  _list_all_tickets asks for pages by     *)
(* offset and names no order; the Helpdesk may change between two pages and *)
(* shift the tickets under the offset.  Service.tla reads the list in one   *)
(* step; here the list is a sequence and the records are indexed in its     *)
(* order.  The handler holds the event loop, so no webhook is handled while *)
(* it runs.                                                                 *)
(***************************************************************************)
EXTENDS HelpdeskClient, VectorStore, MatchCache, SequencesExt, Selection

CONSTANT PageSize   \* page_size

ASSUME PageSizeType == PageSize \in Nat \ {0}
ASSUME TicketsFinite == IsFiniteSet(Ticket)

VARIABLES
  listing,  \* the names in the order in which the REST API lists them
  phase,    \* "idle" before and after a request, "list", "index"
  start,    \* limit_start of the next page
  tickets,  \* the entries listed and, in the second phase, still to index
  steady,   \* history: tickets Reusable and untouched since the request began
  trashed,  \* history: number of tickets trashed since the request began
  latest    \* history: ticket -> the last Reusable record listed for it

ingestVars == <<phase, start, tickets>>
vars == <<helpdeskVars, index, rows, listing, ingestVars, steady, trashed, latest>>

RawEntry == [ticket : Ticket, rec : Record]

TypeOK ==
  /\ HelpdeskTypeOK /\ VectorStoreTypeOK /\ MatchCacheTypeOK
  /\ listing \in Seq(Ticket) /\ IsInjective(listing)
  /\ ToSet(listing) = {t \in Ticket : helpdesk[t] \in Record}
  /\ phase \in {"idle", "list", "index"}
  /\ start \in Nat
  /\ tickets \in Seq(IF phase = "list" THEN RawEntry ELSE Entry)
  /\ steady \in SUBSET Ticket
  /\ trashed \in Nat
  /\ latest \in Index

NoRecord == [t \in Ticket |-> None]

(* A first ingest, into an empty collection; rows computed so far are empty. *)
Init ==
  /\ HelpdeskInit
  /\ rows = [t \in Ticket |-> [matches |-> {}, stale |-> FALSE]]
  /\ index = NoRecord
  /\ listing \in SetToSeqs({t \in Ticket : helpdesk[t] \in Record})
  /\ phase = "idle" /\ start = 0 /\ tickets = <<>>
  /\ steady = {} /\ trashed = 0 /\ latest = NoRecord
-----------------------------------------------------------------------------
Without(t) == Selected(listing, {i \in DOMAIN listing : listing[i] # t})
ToFront(t) == <<t>> \o Without(t)

Touch(t) == steady' = steady \ {t}

(* A new ticket is listed first; a saved one first, too, or where it was,   *)
(* as the site's default order has it.                                      *)
Save(t, rec) ==
  /\ \/ Create(t, rec) /\ listing' = ToFront(t)
     \/ Update(t, rec) /\ listing' \in {listing, ToFront(t)}
  /\ Touch(t)
  /\ UNCHANGED <<index, rows, ingestVars, trashed, latest>>

Delete(t) ==
  /\ Trash(t)
  /\ listing' = Without(t)
  /\ Touch(t)
  /\ trashed' = trashed + 1
  /\ UNCHANGED <<index, rows, ingestVars, latest>>
-----------------------------------------------------------------------------
BeginIngest ==
  /\ phase = "idle"
  /\ phase' = "list" /\ start' = 0 /\ tickets' = <<>>
  /\ steady' = {t \in Ticket : helpdesk[t] \in Reusable}
  /\ trashed' = 0
  /\ latest' = NoRecord
  /\ UNCHANGED <<helpdeskVars, index, rows, listing>>

\* what GET /api/resource/HD Ticket returns for an offset
Page(from) ==
  LET names == Slice(listing, from, from + PageSize)
  IN [i \in DOMAIN names |-> [ticket |-> names[i], rec |-> helpdesk[names[i]]]]

\* mutant: one ticket lost between two pages
NextStartOff == start + PageSize + 1

NextStart == start + PageSize

\* mutant: no filter on resolution_details
KeepAll(entries) == entries

KeepReusable(entries) == Selected(entries, {i \in DOMAIN entries : Eligible(entries[i].rec)})

Listed(t, page) == \E e \in ToSet(page) : e.ticket = t /\ Eligible(e.rec)

FetchPage ==
  LET page == Page(start) IN
  /\ phase = "list"
  /\ \/ /\ Len(page) < PageSize
        /\ phase' = "index"
        /\ tickets' = KeepReusable(tickets \o page)
        /\ UNCHANGED start
     \/ /\ Len(page) = PageSize
        /\ start' = NextStart
        /\ tickets' = tickets \o page
        /\ UNCHANGED phase
  /\ latest' = [t \in Ticket |-> IF Listed(t, page) THEN helpdesk[t] ELSE latest[t]]
  /\ UNCHANGED <<helpdeskVars, index, rows, listing, steady, trashed>>

IndexEntry(entry) == Upsert(entry.ticket, entry.rec) /\ MarkAllStale

\* mutant: from the end of the list
IndexLast ==
  /\ phase = "index"
  /\ tickets # <<>>
  /\ IndexEntry(Last(tickets))
  /\ tickets' = Front(tickets)
  /\ UNCHANGED <<helpdeskVars, listing, phase, start, steady, trashed, latest>>

\* prepare_doc_for_indexing and index_ticket for the next entry
IndexNext ==
  /\ phase = "index"
  /\ tickets # <<>>
  /\ IndexEntry(Head(tickets))
  /\ tickets' = Tail(tickets)
  /\ UNCHANGED <<helpdeskVars, listing, phase, start, steady, trashed, latest>>

EndIngest ==
  /\ phase = "index"
  /\ tickets = <<>>
  /\ phase' = "idle" /\ start' = 0
  /\ UNCHANGED <<helpdeskVars, index, rows, listing, tickets, steady, trashed, latest>>

(* A page or a call of index_ticket fails, or the process is restarted:     *)
(* what was indexed stays indexed.                                          *)
IngestFail ==
  /\ phase # "idle"
  /\ phase' = "idle" /\ start' = 0 /\ tickets' = <<>>
  /\ steady' = {} /\ trashed' = 0 /\ latest' = NoRecord
  /\ UNCHANGED <<helpdeskVars, index, rows, listing>>

Next ==
  \/ \E t \in Ticket : Delete(t) \/ \E rec \in Record : Save(t, rec)
  \/ BeginIngest \/ FetchPage \/ IndexNext \/ EndIngest \/ IngestFail

Spec == Init /\ [][Next]_vars
-----------------------------------------------------------------------------
(***************************************************************************)
(* api/main.py, ingestion/helpdesk_client.py: after a request that did not  *)
(* fail, the Reusable Tickets nobody touched since it began are in the      *)
(* index with their records, save at most one for every ticket trashed      *)
(* meanwhile.  A ticket that moves to the front of the list, or a new one,  *)
(* costs nothing: it makes tickets appear twice.                            *)
(***************************************************************************)
NotIndexed == {t \in steady : index[t] # helpdesk[t]}

SkipsAtMostOnePerTrash == phase = "idle" => Cardinality(NotIndexed) <= trashed

(***************************************************************************)
(* A ticket listed twice, with two Reusable records, is indexed with the    *)
(* one listed last, since entries are indexed in the order in which they    *)
(* were read.  (One that is no longer Reusable when it is listed last is    *)
(* filtered out, and the point of the older record stays.)                  *)
(***************************************************************************)
LastListedWins ==
  phase # "list" =>
    \A t \in Ticket :
      latest[t] # None =>
        index[t] = latest[t] \/ \E e \in ToSet(tickets) : e.ticket = t

(* docs/ARCHITECTURE.md: POST /ingest/full walks every Reusable Ticket, so  *)
(* also every one that was Reusable and untouched during the request.       *)
WalksEveryReusable == phase = "idle" => NotIndexed = {}
=============================================================================
