------------------------------ MODULE Seeding ------------------------------
(***************************************************************************)
(* scripts/seed_helpdesk.py: creates the tickets of its fixture in the      *)
(* Helpdesk, one REST call after the other, and at its end writes down      *)
(* which ticket is which (data/seed_manifest.json).  A run that fails       *)
(* leaves its tickets behind, and one that fails while it writes leaves a   *)
(* broken file.  There is one Helpdesk here; a run can be pointed at the    *)
(* Helpdesk of another site and then shares only the file with it.  Of a    *)
(* ticket's text the model knows its place in the fixture; tickets are      *)
(* numbered in the order they are created, at each site.                    *)
(***************************************************************************)
EXTENDS Naturals, SequencesExt, Selection

CONSTANTS
  None,        \* a field, or a file, that is not there
  Partial,     \* what a write that was broken off leaves of the file
  Picked,      \* bound: the places of the fixture that are seeded
  MaxTickets,  \* bound: tickets in the Helpdesk
  Elsewhere    \* bound: where the numbers of another site's tickets begin

ClusterIds ==
  <<"vpn-crash-after-update", "shared-drive-access-denied-after-reset",
    "calendar-sync-not-updating", "printer-jobs-stuck-after-update",
    "sso-login-redirect-loop", "slack-notifications-not-showing",
    "laptop-wont-wake-from-sleep", "password-reset-email-not-received">>

Entry(group, cluster, mark) == [group |-> group, cluster |-> cluster, mark |-> mark]
OnePerCluster(group, mark) ==
  [i \in DOMAIN ClusterIds |-> Entry(group, ClusterIds[i], mark)]
Times(n, entry) == [i \in 1..n |-> entry]

\* four members that state no variant, and a paraphrase
CLUSTERS ==
  [k \in 1 .. 5 * Len(ClusterIds) |->
    Entry("member", ClusterIds[1 + (k - 1) \div 5],
          IF k % 5 = 0 THEN "low-lexical-overlap" ELSE None)]

DISTRACTORS ==
  OnePerCluster("distractor", None)
  \o Times(8, Entry("distractor", None, None))
  \o OnePerCluster("distractor", "near-miss")
  \o Times(3, Entry("distractor", None, "cross-cluster-confusable"))

DEMO_QUERIES ==
  <<Entry("query", ClusterIds[1], None), Entry("query", ClusterIds[4], None),
    Entry("query", ClusterIds[8], None)>>
  \o Times(2, Entry("query", None, None))

Fixture == CLUSTERS \o DISTRACTORS \o DEMO_QUERIES

ASSUME PickedOfFixture ==
  Picked \subseteq DOMAIN Fixture /\ Picked # {} /\ MaxTickets \in Nat

ASSUME ElsewhereType == Elsewhere \subseteq Nat \ {0}

ASSUME NoneIsNoMark == None # "near-miss"

\* What eval/dataset.py relies on: it keeps one near-miss for a cluster.
ASSUME OneNearMissPerCluster ==
  \A i, j \in DOMAIN DISTRACTORS :
    /\ DISTRACTORS[i].mark = "near-miss" /\ DISTRACTORS[j].mark = "near-miss"
    /\ DISTRACTORS[i].cluster = DISTRACTORS[j].cluster
    => i = j

Order == Arranged(Picked, Ascending(Picked))

VARIABLES
  tickets,   \* ticket_name -> its place in the fixture, the run that created
             \* it (called by its first ticket), whether it is resolved
  manifest,  \* the file; None before it is written for the first time
  origin,    \* history: the site of the run that wrote the file
  seed       \* the last run here: where it is and what it has noted

fileVars == <<manifest, origin>>
seedVars == <<tickets, fileVars, seed>>

SeedInit ==
  /\ tickets = <<>>
  /\ manifest = None
  /\ origin = "here"
  /\ seed = [pc |-> "idle", run |-> 1, next |-> 1, noted |-> <<>>]

Seeding == seed.pc \in {"login", "create", "resolve", "write"}
-----------------------------------------------------------------------------
BeginSeed ==
  /\ ~Seeding
  /\ Len(tickets) < MaxTickets
  /\ seed' = [pc |-> "login", run |-> Len(tickets) + 1, next |-> 1, noted |-> <<>>]
  /\ UNCHANGED <<tickets, fileVars>>

SeedLogin ==
  /\ seed.pc = "login"
  /\ seed' = [seed EXCEPT !.pc = "create"]
  /\ UNCHANGED <<tickets, fileVars>>

Variant(e) == IF e.mark = None THEN "standard" ELSE e.mark

Kind(e) ==
  CASE e.mark # None                      -> e.mark
    [] e.mark = None /\ e.cluster # None  -> "topic-adjacent"
    [] e.mark = None /\ e.cluster = None  -> "pure-noise"

\* the manifest's entry for a ticket
Note(name, e) ==
  [ticket_name |-> name, group |-> e.group, cluster |-> e.cluster,
   mark |-> CASE e.group = "member"     -> Variant(e)
              [] e.group = "distractor" -> Kind(e)
              [] e.group = "query"      -> None]

\* the run goes on, having noted the ticket name
Noting(name, place) ==
  [seed EXCEPT !.pc = "create", !.next = @ + 1,
               !.noted = Append(@, Note(name, Fixture[place]))]

\* mutant: demo queries are resolved, too
CreateTicketToResolve ==
  /\ seed.pc = "create" /\ seed.next <= Len(Order)
  /\ Len(tickets) < MaxTickets
  /\ tickets' = Append(tickets, [place |-> Order[seed.next], run |-> seed.run,
                                 resolved |-> FALSE])
  /\ seed' = [seed EXCEPT !.pc = "resolve"]
  /\ UNCHANGED fileVars

\* a demo query stays open
CreateTicket ==
  /\ seed.pc = "create" /\ seed.next <= Len(Order)
  /\ Len(tickets) < MaxTickets
  /\ LET place == Order[seed.next] IN
       /\ tickets' = Append(tickets, [place |-> place, run |-> seed.run,
                                      resolved |-> FALSE])
       /\ seed' = IF Fixture[place].group = "query"
                  THEN Noting(Len(tickets'), place)
                  ELSE [seed EXCEPT !.pc = "resolve"]
  /\ UNCHANGED fileVars

ResolveTicket ==
  /\ seed.pc = "resolve"
  /\ tickets' = [tickets EXCEPT ![Len(tickets)].resolved = TRUE]
  /\ seed' = Noting(Len(tickets), Order[seed.next])
  /\ UNCHANGED fileVars

\* write_text opens the file, which empties it ...
OpenManifest ==
  /\ seed.pc = "create" /\ seed.next > Len(Order)
  /\ manifest' = Partial
  /\ seed' = [seed EXCEPT !.pc = "write"]
  /\ UNCHANGED <<tickets, origin>>

\* ... and writes
WriteManifest ==
  /\ seed.pc = "write"
  /\ manifest' = seed.noted /\ origin' = "here"
  /\ seed' = [seed EXCEPT !.pc = "done"]
  /\ UNCHANGED tickets

\* mutant: the manifest is written in a finally clause
SeedFailsWriting ==
  /\ Seeding
  /\ seed' = [seed EXCEPT !.pc = "failed"]
  /\ manifest' = seed.noted /\ origin' = "here"
  /\ UNCHANGED tickets

\* a call or the write fails, and the run with it
SeedFails ==
  /\ Seeding
  /\ seed' = [seed EXCEPT !.pc = "failed"]
  /\ UNCHANGED <<tickets, fileVars>>

(* A run with --base-url of another site: nothing happens here, but it      *)
(* writes the same file, or fails at that.                                  *)
SeedElsewhere ==
  /\ ~Seeding
  /\ \E first \in Elsewhere :
       manifest' \in {Partial, [i \in DOMAIN Order |->
                                 Note(first + i - 1, Fixture[Order[i]])]}
  /\ origin' = "elsewhere"
  /\ UNCHANGED <<tickets, seed>>

SeedStep ==
  \/ BeginSeed \/ SeedLogin \/ CreateTicket \/ ResolveTicket
  \/ OpenManifest \/ WriteManifest \/ SeedFails \/ SeedElsewhere

\* load_manifest finds the file, and it is JSON
Readable == manifest \notin {None, Partial}
-----------------------------------------------------------------------------
(***************************************************************************)
(* scripts/seed_helpdesk.py, eval/dataset.py: a run creates tickets before  *)
(* it notes them and may fail at any call and while it writes.  A manifest  *)
(* of this site that the tools can read nevertheless accounts for the whole *)
(* fixture with tickets of one run, each as the Helpdesk has it, whatever   *)
(* later runs left unfinished.  (That there is one is not said: a write     *)
(* broken off has emptied the file, and the earlier manifest is gone.)      *)
(***************************************************************************)
ManifestIsComplete ==
  Readable /\ origin = "here" =>
    \E run \in DOMAIN tickets :
      /\ {tickets[manifest[i].ticket_name].place : i \in DOMAIN manifest} = Picked
      /\ Len(manifest) = Cardinality(Picked)
      /\ \A i \in DOMAIN manifest :
           LET ticket == tickets[manifest[i].ticket_name]
           IN /\ ticket.run = run
              /\ Fixture[ticket.place].group = manifest[i].group
              /\ ticket.resolved <=> manifest[i].group # "query"
=============================================================================
