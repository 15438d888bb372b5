---------------------------- MODULE MatchCache ----------------------------
(***************************************************************************)
(* The Postgres table ticket_matches_cache: one row per ticket name, with   *)
(* the Matches and the stale flag.  Each operation is one autocommitted     *)
(* statement.  The table outlives the processes of the service.             *)
(***************************************************************************)
EXTENDS Tickets

VARIABLE rows   \* ticket -> its row, None if it has none

MatchCacheTypeOK == rows \in [Ticket -> Row \cup {None}]

MatchCacheInit == rows = [t \in Ticket |-> None]

IsStale(t) == rows[t] # None /\ rows[t].stale
IsFresh(t) == rows[t] # None /\ ~rows[t].stale

\* mutant: the ON CONFLICT clause leaves the flag alone
PutKeepingFlag(t, matches) ==
  rows' = [rows EXCEPT ![t] = [matches |-> matches, stale |-> IsStale(t)]]

\* mutant: the ON CONFLICT clause clears the flag and leaves the Matches alone
PutKeepingMatches(t, matches) ==
  rows' = [rows EXCEPT ![t] = [matches |-> IF rows[t] = None THEN matches
                                           ELSE rows[t].matches, stale |-> FALSE]]

\* an upsert that clears the flag
Put(t, matches) ==
  rows' = [rows EXCEPT ![t] = [matches |-> matches, stale |-> FALSE]]

\* UPDATE ... SET stale = true WHERE stale = false
MarkAllStale ==
  rows' = [t \in Ticket |-> IF IsFresh(t) THEN [rows[t] EXCEPT !.stale = TRUE]
                                          ELSE rows[t]]
=============================================================================
