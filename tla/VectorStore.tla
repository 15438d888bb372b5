---------------------------- MODULE VectorStore ----------------------------
(***************************************************************************)
(* The Qdrant collection.  A point id is a function of the ticket's name,   *)
(* so the collection is a function from tickets to the record of their one  *)
(* point.  It outlives the processes of the service.                        *)
(***************************************************************************)
EXTENDS Tickets

VARIABLE index   \* ticket -> the record in its point, None if it has none

VectorStoreTypeOK == index \in Index

Upsert(t, rec) == index' = [index EXCEPT ![t] = rec]

\* delete_by_ticket_name first retrieves the point, then deletes it
Exists(t) == index[t] # None
DeletePoint(t) == index' = [index EXCEPT ![t] = None]

\* compute_matches after get_ticket: search, rerank, gate
Search(t, query) == MatchesOf(t, query, index)
=============================================================================
