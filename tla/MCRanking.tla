----------------------------- MODULE MCRanking -----------------------------
(* An instance of Ranking for TLC.                                          *)
EXTENDS Ranking, TLC

\* the Query Ticket is not like the others
Symmetry == Permutations(Ticket \ {QueryTicket})
=============================================================================
