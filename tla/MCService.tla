----------------------------- MODULE MCService -----------------------------
(* Instances of Service for TLC.                                            *)
EXTENDS Service, TLC

\* a text is retrieved for an equal text only
MCAlike == {<<x, x>> : x \in Text}

Symmetry == Permutations(Ticket) \cup Permutations(Slot) \cup Permutations(Text)
            \cup Permutations(Resolution)

(* For the temporal properties: one Reusable Ticket and one Query Ticket,   *)
(* or one Reusable Ticket and one that is not created yet.                  *)
Solved == CHOOSE t \in Ticket : TRUE
AnyReusable == CHOOSE rec \in Reusable : TRUE

InitBesideSolved(value) ==
  /\ Init
  /\ helpdesk = [t \in Ticket |-> IF t = Solved THEN AnyReusable ELSE value]

InitWithQuery == InitBesideSolved([AnyReusable EXCEPT !.res = None])
InitWithNew   == InitBesideSolved(None)

ReadingFromQuery == InitWithQuery /\ [][Next]_vars /\ Progress /\ Reading
ProgressFromNew  == InitWithNew /\ [][Next]_vars /\ Progress
=============================================================================
