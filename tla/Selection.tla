----------------------------- MODULE Selection -----------------------------
(***************************************************************************)
(* What Python's sorted(), a list comprehension with a condition and a      *)
(* slice return.  The first two are defined by the place every element      *)
(* takes, without recursion, so that the proofs can use them                *)
(* (SelectionProofs); the comprehension is what SelectSeq computes.         *)
(***************************************************************************)
EXTENDS Naturals, Sequences, FiniteSetsExt

(* A strict order is given by the set of its pairs.                         *)
Ascending(S) == {p \in S \X S : p[1] < p[2]}

PlaceOf(x, S, before) == 1 + Cardinality({y \in S : <<y, x>> \in before})

\* the elements of S, each after those before it
Arranged(S, before) ==
  [k \in 1..Cardinality(S) |-> CHOOSE x \in S : PlaceOf(x, S, before) = k]

\* the elements of the sequence s at the positions in I
Selected(s, I) ==
  LET position == Arranged(I, Ascending(I))
  IN [k \in DOMAIN position |-> s[position[k]]]

\* s[from:to]
Slice(s, from, to) == SubSeq(s, from + 1, Min({to, Len(s)}))
=============================================================================
