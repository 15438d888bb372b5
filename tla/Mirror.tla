------------------------------- MODULE Mirror -------------------------------
(***************************************************************************)
(* What the indexing side of the service promises, without its handlers: a  *)
(* copy follows a source that changes by itself.  A key at which the two    *)
(* may differ is owed: a change makes it so, only putting the copy in order *)
(* ends it, and the copy of a key that is not owed is left alone.           *)
(***************************************************************************)
EXTENDS TLAPS

CONSTANTS
  Key,
  Value

VARIABLES
  source,
  copy,
  owed

mirrorVars == <<source, copy, owed>>

TypeOK ==
  /\ source \in [Key -> Value] /\ copy \in [Key -> Value]
  /\ owed \in SUBSET Key

Init ==
  /\ source \in [Key -> Value]
  /\ copy = source
  /\ owed = {}

\* the source changes at k, or is only said to
Announce(k, v) ==
  /\ source' = [source EXCEPT ![k] = v]
  /\ owed' = owed \cup {k}
  /\ UNCHANGED copy

\* an attempt, perhaps with a value the source had earlier
Attempt(k, v) ==
  /\ k \in owed
  /\ copy' = [copy EXCEPT ![k] = v]
  /\ UNCHANGED <<source, owed>>

Settle(k) ==
  /\ k \in owed
  /\ copy' = [copy EXCEPT ![k] = source[k]]
  /\ owed' = owed \ {k}
  /\ UNCHANGED source

Next == \E k \in Key : \/ \E v \in Value : Announce(k, v) \/ Attempt(k, v)
                       \/ Settle(k)

Spec == Init /\ [][Next]_mirrorVars

(***************************************************************************)
(* What the copy is good for: it is the source wherever nothing is owed.    *)
(***************************************************************************)
Follows == \A k \in Key : k \notin owed => copy[k] = source[k]

(* No value is lost between the steps that change the source and those that *)
(* put the copy in order; so what implements Mirror has this property, too. *)
THEOREM CopyFollows == Spec => [](TypeOK /\ Follows)
<1>1. Init => TypeOK /\ Follows
  BY DEF Init, TypeOK, Follows
<1>2. TypeOK /\ Follows /\ [Next]_mirrorVars => TypeOK' /\ Follows'
  <2> SUFFICES ASSUME TypeOK, Follows, [Next]_mirrorVars
               PROVE  TypeOK' /\ Follows'
    OBVIOUS
  <2> USE DEF TypeOK, Follows
  <2>1. ASSUME NEW k \in Key, NEW v \in Value, Announce(k, v)
        PROVE  TypeOK' /\ Follows'
    BY <2>1 DEF Announce
  <2>2. ASSUME NEW k \in Key, NEW v \in Value, Attempt(k, v)
        PROVE  TypeOK' /\ Follows'
    BY <2>2 DEF Attempt
  <2>3. ASSUME NEW k \in Key, Settle(k)
        PROVE  TypeOK' /\ Follows'
    BY <2>3 DEF Settle
  <2>4. CASE UNCHANGED mirrorVars
    BY <2>4 DEF mirrorVars
  <2> QED
    BY <2>1, <2>2, <2>3, <2>4 DEF Next
<1> QED
  BY <1>1, <1>2, PTL DEF Spec
=============================================================================
