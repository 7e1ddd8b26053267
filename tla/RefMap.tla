------------------------------- MODULE RefMap -------------------------------
(***************************************************************************)
(* What the order-reference table promises its callers: a map from order   *)
(* references to values that never holds more than Capacity references.    *)
(* A reference is inserted or overwritten, an insertion into a full map is *)
(* refused, and an erased reference is gone while every other one keeps    *)
(* its value.  An erase takes effect at once but returns later, and until  *)
(* it has returned the map stays as it is.                                 *)
(***************************************************************************)
EXTENDS Naturals, FiniteSets

CONSTANTS
  Refs,       \* nonzero order references
  Vals,       \* values stored with them
  None,       \* what a reference that is absent maps to
  Capacity    \* slots of the table

VARIABLES
  map,
  erasing     \* an erase has not returned yet

vars == <<map, erasing>>

Present == {r \in Refs : map[r] # None}

Init ==
  /\ map = [r \in Refs |-> None]
  /\ erasing = FALSE

Insert(r, v) ==
  /\ ~erasing
  /\ r \in Present \/ Cardinality(Present) < Capacity
  /\ map' = [map EXCEPT ![r] = v]
  /\ UNCHANGED erasing

Erase(r) ==
  /\ ~erasing
  /\ r \in Present
  /\ map' = [map EXCEPT ![r] = None]
  /\ erasing' = TRUE

Return ==
  /\ erasing
  /\ erasing' = FALSE
  /\ UNCHANGED map

Next ==
  \/ \E r \in Refs, v \in Vals : Insert(r, v)
  \/ \E r \in Refs : Erase(r)
  \/ Return

Spec == Init /\ [][Next]_vars
=============================================================================
