---------------------------- MODULE BoundedFifo ----------------------------
(***************************************************************************)
(* What the queue promises: at most N values, taken out in the order in    *)
(* which they were put in, none lost and none twice.                       *)
(***************************************************************************)
EXTENDS Naturals, Sequences

CONSTANTS
  Vals,    \* values
  N        \* capacity

VARIABLES
  q,       \* the values in the queue, oldest first
  out      \* the value taken last

Init == q = <<>> /\ out \in Vals

Put(v) == Len(q) < N /\ q' = Append(q, v) /\ UNCHANGED out

Take == q # <<>> /\ out' = Head(q) /\ q' = Tail(q)

Next == (\E v \in Vals : Put(v)) \/ Take

Spec == Init /\ [][Next]_<<q, out>>
=============================================================================
