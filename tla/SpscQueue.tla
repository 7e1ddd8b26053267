----------------------------- MODULE SpscQueue -----------------------------
(***************************************************************************)
(* The lock-free ring between one producer and one consumer thread         *)
(* (struct SPSCQueue of sw/util/spsc_queue.hpp).  Each call is three steps *)
(* of its thread: load the indices, touch the slot, publish the own index. *)
(*                                                                         *)
(* An acquire load of the other thread's index may return an older value   *)
(* than the newest, but never an older one than the thread has seen        *)
(* before.  What a thread wrote to a slot before it released an index is   *)
(* seen by whoever acquires that index, and NoSlotRace shows that no slot  *)
(* is touched otherwise; so one copy of the slots is enough.               *)
(*                                                                         *)
(* The indices are free-running size_t values: they wrap at W.             *)
(***************************************************************************)
EXTENDS Naturals, Sequences

CONSTANTS
  Vals,    \* values pushed
  N,       \* capacity, a power of two
  W        \* 2^64: where size_t wraps

ASSUME CapacityAssumption == N \in Nat \ {0} /\ W \in Nat /\ N < W /\ W % N = 0

VARIABLES
  write_idx, read_idx, slots,
  ppc,     \* the producer: "idle", "write" the slot, "publish" the index
  val,     \* the value of the current push
  seen_r,  \* the newest read_idx the producer has loaded
  cpc,     \* the consumer: "idle", "read" the slot, "publish" the index
  seen_w,  \* the newest write_idx the consumer has loaded
  out      \* where pop stores what it took

producerVars == <<ppc, val, seen_r>>
consumerVars == <<cpc, seen_w, out>>
vars == <<write_idx, read_idx, slots, producerVars, consumerVars>>

Indices == 0 .. W - 1
After(i) == (i + 1) % W
Minus(i, j) == (i + W - j) % W      \* size_t subtraction
Slot(i) == i % N                    \* i & (N - 1)

\* What a load may return after seen when newest was stored last.
Loads(seen, newest) == {i \in Indices : Minus(i, seen) <= Minus(newest, seen)}

-----------------------------------------------------------------------------
Init ==
  /\ write_idx = 0 /\ read_idx = 0
  /\ slots \in [0 .. N - 1 -> Vals]
  /\ ppc = "idle" /\ val \in Vals /\ seen_r = 0
  /\ cpc = "idle" /\ seen_w = 0 /\ out \in Vals

\* Mutants of IsFull: one slot too many; without the wrap of the difference.
IsFullLate(w, r) == Minus(w, r) > N
IsFullUnwrapped(w, r) == w >= r + N

\* Mutant of IsEmpty: an order instead of an equality.
IsEmptyUnwrapped(w, r) == w <= r

\* The tests of push and pop.
IsFull(w, r) == Minus(w, r) >= N
IsEmpty(w, r) == r = w

\* push: a full ring makes it return false at once.
PushLoad(v, r) ==
  /\ ppc = "idle"
  /\ seen_r' = r
  /\ val' = v
  /\ ppc' = IF IsFull(write_idx, r) THEN "idle" ELSE "write"
  /\ UNCHANGED <<write_idx, read_idx, slots, consumerVars>>

PushWrite ==
  /\ ppc = "write"
  /\ slots' = [slots EXCEPT ![Slot(write_idx)] = val]
  /\ ppc' = "publish"
  /\ UNCHANGED <<write_idx, read_idx, val, seen_r, consumerVars>>

PushPublish ==
  /\ ppc = "publish"
  /\ write_idx' = After(write_idx)
  /\ ppc' = "idle"
  /\ UNCHANGED <<read_idx, slots, val, seen_r, consumerVars>>

\* pop: an empty ring makes it return false at once.
PopLoad(w) ==
  /\ cpc = "idle"
  /\ seen_w' = w
  /\ cpc' = IF IsEmpty(w, read_idx) THEN "idle" ELSE "read"
  /\ UNCHANGED <<write_idx, read_idx, slots, out, producerVars>>

PopRead ==
  /\ cpc = "read"
  /\ out' = slots[Slot(read_idx)]
  /\ cpc' = "publish"
  /\ UNCHANGED <<write_idx, read_idx, slots, seen_w, producerVars>>

PopPublish ==
  /\ cpc = "publish"
  /\ read_idx' = After(read_idx)
  /\ cpc' = "idle"
  /\ UNCHANGED <<write_idx, slots, seen_w, out, producerVars>>

Next ==
  \/ \E v \in Vals, r \in Loads(seen_r, read_idx) : PushLoad(v, r)
  \/ PushWrite
  \/ PushPublish
  \/ \E w \in Loads(seen_w, write_idx) : PopLoad(w)
  \/ PopRead
  \/ PopPublish

\* Both threads call again until they succeed, as in the two-thread test of
\* sw/tests/test_util.cpp, and a store is seen in the end.
Fairness ==
  /\ WF_vars(\E v \in Vals : PushLoad(v, read_idx))
  /\ WF_vars(PushWrite \/ PushPublish)
  /\ WF_vars(PopLoad(write_idx))
  /\ WF_vars(PopRead \/ PopPublish)

Spec == Init /\ [][Next]_vars /\ Fairness

-----------------------------------------------------------------------------
(* Properties. *)

TypeOK ==
  /\ write_idx \in Indices /\ read_idx \in Indices
  /\ slots \in [0 .. N - 1 -> Vals]
  /\ ppc \in {"idle", "write", "publish"} /\ val \in Vals /\ seen_r \in Indices
  /\ cpc \in {"idle", "read", "publish"} /\ seen_w \in Indices /\ out \in Vals

\* The two threads never touch the same slot at the same time, however old the
\* indices they loaded are.
NoSlotRace ==
  ppc = "write" /\ cpc = "read" => Slot(write_idx) # Slot(read_idx)

\* The ring is sound: indices, slots and loaded values are what they can be, and
\* no slot is written while it is read.
RingInv == TypeOK /\ NoSlotRace

\* The values in the ring: the consumer has taken the oldest one when it is
\* about to publish.
Taken == IF cpc = "publish" THEN After(read_idx) ELSE read_idx
Contents ==
  [i \in 1 .. Minus(write_idx, Taken) |-> slots[Slot((Taken + i - 1) % W)]]

Fifo == INSTANCE BoundedFifo WITH q <- Contents

\* The ring implements a bounded queue, also across the wrap of the indices.
ImplementsFifo == Fifo!Spec

\* A value that was pushed is popped: the consumer is never left waiting at a
\* ring that is not empty.
OldestIsPopped ==
  \A i \in Indices : read_idx = i /\ write_idx # i ~> read_idx = After(i)

\* A producer that finds the ring full gets its value in after all.
ProducerAdvances ==
  \A i \in Indices : write_idx = i ~> write_idx = After(i)

\* Neither thread waits for ever, whatever old indices it loads.
RingProgress == OldestIsPopped /\ ProducerAdvances
=============================================================================
