-------------------------- MODULE SpscQueue_proofs --------------------------
(***************************************************************************)
(* Proofs about SpscQueue, for every capacity N and every width W of the   *)
(* indices that N divides.                                                 *)
(***************************************************************************)
EXTENDS SpscQueue, SequenceTheorems, TLAPS

-----------------------------------------------------------------------------
(* The arithmetic of the indices. *)

LEMMA ModOnce ==
  ASSUME NEW x \in Nat, x < W + W
  PROVE  x % W = IF x < W THEN x ELSE x - W
<1>1. W \in Nat /\ W > 0
  BY CapacityAssumption
<1> QED
  BY <1>1

\* size_t subtraction and increment, by cases.
LEMMA MinusCases ==
  ASSUME NEW a \in Indices, NEW b \in Indices
  PROVE  /\ Minus(a, b) = IF b <= a THEN a - b ELSE a + W - b
         /\ Minus(a, b) \in Indices
<1>1. /\ a + W - b \in Nat /\ a + W - b < W + W
      /\ a \in Nat /\ b \in Nat /\ W \in Nat
  BY CapacityAssumption DEF Indices
<1>2. (a + W - b) % W = IF a + W - b < W THEN a + W - b ELSE a + W - b - W
  BY <1>1, ModOnce
<1> QED
  BY <1>1, <1>2 DEF Minus, Indices

LEMMA AfterCases ==
  ASSUME NEW a \in Indices
  PROVE  /\ After(a) = IF a + 1 < W THEN a + 1 ELSE 0
         /\ After(a) \in Indices
<1>1. a \in Nat /\ a + 1 \in Nat /\ a + 1 < W + W /\ W \in Nat /\ a < W
  BY CapacityAssumption DEF Indices
<1>2. (a + 1) % W = IF a + 1 < W THEN a + 1 ELSE a + 1 - W
  BY <1>1, ModOnce
<1> QED
  BY <1>1, <1>2 DEF After, Indices

\* The index n places after a.
Nth(a, n) == (a + n) % W

LEMMA NthCases ==
  ASSUME NEW a \in Indices, NEW n \in Indices
  PROVE  /\ Nth(a, n) = IF a + n < W THEN a + n ELSE a + n - W
         /\ Nth(a, n) \in Indices
<1>1. /\ a + n \in Nat /\ a + n < W + W
      /\ W \in Nat /\ a \in Nat /\ n \in Nat /\ a < W /\ n < W
  BY CapacityAssumption DEF Indices
<1>2. (a + n) % W = IF a + n < W THEN a + n ELSE a + n - W
  BY <1>1, ModOnce
<1> QED
  BY <1>1, <1>2 DEF Nth, Indices

LEMMA Multiple ==
  ASSUME NEW n \in Nat \ {0}, NEW z \in Int, n * z > 0
  PROVE  n * z >= n
<1>1. z >= 1
  OBVIOUS
<1> QED
  BY <1>1

\* Two indices less than N apart are in different slots.
LEMMA SlotsDiffer ==
  ASSUME NEW a \in Indices, NEW b \in Indices,
         Minus(a, b) # 0, Minus(a, b) < N
  PROVE  Slot(a) # Slot(b)
<1> SUFFICES ASSUME Slot(a) = Slot(b) PROVE FALSE
  OBVIOUS
<1>1. a \in Nat /\ b \in Nat /\ N \in Nat \ {0} /\ W \in Nat /\ W % N = 0
  BY CapacityAssumption DEF Indices
<1> DEFINE x == a \div N  y == b \div N  k == W \div N
<1>2. a = N * x + (a % N) /\ x \in Int
  BY <1>1
<1>3. b = N * y + (b % N) /\ y \in Int
  BY <1>1
<1>4. W = N * k /\ k \in Int
  BY <1>1
<1>5. a % N = b % N /\ a % N \in Nat
  BY <1>1 DEF Slot
<1> HIDE DEF x, y, k
<1>6. a - b = N * x - N * y
  BY <1>1, <1>2, <1>3, <1>5
<1>7. N * (x - y) = N * x - N * y /\ N * (x - y + k) = N * x - N * y + N * k
  BY <1>1, <1>2, <1>3, <1>4
<1>8. PICK z \in Int : Minus(a, b) = N * z
  <2>1. Minus(a, b) = N * (x - y) \/ Minus(a, b) = N * (x - y + k)
    BY <1>1, <1>4, <1>6, <1>7, MinusCases
  <2> QED
    BY <2>1, <1>2, <1>3, <1>4
<1>9. Minus(a, b) \in Nat
  BY MinusCases DEF Indices
<1> QED
  BY <1>1, <1>8, <1>9, Multiple

\* What the constants are, and a step of an index in integers.
LEMMA RingConstants ==
  /\ N \in Nat /\ N > 0 /\ W \in Nat /\ N < W
  /\ \A a \in Indices : a \in Nat /\ a < W
BY CapacityAssumption DEF Indices

LEMMA SlotType ==
  ASSUME NEW a \in Indices
  PROVE  Slot(a) \in 0 .. N - 1
BY CapacityAssumption DEF Slot, Indices

\* Distances along the ring.
LEMMA SameIndex ==
  ASSUME NEW a \in Indices, NEW b \in Indices
  PROVE  Minus(a, b) = 0 <=> a = b
BY MinusCases, RingConstants

LEMMA Beyond ==
  ASSUME NEW a \in Indices, NEW b \in Indices, NEW c \in Indices,
         Minus(b, a) <= Minus(c, a)
  PROVE  Minus(c, b) = Minus(c, a) - Minus(b, a)
BY MinusCases, RingConstants

\* From a, c lies no further than d if it does so from b, which lies before d.
LEMMA NotPast ==
  ASSUME NEW a \in Indices, NEW b \in Indices, NEW c \in Indices,
         NEW d \in Indices, Minus(b, a) <= Minus(d, a), Minus(c, b) <= Minus(d, b)
  PROVE  Minus(c, a) <= Minus(d, a)
<1> DEFINE ca == Minus(c, a)  da == Minus(d, a)  cb == Minus(c, b)
           ba == Minus(b, a)  db == Minus(d, b)
<1>1. /\ ca = IF a <= c THEN c - a ELSE c + W - a
      /\ da = IF a <= d THEN d - a ELSE d + W - a
      /\ cb = IF b <= c THEN c - b ELSE c + W - b
      /\ db = IF b <= d THEN d - b ELSE d + W - b
      /\ ba = IF a <= b THEN b - a ELSE b + W - a
  BY MinusCases
<1>2. /\ W \in Nat /\ a \in Nat /\ b \in Nat /\ c \in Nat /\ d \in Nat
      /\ a < W /\ b < W /\ c < W /\ d < W
  BY RingConstants
<1>3. ba <= da /\ cb <= db
  OBVIOUS
<1> HIDE DEF ca, da, cb, ba, db
<1>4. ca <= da
  BY <1>1, <1>2, <1>3
<1> QED
  BY <1>4 DEF ca, da

LEMMA StepAway ==
  ASSUME NEW a \in Indices, NEW b \in Indices, Minus(a, b) + 1 < W
  PROVE  Minus(After(a), b) = Minus(a, b) + 1
<1>1. PICK n \in Indices : n = After(a) /\ n = IF a + 1 < W THEN a + 1 ELSE 0
  BY AfterCases
<1>2. /\ Minus(n, b) = IF b <= n THEN n - b ELSE n + W - b
      /\ Minus(a, b) = IF b <= a THEN a - b ELSE a + W - b
  BY MinusCases
<1>3. W \in Nat /\ a \in Nat /\ b \in Nat /\ n \in Nat /\ a < W /\ b < W
  BY RingConstants
<1> QED
  BY <1>1, <1>2, <1>3

LEMMA StepTowards ==
  ASSUME NEW a \in Indices, NEW b \in Indices, a # b
  PROVE  Minus(a, After(b)) = Minus(a, b) - 1
BY MinusCases, AfterCases, RingConstants

LEMMA NthBehind ==
  ASSUME NEW a \in Indices, NEW b \in Indices, NEW n \in Nat, n <= Minus(a, b)
  PROVE  Nth(b, n) \in Indices /\ Minus(a, Nth(b, n)) = Minus(a, b) - n
<1>1. n \in Indices
  BY MinusCases, CapacityAssumption DEF Indices
<1>2. PICK k \in Indices : k = Nth(b, n) /\ k = IF b + n < W THEN b + n ELSE b + n - W
  BY <1>1, NthCases
<1>3. /\ Minus(a, k) = IF k <= a THEN a - k ELSE a + W - k
      /\ Minus(a, b) = IF b <= a THEN a - b ELSE a + W - b
  BY MinusCases
<1>4. W \in Nat /\ a \in Nat /\ b \in Nat /\ k \in Nat /\ a < W /\ b < W /\ k < W
  BY RingConstants
<1> QED
  BY <1>2, <1>3, <1>4

LEMMA NthLast ==
  ASSUME NEW a \in Indices, NEW b \in Indices
  PROVE  Nth(b, Minus(a, b)) = a
<1> DEFINE n == Minus(a, b)
<1>1. n \in Indices /\ n = IF b <= a THEN a - b ELSE a + W - b
  BY MinusCases
<1> HIDE DEF n
<1>2. Nth(b, n) = a
  BY <1>1, NthCases, RingConstants
<1> QED
  BY <1>2 DEF n

LEMMA NthOfNext ==
  ASSUME NEW a \in Indices, NEW n \in Nat, n + 1 < W
  PROVE  Nth(After(a), n) = Nth(a, n + 1)
<1>1. n \in Indices /\ n + 1 \in Indices
  BY CapacityAssumption DEF Indices
<1> QED
  BY <1>1, AfterCases, NthCases, RingConstants

-----------------------------------------------------------------------------
(* The inductive invariant. *)

\* What the two threads know of each other's index lies behind it, and never so
\* far behind that a thread could pass the other: the producer is at most N
\* places after the read index it has seen, the consumer never past the write
\* index it has seen.
Lag ==
  /\ Minus(read_idx, seen_r) <= Minus(write_idx, seen_r)
  /\ Minus(write_idx, seen_r) <= N
  /\ Minus(seen_w, read_idx) <= Minus(write_idx, read_idx)

\* A thread that has passed its test still has room, or a value.
Granted ==
  /\ ppc # "idle" => Minus(write_idx, seen_r) < N
  /\ cpc # "idle" => seen_w # read_idx

IInv == TypeOK /\ Lag /\ Granted

LEMMA InitInv == Init => IInv
<1> SUFFICES ASSUME Init PROVE IInv
  OBVIOUS
<1>1. 0 \in Indices /\ N \in Nat
  BY CapacityAssumption DEF Indices
<1>2. Minus(0, 0) = 0
  BY <1>1, SameIndex
<1> QED
  BY <1>1, <1>2 DEF Init, IInv, TypeOK, Lag, Granted

\* The distances the invariant speaks of are natural numbers below W.
LEMMA Distances ==
  ASSUME TypeOK
  PROVE  /\ Minus(read_idx, seen_r) \in Nat /\ Minus(write_idx, seen_r) \in Nat
         /\ Minus(seen_w, read_idx) \in Nat /\ Minus(write_idx, read_idx) \in Nat
         /\ write_idx \in Indices /\ read_idx \in Indices
         /\ seen_r \in Indices /\ seen_w \in Indices
         /\ N \in Nat /\ N > 0 /\ W \in Nat /\ N < W
BY MinusCases, RingConstants DEF TypeOK

\* The ring holds at most N values, and fewer when the producer may write.
LEMMA RoomLeft ==
  ASSUME IInv
  PROVE  /\ Minus(write_idx, read_idx) <= N
         /\ ppc # "idle" => Minus(write_idx, read_idx) < N
         /\ cpc # "idle" => write_idx # read_idx
<1>1. Minus(write_idx, read_idx)
        = Minus(write_idx, seen_r) - Minus(read_idx, seen_r)
  BY Distances, Beyond DEF IInv, Lag
<1>2. cpc # "idle" => Minus(seen_w, read_idx) # 0
  BY Distances, SameIndex DEF IInv, Granted
<1>3. cpc # "idle" => Minus(write_idx, read_idx) # 0
  BY <1>2, Distances DEF IInv, Lag
<1> QED
  BY <1>1, <1>3, Distances, SameIndex DEF IInv, Lag, Granted

LEMMA PushLoadStep ==
  ASSUME IInv, NEW v \in Vals, NEW r \in Loads(seen_r, read_idx), PushLoad(v, r)
  PROVE  IInv'
<1>1. r \in Indices /\ Minus(r, seen_r) <= Minus(read_idx, seen_r)
  BY DEF Loads
<1>2. Minus(r, seen_r) \in Nat /\ Minus(r, seen_r) <= Minus(write_idx, seen_r)
  BY <1>1, Distances, MinusCases DEF IInv, Lag, Indices
<1>3. /\ Minus(read_idx, r) = Minus(read_idx, seen_r) - Minus(r, seen_r)
      /\ Minus(write_idx, r) = Minus(write_idx, seen_r) - Minus(r, seen_r)
  BY <1>1, <1>2, Distances, Beyond DEF IInv
<1>4. Lag'
  BY <1>2, <1>3, Distances DEF IInv, Lag, PushLoad, consumerVars
<1>5. Granted'
  BY <1>2, <1>3, Distances DEF IInv, Granted, PushLoad, IsFull, consumerVars
<1>6. TypeOK'
  BY <1>1 DEF IInv, TypeOK, PushLoad, consumerVars
<1> QED
  BY <1>4, <1>5, <1>6 DEF IInv

LEMMA PushWriteStep ==
  ASSUME IInv, PushWrite
  PROVE  IInv'
<1>1. TypeOK'
  BY DEF IInv, TypeOK, PushWrite, consumerVars
<1> QED
  BY <1>1 DEF IInv, Lag, Granted, PushWrite, consumerVars

LEMMA PushPublishStep ==
  ASSUME IInv, PushPublish
  PROVE  IInv'
<1>1. Minus(write_idx, seen_r) < N /\ Minus(write_idx, read_idx) < N
  BY RoomLeft DEF IInv, Granted, PushPublish
<1>2. /\ Minus(After(write_idx), seen_r) = Minus(write_idx, seen_r) + 1
      /\ Minus(After(write_idx), read_idx) = Minus(write_idx, read_idx) + 1
  BY <1>1, Distances, StepAway DEF IInv
<1>3. Lag'
  BY <1>1, <1>2, Distances DEF IInv, Lag, PushPublish, consumerVars
<1>4. TypeOK'
  BY AfterCases DEF IInv, TypeOK, PushPublish, consumerVars
<1> QED
  BY <1>3, <1>4 DEF IInv, Granted, PushPublish, consumerVars

LEMMA PopLoadStep ==
  ASSUME IInv, NEW w \in Loads(seen_w, write_idx), PopLoad(w)
  PROVE  IInv'
<1>1. w \in Indices /\ Minus(w, seen_w) <= Minus(write_idx, seen_w)
  BY DEF Loads
<1>2. Minus(w, read_idx) <= Minus(write_idx, read_idx)
  BY <1>1, Distances, NotPast DEF IInv, Lag
<1>3. Lag'
  BY <1>2 DEF IInv, Lag, PopLoad, producerVars
<1>4. TypeOK'
  BY <1>1 DEF IInv, TypeOK, PopLoad, producerVars
<1> QED
  BY <1>3, <1>4 DEF IInv, Granted, PopLoad, IsEmpty, producerVars

LEMMA PopReadStep ==
  ASSUME IInv, PopRead
  PROVE  IInv'
<1>1. slots[Slot(read_idx)] \in Vals
  BY SlotType DEF IInv, TypeOK
<1>2. TypeOK'
  BY <1>1 DEF IInv, TypeOK, PopRead, producerVars
<1> QED
  BY <1>2 DEF IInv, Lag, Granted, PopRead, producerVars

LEMMA PopPublishStep ==
  ASSUME IInv, PopPublish
  PROVE  IInv'
<1>1. write_idx # read_idx /\ seen_w # read_idx
  BY RoomLeft DEF IInv, Granted, PopPublish
<1>2. /\ Minus(write_idx, After(read_idx)) = Minus(write_idx, read_idx) - 1
      /\ Minus(seen_w, After(read_idx)) = Minus(seen_w, read_idx) - 1
  BY <1>1, Distances, StepTowards DEF IInv
<1>3. Minus(read_idx, seen_r) # Minus(write_idx, seen_r)
  BY <1>1, Distances, MinusCases, RingConstants DEF IInv
<1>4. Minus(read_idx, seen_r) + 1 < W
  BY <1>3, Distances DEF IInv, Lag
<1>5. Minus(After(read_idx), seen_r) = Minus(read_idx, seen_r) + 1
  BY <1>4, Distances, StepAway DEF IInv
<1>6. Lag'
  BY <1>2, <1>3, <1>5, Distances DEF IInv, Lag, PopPublish, producerVars
<1>7. TypeOK'
  BY AfterCases DEF IInv, TypeOK, PopPublish, producerVars
<1> QED
  BY <1>6, <1>7 DEF IInv, Granted, PopPublish, producerVars

LEMMA NextInv == IInv /\ [Next]_vars => IInv'
<1> SUFFICES ASSUME IInv, [Next]_vars PROVE IInv'
  OBVIOUS
<1>1. CASE UNCHANGED vars
  BY <1>1 DEF vars, producerVars, consumerVars, IInv, TypeOK, Lag, Granted
<1> QED
  BY <1>1, PushLoadStep, PushWriteStep, PushPublishStep, PopLoadStep,
     PopReadStep, PopPublishStep DEF Next

THEOREM Inductive == Spec => []IInv
BY InitInv, NextInv, PTL DEF Spec

\* The two threads never touch the same slot at once, however old the indices
\* they loaded are, and every variable stays what it can be.
THEOREM NoRace == Spec => []RingInv
<1>1. IInv => RingInv
  <2> SUFFICES ASSUME IInv, ppc = "write", cpc = "read"
               PROVE  Slot(write_idx) # Slot(read_idx)
    BY DEF RingInv, NoSlotRace, IInv
  <2>1. Minus(write_idx, read_idx) < N /\ write_idx # read_idx
    BY RoomLeft
  <2> QED
    BY <2>1, Distances, SameIndex, SlotsDiffer DEF IInv
<1> QED
  BY <1>1, Inductive, PTL

-----------------------------------------------------------------------------
(* The refinement: every step puts a value in, takes the oldest one out, or    *)
(* leaves the queue as it is.                                                  *)

Size == Minus(write_idx, Taken)

LEMMA SizeFits ==
  ASSUME IInv
  PROVE  /\ Taken \in Indices /\ Size \in Nat /\ Size <= N
         /\ ppc # "idle" => Size < N
         /\ Size = Minus(write_idx, read_idx) - IF cpc = "publish" THEN 1 ELSE 0
<1>1. Taken \in Indices
  BY AfterCases DEF IInv, TypeOK, Taken
<1>2. Size = Minus(write_idx, read_idx) - IF cpc = "publish" THEN 1 ELSE 0
  <2>1. CASE cpc = "publish"
    BY <2>1, RoomLeft, Distances, StepTowards DEF IInv, Size, Taken
  <2>2. CASE cpc # "publish"
    BY <2>2, Distances DEF IInv, Size, Taken
  <2> QED
    BY <2>1, <2>2
<1>3. Size \in Nat
  BY <1>1, Distances, MinusCases DEF IInv, Size, Indices
<1> QED
  BY <1>1, <1>2, <1>3, RoomLeft, Distances DEF IInv

\* The sequence the ring stands for.
Lined ==
  /\ Contents \in Seq(Vals) /\ Len(Contents) = Size
  /\ \A i \in 1 .. Size :
       /\ Nth(Taken, i - 1) \in Indices
       /\ Contents[i] = slots[Slot(Nth(Taken, i - 1))]
       /\ Minus(write_idx, Nth(Taken, i - 1)) = Size - (i - 1)

LEMMA ContentsAre == IInv => Lined
<1> SUFFICES ASSUME IInv PROVE Lined
  OBVIOUS
<1>1. Taken \in Indices /\ Size \in Nat /\ write_idx \in Indices
  BY SizeFits DEF IInv, TypeOK
<1>2. ASSUME NEW i \in 1 .. Size
      PROVE  /\ Nth(Taken, i - 1) \in Indices
             /\ Minus(write_idx, Nth(Taken, i - 1)) = Size - (i - 1)
             /\ slots[Slot(Nth(Taken, i - 1))] \in Vals
             /\ (Taken + i - 1) % W = Nth(Taken, i - 1)
  <2>1. i - 1 \in Nat /\ i - 1 <= Minus(write_idx, Taken)
    BY <1>1 DEF Size
  <2>2. /\ Nth(Taken, i - 1) \in Indices
        /\ Minus(write_idx, Nth(Taken, i - 1)) = Size - (i - 1)
    BY <1>1, <2>1, NthBehind DEF Size
  <2>3. Taken + i - 1 = Taken + (i - 1)
    BY <1>1 DEF Indices
  <2> QED
    BY <2>2, <2>3, SlotType DEF IInv, TypeOK, Nth
<1>3. Contents = [i \in 1 .. Size |-> slots[Slot(Nth(Taken, i - 1))]]
  BY <1>2 DEF Contents, Size
<1>4. Contents \in [1 .. Size -> Vals]
  BY <1>2, <1>3
<1> QED
  BY <1>1, <1>2, <1>3, <1>4, SeqDef DEF Lined

LEMMA ContentsAreNext == IInv' => Lined'
BY ContentsAre, PTL

\* Queues with the same values in the same places are the same.
LEMMA SameContents ==
  ASSUME IInv, IInv', Taken' = Taken, write_idx' = write_idx,
         \A i \in 1 .. Size :
           slots'[Slot(Nth(Taken, i - 1))] = slots[Slot(Nth(Taken, i - 1))]
  PROVE  Contents' = Contents
<1>1. Size' = Size
  BY DEF Size
<1>2. /\ Contents' \in Seq(Vals) /\ Len(Contents') = Size
      /\ \A i \in 1 .. Size : Contents'[i] = slots'[Slot(Nth(Taken, i - 1))]
  BY <1>1, ContentsAreNext DEF Lined
<1>3. /\ Contents \in Seq(Vals) /\ Len(Contents) = Size
      /\ \A i \in 1 .. Size : Contents[i] = slots[Slot(Nth(Taken, i - 1))]
  BY ContentsAre DEF Lined
<1> QED
  BY <1>2, <1>3, SeqEqual

LEMMA WriteStutters ==
  ASSUME IInv, IInv', PushWrite
  PROVE  Contents' = Contents /\ out' = out
<1>1. Taken' = Taken /\ write_idx' = write_idx
  BY DEF PushWrite, consumerVars, Taken
<1>2. ASSUME NEW i \in 1 .. Size
      PROVE  slots'[Slot(Nth(Taken, i - 1))] = slots[Slot(Nth(Taken, i - 1))]
  <2>1. /\ Nth(Taken, i - 1) \in Indices /\ write_idx \in Indices
        /\ Minus(write_idx, Nth(Taken, i - 1)) = Size - (i - 1)
    BY ContentsAre DEF Lined, IInv, TypeOK
  <2>2. Size \in Nat /\ Size < N /\ N \in Nat
    BY SizeFits, CapacityAssumption DEF PushWrite
  <2>3. Slot(write_idx) # Slot(Nth(Taken, i - 1))
    BY <2>1, <2>2, SlotsDiffer
  <2>4. Slot(Nth(Taken, i - 1)) \in 0 .. N - 1
    BY <2>1, SlotType
  <2> QED
    BY <2>3, <2>4 DEF PushWrite, IInv, TypeOK
<1> QED
  BY <1>1, <1>2, SameContents DEF PushWrite, consumerVars

LEMMA PublishPuts ==
  ASSUME IInv, IInv', PushPublish
  PROVE  \E v \in Vals : Fifo!Put(v)
<1> DEFINE v == slots[Slot(write_idx)]
<1>1. Taken' = Taken /\ slots' = slots /\ out' = out
  BY DEF PushPublish, consumerVars, Taken
<1>2. Size \in Nat /\ Size < N /\ N < W /\ N \in Nat /\ W \in Nat
      /\ Taken \in Indices /\ write_idx \in Indices
  BY SizeFits, CapacityAssumption DEF PushPublish, IInv, TypeOK
<1>3. Size' = Size + 1
  BY <1>1, <1>2, StepAway DEF Size, PushPublish
<1>4. v \in Vals
  BY <1>2, SlotType DEF IInv, TypeOK
<1>5. /\ Contents' \in Seq(Vals) /\ Len(Contents') = Size + 1
      /\ \A i \in 1 .. Size + 1 : Contents'[i] = slots[Slot(Nth(Taken, i - 1))]
  BY <1>1, <1>3, ContentsAreNext DEF Lined
<1>6. Nth(Taken, Size) = write_idx
  BY <1>2, NthLast DEF Size
<1> HIDE DEF v
<1>7. /\ Append(Contents, v) \in Seq(Vals)
      /\ Len(Append(Contents, v)) = Size + 1
      /\ \A i \in 1 .. Size : Append(Contents, v)[i] = Contents[i]
      /\ Append(Contents, v)[Size + 1] = v
  BY <1>2, <1>4, ContentsAre, AppendProperties DEF Lined
<1>8. ASSUME NEW i \in 1 .. Size + 1
      PROVE  Contents'[i] = Append(Contents, v)[i]
  <2>1. CASE i = Size + 1
    BY <1>2, <1>5, <1>6, <1>7, <2>1 DEF v
  <2>2. CASE i # Size + 1
    <3>1. i \in 1 .. Size
      BY <1>2, <2>2
    <3> QED
      BY <3>1, <1>5, <1>7, ContentsAre DEF Lined
  <2> QED
    BY <2>1, <2>2
<1>9. Contents' = Append(Contents, v)
  BY <1>5, <1>7, <1>8, SeqEqual
<1> QED
  BY <1>1, <1>2, <1>4, <1>9, ContentsAre DEF Lined, Fifo!Put

LEMMA ReadTakes ==
  ASSUME IInv, IInv', PopRead
  PROVE  Fifo!Take
<1>1. /\ Taken = read_idx /\ Taken' = After(read_idx) /\ write_idx' = write_idx
      /\ slots' = slots /\ out' = slots[Slot(read_idx)]
  BY DEF PopRead, producerVars, Taken
<1>2. /\ Size \in Nat /\ read_idx \in Indices /\ write_idx \in Indices
      /\ read_idx # write_idx /\ Size <= N /\ N < W /\ N \in Nat /\ W \in Nat
  BY RoomLeft, SizeFits, CapacityAssumption DEF PopRead, IInv, TypeOK
<1>3. Size' = Size - 1 /\ Size # 0
  BY <1>1, <1>2, StepTowards, SameIndex DEF Size
<1>4. /\ Contents' \in Seq(Vals) /\ Len(Contents') = Size - 1
      /\ \A i \in 1 .. Size - 1 :
           Contents'[i] = slots[Slot(Nth(After(read_idx), i - 1))]
  BY <1>1, <1>3, ContentsAreNext DEF Lined
<1>5. /\ Contents \in Seq(Vals) /\ Len(Contents) = Size
      /\ \A i \in 1 .. Size : Contents[i] = slots[Slot(Nth(read_idx, i - 1))]
  BY <1>1, ContentsAre DEF Lined
<1>6. Contents # << >>
  BY <1>3, <1>5
<1>7. /\ Tail(Contents) \in Seq(Vals) /\ Len(Tail(Contents)) = Size - 1
      /\ \A i \in 1 .. Size - 1 : Tail(Contents)[i] = Contents[i + 1]
      /\ Head(Contents) = Contents[1]
  BY <1>2, <1>3, <1>5, <1>6, HeadTailProperties
<1>8. Head(Contents) = slots[Slot(read_idx)]
  <2>1. Nth(read_idx, 0) = read_idx
    BY <1>2, NthCases, CapacityAssumption DEF Indices
  <2>2. 1 \in 1 .. Size
    BY <1>2, <1>3
  <2> QED
    BY <1>5, <1>7, <2>1, <2>2
<1>9. ASSUME NEW i \in 1 .. Size - 1
      PROVE  Contents'[i] = Tail(Contents)[i]
  <2>1. i - 1 \in Nat /\ (i - 1) + 1 < W /\ (i - 1) + 1 = i
    BY <1>2
  <2>2. Nth(After(read_idx), i - 1) = Nth(read_idx, i)
    BY <1>2, <2>1, NthOfNext
  <2>3. i + 1 \in 1 .. Size /\ (i + 1) - 1 = i
    BY <1>2
  <2>4. Contents[i + 1] = slots[Slot(Nth(read_idx, i))]
    BY <1>5, <2>3
  <2> QED
    BY <1>4, <1>7, <2>2, <2>4
<1>10. Contents' = Tail(Contents)
  BY <1>4, <1>7, <1>9, SeqEqual
<1> QED
  BY <1>1, <1>6, <1>8, <1>10 DEF Fifo!Take

LEMMA OthersStutter ==
  ASSUME IInv, IInv',
         \/ UNCHANGED vars
         \/ \E v \in Vals, r \in Loads(seen_r, read_idx) : PushLoad(v, r)
         \/ \E w \in Loads(seen_w, write_idx) : PopLoad(w)
         \/ PopPublish
  PROVE  Contents' = Contents /\ out' = out
<1>1. /\ Taken' = Taken /\ write_idx' = write_idx /\ slots' = slots /\ out' = out
  BY DEF vars, producerVars, consumerVars, PushLoad, PopLoad, PopPublish, Taken
<1> QED
  BY <1>1, SameContents

LEMMA FifoInit == Init => Fifo!Init
<1> SUFFICES ASSUME Init PROVE Fifo!Init
  OBVIOUS
<1>1. IInv /\ Size = 0
  <2>1. 0 \in Indices
    BY CapacityAssumption DEF Indices
  <2> QED
    BY <2>1, InitInv, SameIndex DEF Init, Size, Taken
<1>2. Contents = << >>
  BY <1>1, ContentsAre, EmptySeq DEF Lined
<1> QED
  BY <1>2 DEF Init, Fifo!Init

\* The ring is a first-in first-out queue of N places, whatever indices the
\* threads see and however often the indices wrap.
THEOREM RingIsFifo == Spec => ImplementsFifo
<1>1. IInv /\ IInv' /\ [Next]_vars => [Fifo!Next]_<<Contents, out>>
  <2> SUFFICES ASSUME IInv, IInv', [Next]_vars
               PROVE  Fifo!Next \/ (Contents' = Contents /\ out' = out)
    OBVIOUS
  <2>1. CASE PushWrite
    BY <2>1, WriteStutters
  <2>2. CASE PushPublish
    BY <2>2, PublishPuts DEF Fifo!Next
  <2>3. CASE PopRead
    BY <2>3, ReadTakes DEF Fifo!Next
  <2> QED
    BY <2>1, <2>2, <2>3, OthersStutter DEF Next
<1> QED
  BY <1>1, FifoInit, Inductive, PTL DEF Spec, ImplementsFifo, Fifo!Spec
=============================================================================
