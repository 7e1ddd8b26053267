------------------------ MODULE OrderRefTable_proofs ------------------------
(***************************************************************************)
(* Proofs about OrderRefTable, for every capacity, every set of references *)
(* and every hash.  The scalar probe is exact; the vectorised ones are not *)
(* (VectorProbeAgrees fails), so the theorems assume a scalar build.       *)
(***************************************************************************)
EXTENDS OrderRefTable, Functions, FiniteSetTheorems, WellFoundedInduction,
        TLAPS

-----------------------------------------------------------------------------
(* The circle of slots. *)

LEMMA SlotBounds ==
  /\ Capacity \in Nat /\ Capacity > 0 /\ 0 \in Slots
  /\ \A s \in Slots : s \in Nat /\ s < Capacity
BY CapacityAssumption DEF Slots

LEMMA ModOnce ==
  ASSUME NEW x \in Nat, x < Capacity + Capacity
  PROVE  x % Capacity = IF x < Capacity THEN x ELSE x - Capacity
<1>1. Capacity \in Nat /\ Capacity > 0
  BY CapacityAssumption
<1> QED
  BY <1>1

LEMMA DistanceCases ==
  ASSUME NEW s \in Slots, NEW t \in Slots
  PROVE  /\ Distance(s, t) = IF s <= t THEN t - s ELSE t + Capacity - s
         /\ Distance(s, t) \in Slots
<1>1. /\ t + Capacity - s \in Nat /\ t + Capacity - s < Capacity + Capacity
      /\ s \in Nat /\ t \in Nat /\ Capacity \in Nat
  BY SlotBounds
<1>2. (t + Capacity - s) % Capacity
        = IF t + Capacity - s < Capacity THEN t + Capacity - s
          ELSE t + Capacity - s - Capacity
  BY <1>1, ModOnce
<1> QED
  BY <1>1, <1>2 DEF Distance, Slots

LEMMA NextCases ==
  ASSUME NEW s \in Slots
  PROVE  /\ After(s, 1) = IF s + 1 < Capacity THEN s + 1 ELSE 0
         /\ After(s, 1) \in Slots
<1>1. /\ s + 1 \in Nat /\ s + 1 < Capacity + Capacity
      /\ s \in Nat /\ s < Capacity /\ Capacity \in Nat
  BY SlotBounds
<1>2. (s + 1) % Capacity = IF s + 1 < Capacity THEN s + 1 ELSE s + 1 - Capacity
  BY <1>1, ModOnce
<1> QED
  BY <1>1, <1>2 DEF After, Slots

LEMMA DistanceType ==
  ASSUME NEW s \in Slots, NEW t \in Slots
  PROVE  Distance(s, t) \in Nat /\ Distance(s, s) = 0
BY DistanceCases, SlotBounds

LEMMA SameSlot ==
  ASSUME NEW s \in Slots, NEW t \in Slots, NEW u \in Slots,
         Distance(s, t) = Distance(s, u)
  PROVE  t = u
BY DistanceCases, SlotBounds

\* The probe comes to the next slot one step later, unless it began there.
LEMMA OneFurther ==
  ASSUME NEW s \in Slots, NEW t \in Slots, After(t, 1) # s
  PROVE  Distance(s, After(t, 1)) = Distance(s, t) + 1
BY DistanceCases, NextCases, SlotBounds

\* What lies between g and s lies between h and s, when g does.
LEMMA Between ==
  ASSUME NEW h \in Slots, NEW g \in Slots, NEW s \in Slots, NEW t \in Slots,
         Distance(h, g) < Distance(h, s), Distance(g, t) < Distance(g, s)
  PROVE  Distance(h, t) < Distance(h, s)
<1> DEFINE hg == Distance(h, g)  hs == Distance(h, s)  ht == Distance(h, t)
           gs == Distance(g, s)  gt == Distance(g, t)
<1>1. /\ hg = IF h <= g THEN g - h ELSE g + Capacity - h
      /\ hs = IF h <= s THEN s - h ELSE s + Capacity - h
      /\ ht = IF h <= t THEN t - h ELSE t + Capacity - h
      /\ gs = IF g <= s THEN s - g ELSE s + Capacity - g
      /\ gt = IF g <= t THEN t - g ELSE t + Capacity - g
  BY DistanceCases
<1>2. /\ Capacity \in Nat /\ h \in Nat /\ g \in Nat /\ s \in Nat /\ t \in Nat
      /\ h < Capacity /\ g < Capacity /\ s < Capacity /\ t < Capacity
  BY SlotBounds
<1>3. hg < hs /\ gt < gs
  OBVIOUS
<1> HIDE DEF hg, hs, ht, gs, gt
<1>4. ht < hs
  BY <1>1, <1>2, <1>3
<1> QED
  BY <1>4 DEF ht, hs

\* The test of erase: k is in the gap exactly if the entry with home k at j does
\* not depend on slot i.
LEMMA InGapMeans ==
  ASSUME NEW i \in Slots, NEW j \in Slots, NEW k \in Slots, i # j
  PROVE  InGap(i, j, k) <=> ~(Distance(k, i) < Distance(k, j))
BY DistanceCases, SlotBounds DEF InGap

LEMMA LessThanRelation ==
  OpToRel(<, Nat) = {ss \in Nat \X Nat : ss[1] < ss[2]}
BY DEF OpToRel

LEMMA LeastExists ==
  ASSUME NEW T \in SUBSET Nat, T # {}
  PROVE  \E x \in T : \A y \in T : x <= y
<1>1. PICK R : R = {ss \in Nat \X Nat : ss[1] < ss[2]}
  OBVIOUS
<1>2. IsWellFoundedOn(R, Nat)
  BY <1>1, LessThanRelation, NatLessThanWellFounded
<1>3. PICK x \in T : \A y \in T : ~(<<y, x>> \in R)
  BY <1>2, WFMin
<1>4. ASSUME NEW y \in T PROVE x <= y
  <2>1. <<y, x>> \in Nat \X Nat
    OBVIOUS
  <2>2. ~(y < x)
    BY <2>1, <1>1, <1>3
  <2> QED
    BY <2>2
<1> QED
  BY <1>4

\* A probe comes to one slot of a nonempty set first.
LEMMA FirstFromIs ==
  ASSUME NEW s \in Slots, NEW S \in SUBSET Slots, S # {}
  PROVE  /\ FirstFrom(s, S) \in S
         /\ \A u \in S : Distance(s, FirstFrom(s, S)) <= Distance(s, u)
<1> DEFINE Ds == {Distance(s, u) : u \in S}
<1>1. Ds \in SUBSET Nat /\ Ds # {}
  BY DistanceType
<1>2. PICK d \in Ds : \A e \in Ds : d <= e
  BY <1>1, LeastExists
<1>3. \E t \in S : \A u \in S : Distance(s, t) <= Distance(s, u)
  BY <1>2
<1> QED
  BY <1>3 DEF FirstFrom

-----------------------------------------------------------------------------
(* The inductive invariant. *)

\* The slot an erase has to fill holds a stale copy, not a free key.
GapIsStale == pc = "shift" => keys[gap] # Free

\* An entry stores a value.
ValuesStored == \A s \in Taken : vals[s] # None

\* Slot t is on the way of a probe to the entry at s: freeing it would cut the
\* entry off.
Spans(s, t) == Distance(home[keys[s]], t) < Distance(home[keys[s]], s)

\* No entry that the loop of erase has passed since the gap depends on the gap.
PassedStay ==
  pc = "shift" =>
    \A s \in Taken : Distance(gap, s) <= Distance(gap, scan) => ~Spans(s, gap)

IInv == WellFormed /\ GapIsStale /\ ValuesStored /\ PassedStay

LEMMA TakenFinite ==
  /\ Taken \subseteq Slots /\ IsFiniteSet(Taken) /\ Cardinality(Taken) \in Nat
  /\ Cardinality(Taken) <= Capacity
<1>1. IsFiniteSet(Slots) /\ Cardinality(Slots) = Capacity
  BY SlotBounds, FS_Interval DEF Slots
<1>2. Taken \in SUBSET Slots
  BY DEF Taken
<1> QED
  BY <1>1, <1>2, FS_Subset, FS_CardinalityType

LEMMA TakenEntry ==
  ASSUME TypeOK, NEW s \in Taken
  PROVE  /\ s \in Slots /\ keys[s] \in Refs /\ home[keys[s]] \in Slots
         /\ keys[s] # Free
BY DEF Taken, TypeOK

LEMMA InitInv == Init => IInv
<1> SUFFICES ASSUME Init PROVE IInv
  OBVIOUS
<1>1. Taken = {}
  BY DEF Init, Taken
<1>2. TypeOK
  BY SlotBounds DEF Init, TypeOK
<1>3. SizeCounts
  BY <1>1, FS_EmptySet DEF Init, SizeCounts
<1> QED
  BY <1>1, <1>2, <1>3 DEF Init, IInv, WellFormed, KeysDistinct, ChainsUnbroken,
     GapIsStale, ValuesStored, PassedStay

\* Where a probe for r stops: at its entry, or, when it has none, at a free slot
\* that no slot on the way precedes.
LEMMA ProbeStops ==
  ASSUME IInv, pc = "idle", NEW r \in Refs, Stops(r) # {}
  PROVE  LET s == FirstFrom(home[r], Stops(r))
         IN  /\ s \in Slots /\ keys[s] \in {r, Free}
             /\ \A t \in Slots : Distance(home[r], t) < Distance(home[r], s)
                                   => keys[t] # Free
             /\ \A t \in Taken : keys[t] = r => t = s
<1> DEFINE h == home[r]
           s == FirstFrom(h, Stops(r))
<1>1. h \in Slots /\ Stops(r) \in SUBSET Slots
  BY DEF IInv, WellFormed, TypeOK, Stops
<1>2. s \in Stops(r) /\ \A u \in Stops(r) : Distance(h, s) <= Distance(h, u)
  BY <1>1, FirstFromIs
<1> HIDE DEF s
<1>3. s \in Slots /\ keys[s] \in {r, Free}
  BY <1>2 DEF Stops
<1>4. ASSUME NEW t \in Slots, Distance(h, t) < Distance(h, s)
      PROVE  keys[t] # Free
  BY <1>1, <1>2, <1>3, <1>4, DistanceType DEF Stops
<1>5. ASSUME NEW t \in Taken, keys[t] = r PROVE t = s
  <2>1. t \in Slots /\ t \in Stops(r)
    BY <1>5 DEF Taken, Stops
  <2>2. CASE keys[s] = r
    <3>1. s \in Taken
      BY <1>3, <2>2, SentinelAssumption DEF Taken
    <3> QED
      BY <1>5, <2>2, <3>1 DEF IInv, WellFormed, KeysDistinct
  <2>3. CASE keys[s] = Free
    <3>1. ~(Distance(h, s) < Distance(h, t))
      BY <1>3, <1>5, <2>3 DEF IInv, WellFormed, ChainsUnbroken
    <3>2. Distance(h, s) = Distance(h, t)
      BY <1>1, <1>2, <1>3, <2>1, <3>1, DistanceType
    <3> QED
      BY <1>1, <1>3, <2>1, <3>2, SameSlot
  <2> QED
    BY <1>3, <2>2, <2>3
<1> QED
  BY <1>3, <1>4, <1>5 DEF s

LEMMA InsertStep ==
  ASSUME IInv, NEW r \in Refs, NEW v \in Vals, Insert(r, v)
  PROVE  IInv'
<1> DEFINE s == FirstFrom(home[r], Stops(r))
<1>1. /\ pc = "idle" /\ pc' = "idle" /\ home' = home /\ gap' = gap /\ scan' = scan
      /\ keys' = [keys EXCEPT ![s] = r] /\ vals' = [vals EXCEPT ![s] = v]
      /\ size' = IF keys[s] = Free THEN size + 1 ELSE size
      /\ keys[s] = Free => size < MaxLive
      /\ Stops(r) # {}
  BY DEF Insert, SizeAfterInsert
<1>2. /\ s \in Slots /\ keys[s] \in {r, Free}
      /\ \A t \in Slots : Distance(home[r], t) < Distance(home[r], s)
                            => keys[t] # Free
      /\ \A t \in Taken : keys[t] = r => t = s
  BY <1>1, ProbeStops
<1> HIDE DEF s
<1>3. TypeOK /\ SizeCounts /\ KeysDistinct /\ ChainsUnbroken
  BY DEF IInv, WellFormed
<1>4. /\ keys'[s] = r /\ vals'[s] = v
      /\ \A t \in Slots \ {s} : keys'[t] = keys[t] /\ vals'[t] = vals[t]
  BY <1>1, <1>2, <1>3 DEF TypeOK
<1>5. Taken' = Taken \cup {s} /\ Taken = {t \in Slots : keys[t] # Free}
  BY <1>1, <1>2, <1>4, SentinelAssumption DEF Taken
<1>6. size \in Nat /\ size <= Capacity /\ MaxLive <= Capacity /\ Capacity \in Nat
      /\ MaxLive \in Nat
  BY <1>3, SlotBounds, MaxLiveAssumption DEF TypeOK
<1>7. TypeOK'
  <2>1. size' \in 0 .. Capacity
    BY <1>1, <1>6
  <2> QED
    BY <1>1, <1>2, <1>3, <2>1 DEF TypeOK
<1>8. SizeCounts'
  <2>1. s \in Taken <=> keys[s] # Free
    BY <1>2, <1>5
  <2>2. Cardinality(Taken')
          = IF s \in Taken THEN Cardinality(Taken) ELSE Cardinality(Taken) + 1
    BY <1>5, TakenFinite, FS_AddElement
  <2> QED
    BY <1>1, <1>3, <2>1, <2>2, TakenFinite DEF SizeCounts
<1>9. KeysDistinct'
  BY <1>2, <1>3, <1>4, <1>5, TakenFinite DEF KeysDistinct
<1>10. ChainsUnbroken'
  <2> SUFFICES ASSUME NEW q \in Taken', NEW t \in Slots,
                      Distance(home[keys'[q]], t) < Distance(home[keys'[q]], q)
               PROVE  keys'[t] # Free
    BY <1>1 DEF ChainsUnbroken
  <2>1. CASE q = s
    BY <1>2, <1>4, <2>1, SentinelAssumption
  <2>2. CASE q # s
    BY <1>3, <1>4, <1>5, <2>2, TakenFinite, SentinelAssumption DEF ChainsUnbroken
  <2> QED
    BY <2>1, <2>2
<1>11. ValuesStored'
  BY <1>4, <1>5, TakenFinite, SentinelAssumption DEF IInv, ValuesStored
<1> QED
  BY <1>1, <1>7, <1>8, <1>9, <1>10, <1>11
     DEF IInv, WellFormed, GapIsStale, PassedStay

\* What a scalar search answers: the slot of the entry, when there is one.
LEMMA FindIs ==
  ASSUME ~Simd, IInv, pc = "idle", NEW r \in Refs
  PROVE  \/ \E s \in Taken : Find(r) = {s} /\ keys[s] = r
         \/ Find(r) = {NotFound} /\ \A s \in Slots : keys[s] # r
<1> DEFINE s == FirstFrom(home[r], Stops(r))
<1>1. Find(r) = {ProbeScalar(r)}
  BY DEF Find
<1>2. CASE Stops(r) # {} /\ keys[s] = r
  <2>1. s \in Slots
    BY <1>2, ProbeStops
  <2>2. s \in Taken
    BY <1>2, <2>1, SentinelAssumption DEF Taken
  <2> QED
    BY <1>1, <1>2, <2>2 DEF ProbeScalar
<1>3. CASE ~(Stops(r) # {} /\ keys[s] = r)
  <2>1. ASSUME NEW t \in Slots, keys[t] = r PROVE FALSE
    <3>1. t \in Stops(r) /\ t \in Taken
      BY <2>1, SentinelAssumption DEF Stops, Taken
    <3> QED
      BY <1>3, <2>1, <3>1, ProbeStops
  <2> QED
    BY <1>1, <1>3, <2>1 DEF ProbeScalar
<1> QED
  BY <1>2, <1>3

\* An erase begins at the one slot that holds the reference.
LEMMA EraseBegins ==
  ASSUME ~Simd, IInv, NEW r \in Refs, EraseBegin(r)
  PROVE  /\ gap' \in Taken /\ keys[gap'] = r /\ scan' = gap'
         /\ pc = "idle" /\ pc' = "shift"
         /\ keys' = keys /\ vals' = vals /\ home' = home /\ size' = size
         /\ Taken' = Taken \ {gap'}
<1>1. /\ pc = "idle" /\ pc' = "shift" /\ scan' = gap'
      /\ gap' \in Find(r) \cap Slots
      /\ keys' = keys /\ vals' = vals /\ home' = home /\ size' = size
  BY DEF EraseBegin
<1>2. NotFound \notin Slots
  BY SlotBounds DEF NotFound, Slots
<1>3. gap' \in Taken /\ keys[gap'] = r
  BY <1>1, <1>2, FindIs
<1> QED
  BY <1>1, <1>3 DEF Taken

LEMMA EraseBeginStep ==
  ASSUME ~Simd, IInv, NEW r \in Refs, EraseBegin(r)
  PROVE  IInv'
<1>1. /\ gap' \in Taken /\ keys[gap'] = r /\ scan' = gap'
      /\ pc = "idle" /\ pc' = "shift"
      /\ keys' = keys /\ vals' = vals /\ home' = home /\ size' = size
      /\ Taken' = Taken \ {gap'}
  BY EraseBegins
<1>2. TypeOK /\ SizeCounts /\ KeysDistinct /\ ChainsUnbroken
  BY DEF IInv, WellFormed
<1>3. TypeOK' /\ KeysDistinct' /\ ChainsUnbroken'
  BY <1>1, <1>2, TakenFinite DEF TypeOK, KeysDistinct, ChainsUnbroken
<1>4. SizeCounts'
  <2>1. Cardinality(Taken') = Cardinality(Taken) - 1
    BY <1>1, TakenFinite, FS_RemoveElement
  <2> QED
    BY <1>1, <1>2, <2>1, TakenFinite DEF SizeCounts
<1>5. GapIsStale' /\ ValuesStored'
  BY <1>1, <1>2, TakenEntry DEF IInv, GapIsStale, ValuesStored
<1>6. PassedStay'
  <2> SUFFICES ASSUME NEW s \in Taken', Distance(gap', s) <= Distance(gap', gap')
               PROVE  FALSE
    BY <1>1 DEF PassedStay
  <2>1. s \in Slots /\ gap' \in Slots /\ s # gap'
    BY <1>1, TakenFinite
  <2>2. Distance(gap', s) = Distance(gap', gap')
    BY <2>1, DistanceType
  <2> QED
    BY <2>1, <2>2, SameSlot
<1> QED
  BY <1>3, <1>4, <1>5, <1>6 DEF IInv, WellFormed

\* An iteration of the loop that leaves the entry at j where it is.
LEMMA StayStep ==
  ASSUME IInv, EraseShift, InGap(gap, After(scan, 1), home[keys[After(scan, 1)]])
  PROVE  IInv' /\ Taken' = Taken /\ keys' = keys /\ vals' = vals
<1> DEFINE j == After(scan, 1)
<1>1. /\ pc = "shift" /\ pc' = "shift" /\ scan' = j /\ gap' = gap
      /\ keys' = keys /\ vals' = vals /\ home' = home /\ size' = size
      /\ keys[j] # Free
  BY DEF EraseShift, LoopEnds
<1>2. TypeOK /\ j \in Slots /\ scan \in Slots /\ gap \in Slots
  BY NextCases DEF IInv, WellFormed, TypeOK
<1> HIDE DEF j
<1>3. home[keys[j]] \in Slots /\ keys[j] \in Refs
  BY <1>1, <1>2 DEF TypeOK
<1>4. InGap(gap, j, home[keys[j]])
  BY DEF j
<1>5. j # gap
  BY <1>2, <1>3, <1>4, SlotBounds DEF InGap
<1>6. ~Spans(j, gap)
  BY <1>2, <1>3, <1>4, <1>5, InGapMeans DEF Spans
<1>7. Distance(gap, j) = Distance(gap, scan) + 1
  BY <1>2, <1>5, OneFurther DEF j
<1>8. Taken' = Taken
  BY <1>1 DEF Taken
<1>9. PassedStay'
  <2> SUFFICES ASSUME NEW s \in Taken, Distance(gap, s) <= Distance(gap, j)
               PROVE  ~Spans(s, gap)
    BY <1>1, <1>8 DEF PassedStay, Spans
  <2>1. s \in Slots
    BY TakenFinite
  <2>2. CASE s = j
    BY <1>6, <2>2
  <2>3. CASE s # j
    <3>1. Distance(gap, s) # Distance(gap, j)
      BY <1>2, <2>1, <2>3, SameSlot
    <3>2. Distance(gap, s) <= Distance(gap, scan)
      BY <1>2, <1>7, <2>1, <3>1, DistanceType
    <3> QED
      BY <1>1, <3>2 DEF IInv, PassedStay
  <2> QED
    BY <2>2, <2>3
<1> QED
  BY <1>1, <1>2, <1>8, <1>9 DEF IInv, WellFormed, TypeOK, SizeCounts,
     KeysDistinct, ChainsUnbroken, GapIsStale, ValuesStored

\* What an iteration that moves the entry at j back into the gap does; when the
\* loop has come round a full table to the gap itself, nothing but scan moves.
LEMMA MoveEffect ==
  ASSUME IInv, EraseShift, ~InGap(gap, After(scan, 1), home[keys[After(scan, 1)]])
  PROVE  LET j == After(scan, 1)
         IN  /\ pc = "shift" /\ pc' = "shift" /\ scan' = j /\ gap' = j
             /\ home' = home /\ size' = size /\ j \in Slots /\ gap \in Slots
             /\ keys[j] # Free
             /\ keys'[gap] = keys[j] /\ vals'[gap] = vals[j]
             /\ \A s \in Slots \ {gap} : keys'[s] = keys[s] /\ vals'[s] = vals[s]
             /\ j # gap => j \in Taken /\ Taken' = (Taken \ {j}) \cup {gap}
             /\ j = gap => Taken' = Taken
             /\ gap \notin Taken /\ TypeOK'
<1> DEFINE j == After(scan, 1)
<1>1. TypeOK /\ j \in Slots /\ gap \in Slots
  BY NextCases DEF IInv, WellFormed, TypeOK
<1>2. /\ pc = "shift" /\ pc' = "shift" /\ scan' = j /\ gap' = j
      /\ keys' = [keys EXCEPT ![gap] = keys[j]]
      /\ vals' = [vals EXCEPT ![gap] = vals[j]]
      /\ home' = home /\ size' = size /\ keys[j] # Free
  BY DEF EraseShift, LoopEnds, MoveKey, MoveVal
<1> HIDE DEF j
<1>3. /\ keys'[gap] = keys[j] /\ vals'[gap] = vals[j]
      /\ \A s \in Slots \ {gap} : keys'[s] = keys[s] /\ vals'[s] = vals[s]
  BY <1>1, <1>2 DEF TypeOK
<1>4. TypeOK'
  BY <1>1, <1>2 DEF TypeOK
<1>5. /\ j # gap => j \in Taken /\ Taken' = (Taken \ {j}) \cup {gap}
      /\ j = gap => Taken' = Taken
      /\ gap \notin Taken
  BY <1>1, <1>2, <1>3 DEF Taken
<1> QED
  BY <1>1, <1>2, <1>3, <1>4, <1>5 DEF j

LEMMA MoveStep ==
  ASSUME IInv, EraseShift, ~InGap(gap, After(scan, 1), home[keys[After(scan, 1)]])
  PROVE  IInv'
<1> DEFINE j == After(scan, 1)
<1>1. /\ pc = "shift" /\ pc' = "shift" /\ scan' = j /\ gap' = j
      /\ home' = home /\ size' = size /\ j \in Slots /\ gap \in Slots
      /\ keys[j] # Free
      /\ keys'[gap] = keys[j] /\ vals'[gap] = vals[j]
      /\ \A s \in Slots \ {gap} : keys'[s] = keys[s] /\ vals'[s] = vals[s]
      /\ j # gap => j \in Taken /\ Taken' = (Taken \ {j}) \cup {gap}
      /\ j = gap => Taken' = Taken
      /\ gap \notin Taken /\ TypeOK'
  BY MoveEffect
<1>2. ~InGap(gap, j, home[keys[j]])
  OBVIOUS
<1> HIDE DEF j
<1>3. TypeOK /\ SizeCounts /\ KeysDistinct /\ ChainsUnbroken
  BY DEF IInv, WellFormed
<1>4. Taken' \subseteq Slots /\ Taken \subseteq Slots
  BY <1>1, TakenFinite
<1>5. SizeCounts'
  <2>1. CASE j = gap
    BY <1>1, <1>3, <2>1 DEF SizeCounts
  <2>2. CASE j # gap
    <3>1. /\ IsFiniteSet(Taken \ {j})
          /\ Cardinality(Taken \ {j}) = Cardinality(Taken) - 1
      BY <1>1, <2>2, TakenFinite, FS_RemoveElement
    <3>2. Cardinality(Taken') = Cardinality(Taken \ {j}) + 1
      BY <1>1, <2>2, <3>1, FS_AddElement
    <3> QED
      BY <1>1, <1>3, <3>1, <3>2, TakenFinite DEF SizeCounts
  <2> QED
    BY <2>1, <2>2
<1>6. KeysDistinct'
  BY <1>1, <1>3, <1>4 DEF KeysDistinct
<1>7. \A t \in Slots : keys[t] # Free => keys'[t] # Free
  BY <1>1
<1>8. ChainsUnbroken'
  <2> SUFFICES ASSUME NEW s \in Taken', NEW t \in Slots,
                      Distance(home[keys'[s]], t) < Distance(home[keys'[s]], s)
               PROVE  keys'[t] # Free
    BY <1>1 DEF ChainsUnbroken
  <2>1. CASE s = gap
    <3>1. j # gap /\ j \in Taken
      BY <1>1, <2>1
    <3>2. home[keys[j]] \in Slots
      BY <1>3, <3>1, TakenEntry
    <3>3. Distance(home[keys[j]], gap) < Distance(home[keys[j]], j)
      BY <1>1, <1>2, <3>1, <3>2, InGapMeans
    <3>4. Distance(home[keys[j]], t) < Distance(home[keys[j]], j)
      BY <1>1, <2>1, <3>2, <3>3, DistanceType
    <3> QED
      BY <1>3, <1>7, <3>1, <3>4 DEF ChainsUnbroken
  <2>2. CASE s # gap
    <3>1. s \in Taken /\ keys'[s] = keys[s]
      BY <1>1, <1>4, <2>2
    <3> QED
      BY <1>3, <1>7, <3>1 DEF ChainsUnbroken
  <2> QED
    BY <2>1, <2>2
<1>9. GapIsStale' /\ ValuesStored'
  BY <1>1, <1>4, <1>7 DEF IInv, GapIsStale, ValuesStored
<1>10. PassedStay'
  <2> SUFFICES ASSUME NEW s \in Taken', Distance(j, s) <= Distance(j, j)
               PROVE  FALSE
    BY <1>1 DEF PassedStay
  <2>1. s \in Slots /\ s # j
    BY <1>1, <1>4
  <2>2. Distance(j, s) = Distance(j, j)
    BY <1>1, <2>1, DistanceType
  <2> QED
    BY <1>1, <2>1, <2>2, SameSlot
<1> QED
  BY <1>1, <1>5, <1>6, <1>8, <1>9, <1>10 DEF IInv, WellFormed

\* Freeing the last gap cuts off no entry: the loop has seen every entry up to
\* a free slot, and no chain reaches past that one.
LEMMA EraseEndStep ==
  ASSUME IInv, EraseEnd
  PROVE  IInv' /\ Taken' = Taken /\ pc = "shift" /\ pc' = "idle"
         /\ \A s \in Taken : keys'[s] = keys[s] /\ vals'[s] = vals[s]
<1> DEFINE j == After(scan, 1)
<1>1. TypeOK /\ SizeCounts /\ KeysDistinct /\ ChainsUnbroken
  BY DEF IInv, WellFormed
<1>2. j \in Slots /\ scan \in Slots /\ gap \in Slots
  BY <1>1, NextCases DEF TypeOK
<1>3. /\ pc = "shift" /\ pc' = "idle" /\ home' = home /\ size' = size - 1
      /\ keys' = [keys EXCEPT ![gap] = Free] /\ vals' = [vals EXCEPT ![gap] = None]
      /\ gap' = 0 /\ scan' = 0 /\ keys[j] = Free
  BY DEF EraseEnd, LoopEnds, SizeAfterErase
<1>4. /\ keys'[gap] = Free
      /\ \A s \in Slots \ {gap} : keys'[s] = keys[s] /\ vals'[s] = vals[s]
  BY <1>1, <1>2, <1>3 DEF TypeOK
<1>5. Taken' = Taken /\ Taken \subseteq Slots \ {gap}
  BY <1>3, <1>4 DEF Taken
<1>6. j # gap
  BY <1>3 DEF IInv, GapIsStale
<1>7. Distance(gap, j) = Distance(gap, scan) + 1
  BY <1>2, <1>6, OneFurther
<1> HIDE DEF j
<1>8. ASSUME NEW s \in Taken PROVE ~Spans(s, gap)
  <2> SUFFICES ASSUME Spans(s, gap) PROVE FALSE
    OBVIOUS
  <2>1. /\ s \in Slots /\ keys[s] # Free /\ home[keys[s]] \in Slots
    BY <1>1, TakenEntry
  <2>2. ~(Distance(gap, s) <= Distance(gap, scan))
    BY <1>3 DEF IInv, PassedStay
  <2>3. Distance(gap, s) # Distance(gap, j)
    BY <1>2, <1>3, <2>1, SameSlot
  <2>4. Distance(gap, j) < Distance(gap, s)
    BY <1>2, <1>7, <2>1, <2>2, <2>3, DistanceType
  <2>5. Distance(home[keys[s]], j) < Distance(home[keys[s]], s)
    BY <1>2, <2>1, <2>4, Between DEF Spans
  <2> QED
    BY <1>1, <1>2, <1>3, <2>5 DEF ChainsUnbroken
<1>9. ChainsUnbroken'
  <2> SUFFICES ASSUME NEW s \in Taken, NEW t \in Slots,
                      Distance(home[keys[s]], t) < Distance(home[keys[s]], s)
               PROVE  keys'[t] # Free
    BY <1>3, <1>4, <1>5 DEF ChainsUnbroken
  <2>1. t # gap
    BY <1>8 DEF Spans
  <2>2. keys[t] # Free
    BY <1>1 DEF ChainsUnbroken
  <2> QED
    BY <1>4, <2>1, <2>2
<1>10. SizeCounts' /\ size - 1 \in 0 .. Capacity
  BY <1>1, <1>3, <1>5, TakenFinite, SlotBounds DEF SizeCounts, TypeOK
<1>11. TypeOK'
  BY <1>1, <1>2, <1>3, <1>10, SlotBounds DEF TypeOK
<1>12. KeysDistinct' /\ ValuesStored' /\ GapIsStale' /\ PassedStay'
  BY <1>1, <1>3, <1>4, <1>5
     DEF KeysDistinct, IInv, ValuesStored, GapIsStale, PassedStay
<1> QED
  BY <1>3, <1>4, <1>5, <1>9, <1>10, <1>11, <1>12 DEF IInv, WellFormed

LEMMA NextInv == ~Simd /\ IInv /\ [Next]_vars => IInv'
<1> SUFFICES ASSUME ~Simd, IInv, [Next]_vars PROVE IInv'
  OBVIOUS
<1>1. CASE UNCHANGED vars
  BY <1>1 DEF vars, IInv, WellFormed, TypeOK, SizeCounts, KeysDistinct,
     ChainsUnbroken, GapIsStale, ValuesStored, PassedStay, Taken, Spans
<1> QED
  BY <1>1, InsertStep, EraseBeginStep, StayStep, MoveStep, EraseEndStep
     DEF Next

\* Calls of insert and erase keep the table, between their loop iterations
\* too, in a state in which a probe reaches every entry.
THEOREM Inductive ==
  ASSUME ~Simd
  PROVE  Spec => []IInv
BY InitInv, NextInv, PTL DEF Spec

\* The count is that of the keys, which are distinct, and no chain is broken,
\* also in the middle of the backward shift of an erase.
THEOREM TableWellFormed ==
  ASSUME ~Simd
  PROVE  Spec => []WellFormed
<1>1. IInv => WellFormed
  BY DEF IInv
<1> QED
  BY <1>1, Inductive, PTL

\* Between two calls find answers exactly: the slot of a reference that is in
\* the table, -1 for one that is not.
THEOREM FindCorrect ==
  ASSUME ~Simd
  PROVE  Spec => []FindIsExact
<1>1. IInv => FindIsExact
  <2> SUFFICES ASSUME IInv, pc = "idle", NEW r \in Refs
               PROVE  \/ Find(r) = {s \in Slots : keys[s] = r}
                      \/ (\A s \in Slots : keys[s] # r) /\ Find(r) = {NotFound}
    BY DEF FindIsExact
  <2>1. ASSUME NEW s \in Taken, Find(r) = {s}, keys[s] = r
        PROVE  Find(r) = {t \in Slots : keys[t] = r}
    <3>1. ASSUME NEW t \in Slots, keys[t] = r PROVE t = s
      <4>1. t \in Taken
        BY <3>1, SentinelAssumption DEF Taken
      <4> QED
        BY <2>1, <3>1, <4>1 DEF IInv, WellFormed, KeysDistinct
    <3>2. s \in Slots
      BY TakenFinite
    <3> QED
      BY <2>1, <3>1, <3>2
  <2> QED
    BY <2>1, FindIs
<1> QED
  BY <1>1, Inductive, PTL

-----------------------------------------------------------------------------
(* The refinement: the map the table stands for changes at an insertion and    *)
(* at the beginning of an erase, and at no iteration of its loop.              *)

\* What a reference maps to.
Maps ==
  \A r \in Refs :
    /\ \A s \in Taken : keys[s] = r => MapOf[r] = vals[s] /\ MapOf[r] # None
    /\ (\A s \in Taken : keys[s] # r) => MapOf[r] = None

LEMMA MapIs == IInv => Maps
<1> SUFFICES ASSUME IInv, NEW r \in Refs
             PROVE  /\ \A s \in Taken :
                         keys[s] = r => MapOf[r] = vals[s] /\ MapOf[r] # None
                    /\ (\A s \in Taken : keys[s] # r) => MapOf[r] = None
  BY DEF Maps
<1>1. ASSUME NEW s \in Taken, keys[s] = r
      PROVE  MapOf[r] = vals[s] /\ MapOf[r] # None
  <2>1. \A t \in Taken : keys[t] = r => t = s
    BY <1>1 DEF IInv, WellFormed, KeysDistinct
  <2>2. (CHOOSE t \in Taken : keys[t] = r) = s
    BY <1>1, <2>1
  <2>3. vals[s] # None
    BY DEF IInv, ValuesStored
  <2> QED
    BY <1>1, <2>2, <2>3 DEF MapOf
<1>2. ASSUME \A s \in Taken : keys[s] # r PROVE MapOf[r] = None
  BY <1>2 DEF MapOf
<1> QED
  BY <1>1, <1>2

LEMMA MapIsNext == IInv' => Maps'
BY MapIs, PTL

\* Functions on the references are equal if they agree on every reference.
LEMMA SameMap ==
  ASSUME NEW f, f = [r \in Refs |-> f[r]], \A r \in Refs : MapOf'[r] = f[r]
  PROVE  MapOf' = f
BY DEF MapOf

\* Two tables stand for the same map if each holds every entry of the other.
LEMMA SameEntries ==
  ASSUME IInv, IInv',
         \A s \in Taken : \E t \in Taken' : keys'[t] = keys[s] /\ vals'[t] = vals[s],
         \A t \in Taken' : \E s \in Taken : keys[s] = keys'[t]
  PROVE  MapOf' = MapOf
<1>1. ASSUME NEW r \in Refs PROVE MapOf'[r] = MapOf[r]
  <2>1. CASE \E s \in Taken : keys[s] = r
    <3>1. PICK s \in Taken : keys[s] = r
      BY <2>1
    <3>2. PICK t \in Taken' : keys'[t] = r /\ vals'[t] = vals[s]
      BY <3>1
    <3> QED
      BY <3>1, <3>2, MapIs, MapIsNext DEF Maps
  <2>2. CASE \A s \in Taken : keys[s] # r
    <3>1. \A t \in Taken' : keys'[t] # r
      BY <2>2
    <3> QED
      BY <2>2, <3>1, MapIs, MapIsNext DEF Maps
  <2> QED
    BY <2>1, <2>2
<1>2. MapOf = [r \in Refs |-> MapOf[r]]
  BY DEF MapOf
<1> QED
  BY <1>1, <1>2, SameMap

\* The references present in the map are the keys of the entries.
LEMMA PresentFits ==
  ASSUME IInv
  PROVE  /\ \A r \in Refs : r \in Abstract!Present <=> \E s \in Taken : keys[s] = r
         /\ Cardinality(Abstract!Present) \in Nat
         /\ Cardinality(Abstract!Present) <= Cardinality(Taken)
<1>1. \A r \in Refs : r \in Abstract!Present <=> \E s \in Taken : keys[s] = r
  BY MapIs DEF Maps, Abstract!Present
<1> DEFINE f == [s \in Taken |-> keys[s]]
<1>2. f \in Surjection(Taken, Abstract!Present)
  <2>1. \A s \in Taken : keys[s] \in Refs
    BY TakenEntry DEF IInv, WellFormed
  <2>2. f \in [Taken -> Abstract!Present]
    BY <1>1, <2>1
  <2>3. \A r \in Abstract!Present : \E s \in Taken : f[s] = r
    BY <1>1 DEF Abstract!Present
  <2> QED
    BY <2>2, <2>3 DEF Surjection
<1>3. /\ IsFiniteSet(Abstract!Present)
      /\ Cardinality(Abstract!Present) <= Cardinality(Taken)
  BY <1>2, TakenFinite, FS_Surjection
<1> QED
  BY <1>1, <1>3, FS_CardinalityType

LEMMA InsertIsInsert ==
  ASSUME IInv, IInv', NEW r \in Refs, NEW v \in Vals, Insert(r, v)
  PROVE  Abstract!Insert(r, v)
<1> DEFINE s == FirstFrom(home[r], Stops(r))
<1>1. /\ pc = "idle" /\ pc' = "idle"
      /\ keys' = [keys EXCEPT ![s] = r] /\ vals' = [vals EXCEPT ![s] = v]
      /\ keys[s] = Free => size < MaxLive
      /\ Stops(r) # {}
  BY DEF Insert
<1>2. /\ s \in Slots /\ keys[s] \in {r, Free}
      /\ \A t \in Taken : keys[t] = r => t = s
  BY <1>1, ProbeStops
<1> HIDE DEF s
<1>3. /\ keys'[s] = r /\ vals'[s] = v
      /\ \A t \in Slots \ {s} : keys'[t] = keys[t] /\ vals'[t] = vals[t]
  BY <1>1, <1>2 DEF IInv, WellFormed, TypeOK
<1>4. Taken' = Taken \cup {s} /\ (s \in Taken <=> keys[s] = r)
  BY <1>1, <1>2, <1>3, SentinelAssumption DEF Taken
<1>5. r \in Abstract!Present \/ Cardinality(Abstract!Present) < Capacity
  <2>1. CASE keys[s] = r
    BY <1>4, <2>1, PresentFits
  <2>2. CASE keys[s] = Free
    <3>1. Cardinality(Taken) < Capacity
      BY <1>1, <2>2, TakenFinite, MaxLiveAssumption, SlotBounds
         DEF IInv, WellFormed, SizeCounts, TypeOK
    <3> QED
      BY <3>1, PresentFits, TakenFinite, SlotBounds
  <2> QED
    BY <1>2, <2>1, <2>2
<1>6. ASSUME NEW q \in Refs
      PROVE  MapOf'[q] = IF q = r THEN v ELSE MapOf[q]
  <2>1. CASE q = r
    BY <1>3, <1>4, <2>1, MapIsNext DEF Maps
  <2>2. CASE q # r /\ \E t \in Taken : keys[t] = q
    <3>1. PICK t \in Taken : keys[t] = q
      BY <2>2
    <3>2. t # s
      BY <1>2, <2>2, <3>1, TakenEntry DEF IInv, WellFormed
    <3>3. t \in Taken' /\ keys'[t] = q /\ vals'[t] = vals[t]
      BY <1>3, <1>4, <3>1, <3>2, TakenFinite
    <3> QED
      BY <2>2, <3>1, <3>3, MapIs, MapIsNext DEF Maps
  <2>3. CASE q # r /\ \A t \in Taken : keys[t] # q
    <3>1. \A t \in Taken' : keys'[t] # q
      BY <1>3, <1>4, <2>3, TakenFinite
    <3> QED
      BY <2>3, <3>1, MapIs, MapIsNext DEF Maps
  <2> QED
    BY <2>1, <2>2, <2>3
<1>7. MapOf' = [MapOf EXCEPT ![r] = v]
  <2> DEFINE f == [MapOf EXCEPT ![r] = v]
  <2>1. f = [q \in Refs |-> f[q]] /\ \A q \in Refs : f[q] = IF q = r THEN v ELSE MapOf[q]
    BY DEF MapOf
  <2> HIDE DEF f
  <2>2. MapOf' = f
    BY <1>6, <2>1, SameMap
  <2> QED
    BY <2>2 DEF f
<1>8. Abstract!Cardinality(Abstract!Present) = Cardinality(Abstract!Present)
  BY DEF Abstract!Cardinality, Cardinality
<1> QED
  BY <1>1, <1>5, <1>7, <1>8 DEF Abstract!Insert

LEMMA EraseBeginIsErase ==
  ASSUME ~Simd, IInv, IInv', NEW r \in Refs, EraseBegin(r)
  PROVE  Abstract!Erase(r)
<1>1. /\ gap' \in Taken /\ keys[gap'] = r
      /\ pc = "idle" /\ pc' = "shift" /\ keys' = keys /\ vals' = vals
      /\ Taken' = Taken \ {gap'}
  BY EraseBegins
<1>2. r \in Abstract!Present
  BY <1>1, PresentFits
<1>3. \A t \in Taken : keys[t] = r => t = gap'
  BY <1>1 DEF IInv, WellFormed, KeysDistinct
<1>4. ASSUME NEW q \in Refs
      PROVE  MapOf'[q] = IF q = r THEN None ELSE MapOf[q]
  <2>1. CASE q = r
    BY <1>1, <1>3, <2>1, MapIsNext DEF Maps
  <2>2. CASE q # r /\ \E t \in Taken : keys[t] = q
    <3>1. PICK t \in Taken : keys[t] = q
      BY <2>2
    <3>2. t \in Taken' /\ keys'[t] = q /\ vals'[t] = vals[t]
      BY <1>1, <2>2, <3>1
    <3> QED
      BY <2>2, <3>1, <3>2, MapIs, MapIsNext DEF Maps
  <2>3. CASE q # r /\ \A t \in Taken : keys[t] # q
    <3>1. \A t \in Taken' : keys'[t] # q
      BY <1>1, <2>3
    <3> QED
      BY <2>3, <3>1, MapIs, MapIsNext DEF Maps
  <2> QED
    BY <2>1, <2>2, <2>3
<1>5. MapOf' = [MapOf EXCEPT ![r] = None]
  <2> DEFINE f == [MapOf EXCEPT ![r] = None]
  <2>1. f = [q \in Refs |-> f[q]]
        /\ \A q \in Refs : f[q] = IF q = r THEN None ELSE MapOf[q]
    BY DEF MapOf
  <2> HIDE DEF f
  <2>2. MapOf' = f
    BY <1>4, <2>1, SameMap
  <2> QED
    BY <2>2 DEF f
<1> QED
  BY <1>1, <1>2, <1>5 DEF Abstract!Erase

LEMMA ShiftStutters ==
  ASSUME IInv, IInv', EraseShift
  PROVE  MapOf' = MapOf /\ pc' = pc
<1>1. pc' = pc
  BY DEF EraseShift
<1>2. CASE InGap(gap, After(scan, 1), home[keys[After(scan, 1)]])
  BY <1>1, <1>2, StayStep, SameEntries
<1>3. CASE ~InGap(gap, After(scan, 1), home[keys[After(scan, 1)]])
  <2> DEFINE j == After(scan, 1)
  <2>1. /\ j \in Slots /\ gap \in Slots
        /\ keys'[gap] = keys[j] /\ vals'[gap] = vals[j]
        /\ \A s \in Slots \ {gap} : keys'[s] = keys[s] /\ vals'[s] = vals[s]
        /\ j # gap => j \in Taken /\ Taken' = (Taken \ {j}) \cup {gap}
        /\ j = gap => Taken' = Taken
        /\ gap \notin Taken
    BY <1>3, MoveEffect
  <2> HIDE DEF j
  <2>2. ASSUME NEW s \in Taken
        PROVE  \E t \in Taken' : keys'[t] = keys[s] /\ vals'[t] = vals[s]
    <3>1. CASE s = j
      BY <2>1, <3>1
    <3>2. CASE s # j
      BY <2>1, <3>2, TakenFinite
    <3> QED
      BY <3>1, <3>2
  <2>3. ASSUME NEW t \in Taken'
        PROVE  \E s \in Taken : keys[s] = keys'[t]
    <3>1. CASE t = gap
      BY <2>1, <3>1
    <3>2. CASE t # gap
      BY <2>1, <3>2, TakenFinite
    <3> QED
      BY <3>1, <3>2
  <2> QED
    BY <1>1, <2>2, <2>3, SameEntries
<1> QED
  BY <1>2, <1>3

LEMMA EraseEndReturns ==
  ASSUME IInv, IInv', EraseEnd
  PROVE  Abstract!Return
<1>1. /\ pc = "shift" /\ pc' = "idle" /\ Taken' = Taken
      /\ \A s \in Taken : keys'[s] = keys[s] /\ vals'[s] = vals[s]
  BY EraseEndStep
<1>2. MapOf' = MapOf
  BY <1>1, SameEntries
<1> QED
  BY <1>1, <1>2 DEF Abstract!Return

LEMMA MapInit == Init => Abstract!Init
<1> SUFFICES ASSUME Init PROVE Abstract!Init
  OBVIOUS
<1>1. Taken = {} /\ pc = "idle"
  BY DEF Init, Taken
<1> QED
  BY <1>1 DEF Abstract!Init, MapOf

\* A scalar table is a map: an insertion adds or overwrites its reference only
\* and is refused by a full table only, and an erase removes its reference and
\* no other, whatever the loop of erase moves where.
THEOREM TableIsRefMap ==
  ASSUME ~Simd
  PROVE  Spec => ImplementsMap
<1>1. IInv /\ IInv' /\ [Next]_vars => [Abstract!Next]_<<MapOf, pc = "shift">>
  <2> SUFFICES ASSUME IInv, IInv', [Next]_vars
               PROVE  \/ Abstract!Next
                      \/ MapOf' = MapOf /\ (pc' = "shift") = (pc = "shift")
    BY Zenon
  <2>1. CASE UNCHANGED vars
    BY <2>1 DEF vars, MapOf, Taken
  <2>2. ASSUME NEW r \in Refs, NEW v \in Vals, Insert(r, v) PROVE Abstract!Next
    BY <2>2, InsertIsInsert DEF Abstract!Next
  <2>3. ASSUME NEW r \in Refs, EraseBegin(r) PROVE Abstract!Next
    BY <2>3, EraseBeginIsErase DEF Abstract!Next
  <2>4. CASE EraseShift
    BY <2>4, ShiftStutters
  <2>5. CASE EraseEnd
    BY <2>5, EraseEndReturns DEF Abstract!Next
  <2> QED
    BY <2>1, <2>2, <2>3, <2>4, <2>5 DEF Next
<1> QED
  BY <1>1, MapInit, Inductive, PTL DEF Spec, ImplementsMap, Abstract!Spec,
     Abstract!vars
=============================================================================
