--------------------------- MODULE OrderRefTable ---------------------------
(***************************************************************************)
(* The open-addressing hash table behind the order-reference map (class    *)
(* OrderRefTable of sw/book/order_ref_table.hpp): linear probing from the  *)
(* home slot of a reference, and deletion by backward shift instead of     *)
(* tombstones.                                                             *)
(*                                                                         *)
(* A call to insert only searches and writes one slot, and is one action.  *)
(* The loop of erase rewrites the table slot by slot and is one action per *)
(* iteration, so that what the table looks like on the way, and whether    *)
(* the loop ends, can be stated.  The hash is any function from references *)
(* to slots, picked once.                                                  *)
(***************************************************************************)
EXTENDS Naturals, FiniteSets

CONSTANTS
  Refs,       \* nonzero order references
  Vals,       \* values stored with them
  None,       \* the value that stands for an absent entry
  Free,       \* key 0: the slot is free
  Capacity,   \* cap_, a power of two
  MaxLive,    \* bound on size_: the most orders a feed keeps alive at a time
  Lanes,      \* keys one vector compare covers: 4 (AVX2) or 8 (AVX-512)
  Simd        \* TRUE: built with OB_SIMD_AVX2 or OB_SIMD_AVX512

ASSUME CapacityAssumption ==
  Capacity \in Nat \ {0} /\ \E k \in 0 .. 31 : Capacity = 2^k
ASSUME MaxLiveAssumption == MaxLive \in 0 .. Capacity
ASSUME LanesAssumption == Lanes \in Nat /\ Lanes > 0
ASSUME SentinelAssumption == Free \notin Refs /\ None \notin Vals

Slots == 0 .. Capacity - 1
NotFound == Capacity + 1     \* what find_index answers with -1

VARIABLES
  home,    \* hash_order_ref(ref) & mask_, for every reference
  keys,    \* keys_
  vals,    \* vals_
  size,    \* size_
  pc,      \* "idle", or "shift": inside the loop of erase
  gap,     \* i of erase: the slot to fill
  scan     \* j of erase: the last slot looked at

vars == <<home, keys, vals, size, pc, gap, scan>>

-----------------------------------------------------------------------------
(* Probing. *)

\* Mutant of After: the mask leaves out the last slot.
AfterShortMask(s, n) == (s + n) % (Capacity - 1)

\* The slot n steps of a linear probe away from s, and the way back.
After(s, n) == (s + n) % Capacity
Distance(s, t) == (t + Capacity - s) % Capacity

\* The slots at which a probe for r stops, and the first of a set of slots
\* that a probe from s comes to.
Stops(r) == {s \in Slots : keys[s] \in {r, Free}}
FirstFrom(s, S) ==
  CHOOSE t \in S : \A u \in S : Distance(s, t) <= Distance(s, u)

\* probe_scalar: stop at the reference or at a free slot.
ProbeScalar(r) ==
  LET s == FirstFrom(home[r], Stops(r))
  IN  IF Stops(r) # {} /\ keys[s] = r THEN s ELSE NotFound

\* probe_avx2 and probe_avx512: whole vectors while they fit in the array,
\* single slots at its end.  A vector that ends with the array leaves the
\* index at Capacity, past the last key: what is read there is unknown, and
\* the index after it is masked to 1.  The answers are the values the index
\* may have when the search returns.
ProbeVector(r) ==
  LET inVector(i, k) == {s \in i .. i + Lanes - 1 : keys[s] = k}
      ReadAt(i) == IF i \in Slots THEN {keys[i]} ELSE Refs \cup {Free}
      search[i \in 0 .. Capacity, scanned \in 0 .. Capacity + Lanes] ==
        IF scanned > Capacity THEN {NotFound}
        ELSE IF i + Lanes <= Capacity
        THEN IF inVector(i, r) # {}
             THEN {s \in inVector(i, r) : \A t \in inVector(i, r) : s <= t}
             ELSE IF inVector(i, Free) # {} THEN {NotFound}
             ELSE search[i + Lanes, scanned + Lanes]
        ELSE UNION {IF k = r THEN {i}
                    ELSE IF k = Free THEN {NotFound}
                    ELSE search[(i + 1) % Capacity, scanned + 1] : k \in ReadAt(i)}
  IN  search[home[r], 0]

\* What find_index may return.
Find(r) == IF Simd THEN ProbeVector(r) ELSE {ProbeScalar(r)}

-----------------------------------------------------------------------------
Init ==
  /\ home \in [Refs -> Slots]
  /\ keys = [s \in Slots |-> Free]
  /\ vals = [s \in Slots |-> None]
  /\ size = 0
  /\ pc = "idle"
  /\ gap = 0
  /\ scan = 0

SizeAfterInsert(s) == IF keys[s] = Free THEN size + 1 ELSE size

\* insert: the first slot of the probe that is free or holds the reference
\* already; when there is none the table is full and nothing happens.  The
\* bound is on the orders alive, not on the table.
Insert(r, v) ==
  LET s == FirstFrom(home[r], Stops(r))
  IN  /\ pc = "idle"
      /\ Stops(r) # {}
      /\ keys[s] = Free => size < MaxLive
      /\ keys' = [keys EXCEPT ![s] = r]
      /\ vals' = [vals EXCEPT ![s] = v]
      /\ size' = SizeAfterInsert(s)
      /\ UNCHANGED <<home, pc, gap, scan>>

\* erase, up to its loop.  An answer past the array is not followed.
EraseBegin(r) ==
  /\ pc = "idle"
  /\ \E s \in Find(r) \cap Slots :
       /\ gap' = s
       /\ scan' = s
  /\ pc' = "shift"
  /\ UNCHANGED <<home, keys, vals, size>>

\* Mutant of InGap: the test without its case for a gap that wraps.
InGapUnwrapped(i, j, k) == i < k /\ k <= j

\* k lies cyclically in (i, j]: the entry at j cannot move back to i.
InGap(i, j, k) == IF i <= j THEN i < k /\ k <= j ELSE i < k \/ k <= j

\* Mutants of the loop: it also ends at an entry that stays (break for
\* continue); the value of a moved key stays behind.
LoopEndsAtStay(j) ==
  IF keys[j] = Free THEN TRUE ELSE InGap(gap, j, home[keys[j]])
KeepVal(i, j) == vals

\* The loop ends at a free slot; otherwise one iteration looks at slot j and
\* moves its entry into the gap unless it has to stay.
LoopEnds(j) == keys[j] = Free
MoveKey(i, j) == [keys EXCEPT ![i] = keys[j]]
MoveVal(i, j) == [vals EXCEPT ![i] = vals[j]]

EraseShift ==
  LET j == After(scan, 1)
  IN  /\ pc = "shift"
      /\ ~LoopEnds(j)
      /\ scan' = j
      /\ IF InGap(gap, j, home[keys[j]])
         THEN UNCHANGED <<keys, vals, gap>>
         ELSE /\ keys' = MoveKey(gap, j)
              /\ vals' = MoveVal(gap, j)
              /\ gap' = j
      /\ UNCHANGED <<home, size, pc>>

\* After the loop: the slot left to fill is freed.
SizeAfterErase == size - 1

EraseEnd ==
  /\ pc = "shift"
  /\ LoopEnds(After(scan, 1))
  /\ keys' = [keys EXCEPT ![gap] = Free]
  /\ vals' = [vals EXCEPT ![gap] = None]
  /\ size' = SizeAfterErase
  /\ pc' = "idle"
  /\ gap' = 0
  /\ scan' = 0
  /\ UNCHANGED home

Next ==
  \/ \E r \in Refs, v \in Vals : Insert(r, v)
  \/ \E r \in Refs : EraseBegin(r)
  \/ EraseShift
  \/ EraseEnd

\* A call runs until it returns.
Spec == Init /\ [][Next]_vars /\ WF_vars(EraseShift \/ EraseEnd)

-----------------------------------------------------------------------------
(* Properties. *)

TypeOK ==
  /\ home \in [Refs -> Slots]
  /\ keys \in [Slots -> Refs \cup {Free}]
  /\ vals \in [Slots -> Vals \cup {None}]
  /\ size \in 0 .. Capacity
  /\ pc \in {"idle", "shift"}
  /\ gap \in Slots /\ scan \in Slots

\* The slots that hold an entry: while an erase shifts, the slot to fill
\* holds a stale copy.
Taken == {s \in Slots : keys[s] # Free /\ ~(pc = "shift" /\ s = gap)}

\* size_ counts the entries: an erase takes its entry off the count last.
SizeCounts == size = Cardinality(Taken) + (IF pc = "shift" THEN 1 ELSE 0)

\* No reference is stored in two slots, whatever was shifted.
KeysDistinct == \A s, t \in Taken : keys[s] = keys[t] => s = t

\* No free slot lies between an entry and its home, so that a probe reaches
\* every entry; deletion has to keep this without tombstones.
ChainsUnbroken ==
  \A s \in Taken : \A t \in Slots :
    Distance(home[keys[s]], t) < Distance(home[keys[s]], s) => keys[t] # Free

\* What every probe relies on, also in the middle of an erase: the count is that
\* of the keys, which are distinct, and no chain is broken.
WellFormed == TypeOK /\ SizeCounts /\ KeysDistinct /\ ChainsUnbroken

\* find answers for every reference: the slot that holds it, or -1 when no slot
\* does.  This is the table as its users see it, between two calls.
FindIsExact ==
  pc = "idle" => \A r \in Refs :
    Find(r) = {s \in Slots : keys[s] = r} \/
    ((\A s \in Slots : keys[s] # r) /\ Find(r) = {NotFound})

\* Every vector build answers what the scalar build answers ("return identical
\* results", sw/util/simd.hpp).
VectorProbeAgrees ==
  pc = "idle" => \A r \in Refs : ProbeVector(r) = {ProbeScalar(r)}

\* The map the table stands for; an erase takes effect when it begins.
MapOf ==
  [r \in Refs |-> IF \E s \in Taken : keys[s] = r
                  THEN vals[CHOOSE s \in Taken : keys[s] = r] ELSE None]

Abstract == INSTANCE RefMap WITH map <- MapOf, erasing <- pc = "shift"

\* The table implements the map: no iteration of the loop of erase changes what
\* any reference maps to.
ImplementsMap == Abstract!Spec

\* An erase returns ("Returns true if removed") as long as it began with a free slot
\* in the table; from a full one it never does.
EraseReturnsIfRoom == pc = "shift" /\ size < Capacity ~> pc = "idle"
=============================================================================
