--------------------------- MODULE RtlBook_proofs ---------------------------
(***************************************************************************)
(* Proofs about RtlBook, for every size of the table and of its probe      *)
(* window, every hash, every band and every set of references, prices and  *)
(* quantities: cycle by cycle, the table, the engine, the level memories   *)
(* and the best trackers stay in step with the messages, and with the      *)
(* oracle that is given each message when it is counted.                   *)
(***************************************************************************)
EXTENDS RtlBook, FiniteSetTheorems, SequenceTheorems, WellFoundedInduction, TLAPS

-----------------------------------------------------------------------------
(* The window of a search. *)

LEMMA TableConstants ==
  /\ TableSize \in Nat /\ TableSize > 0
  /\ MaxProbe \in Nat /\ MaxProbe > 0 /\ MaxProbe <= TableSize
  /\ \A r \in Refs : Home[r] \in Nat /\ Home[r] < TableSize
BY RefTableAssumption

LEMMA ModOnce ==
  ASSUME NEW x \in Nat, x < TableSize + TableSize
  PROVE  x % TableSize = IF x < TableSize THEN x ELSE x - TableSize
<1>1. TableSize \in Nat /\ TableSize > 0
  BY TableConstants
<1> QED
  BY <1>1

LEMMA WindowIs ==
  ASSUME NEW r \in Refs, NEW k \in 0 .. MaxProbe - 1
  PROVE  /\ Window(r, k) = IF Home[r] + k < TableSize THEN Home[r] + k
                           ELSE Home[r] + k - TableSize
         /\ Window(r, k) \in Slots
<1> DEFINE x == Home[r] + k
<1>1. x \in Nat /\ x < TableSize + TableSize /\ TableSize \in Nat
  BY TableConstants
<1> HIDE DEF x
<1>2. x % TableSize = IF x < TableSize THEN x ELSE x - TableSize
  BY <1>1, ModOnce
<1>3. Window(r, k) = IF x < TableSize THEN x ELSE x - TableSize
  BY <1>2 DEF Window, x
<1> QED
  BY <1>1, <1>3, TableConstants DEF Slots, x

LEMMA WindowApart ==
  ASSUME NEW r \in Refs, NEW k \in 0 .. MaxProbe - 1, NEW j \in 0 .. MaxProbe - 1,
         Window(r, k) = Window(r, j)
  PROVE  k = j
BY WindowIs, TableConstants

LEMMA WindowNext ==
  ASSUME NEW r \in Refs, NEW n \in 1 .. MaxProbe, n < MaxProbe
  PROVE  /\ NextSlot(Window(r, n - 1)) = Window(r, n)
         /\ Window(r, n) \in Slots
<1> DEFINE w == Window(r, n - 1)
<1>1. n - 1 \in 0 .. MaxProbe - 1 /\ n \in 0 .. MaxProbe - 1
  BY TableConstants
<1>2. /\ w = IF Home[r] + (n - 1) < TableSize THEN Home[r] + (n - 1)
             ELSE Home[r] + (n - 1) - TableSize
      /\ Window(r, n) = IF Home[r] + n < TableSize THEN Home[r] + n
                        ELSE Home[r] + n - TableSize
      /\ w \in Slots /\ Window(r, n) \in Slots
  BY <1>1, WindowIs
<1> HIDE DEF w
<1> DEFINE x == w + 1
<1>3. x \in Nat /\ x < TableSize + TableSize
  BY <1>2, TableConstants DEF Slots
<1> HIDE DEF x
<1>4. x % TableSize = IF x < TableSize THEN x ELSE x - TableSize
  BY <1>3, ModOnce
<1>5. NextSlot(w) = IF x < TableSize THEN x ELSE x - TableSize
  BY <1>4 DEF NextSlot, x
<1>6. NextSlot(w) = Window(r, n)
  BY <1>1, <1>2, <1>5, TableConstants DEF x
<1> QED
  BY <1>2, <1>6 DEF w

LEMMA WindowFirst ==
  ASSUME NEW r \in Refs
  PROVE  Home[r] = Window(r, 0) /\ Home[r] \in Slots
BY WindowIs, TableConstants

-----------------------------------------------------------------------------
(* What is in the table. *)

Ords == [side : Sides, price : 0 .. PriceMod - 1, shares : 0 .. SharesMod - 1]
Entries == {Live(r, o) : r \in Refs, o \in Ords}
TypedMem == mem \in [Slots -> {Empty, Tomb} \cup Entries]

LEMMA SlotKinds ==
  ASSUME TypedMem, NEW i \in Slots
  PROVE  /\ mem[i] = Empty \/ mem[i] = Tomb \/ mem[i].state = "live"
         /\ mem[i].state = "live" =>
              /\ mem[i].ref \in Refs /\ mem[i].order \in Ords
              /\ mem[i] = Live(mem[i].ref, mem[i].order)
              /\ mem[i] # Empty /\ mem[i] # Tomb
<1>1. mem[i] \in {Empty, Tomb} \cup Entries
  BY DEF TypedMem
<1>2. CASE mem[i] = Empty \/ mem[i] = Tomb
  BY <1>2 DEF Empty, Tomb
<1>3. ASSUME NEW r \in Refs, NEW o \in Ords, mem[i] = Live(r, o)
      PROVE  /\ mem[i].state = "live" /\ mem[i].ref = r /\ mem[i].order = o
             /\ mem[i] # Empty /\ mem[i] # Tomb
  BY <1>3 DEF Live, Empty, Tomb
<1>4. CASE mem[i] \in Entries
  BY <1>3, <1>4 DEF Entries
<1> QED
  BY <1>1, <1>2, <1>4

LEMMA EntryFields ==
  ASSUME NEW r, NEW o
  PROVE  /\ Live(r, o).state = "live" /\ Live(r, o).ref = r /\ Live(r, o).order = o
         /\ Empty.state # "live" /\ Tomb.state # "live" /\ Live(r, o) # Empty
         /\ Tomb # Empty /\ Live(r, o) # Tomb
BY DEF Live, Empty, Tomb

LEMMA LiveAt ==
  ASSUME TableIsMap, NEW r \in Refs, NEW i \in Orders(r)
  PROVE  r \in LiveRefs /\ Orders(r) = {i} /\ LiveOrders[r] = mem[i].order
<1>1. Orders(r) = {i}
  BY DEF TableIsMap
<1>2. r \in LiveRefs
  BY DEF LiveRefs
<1>3. (CHOOSE j \in Orders(r) : TRUE) = i
  BY <1>1
<1> QED
  BY <1>1, <1>2, <1>3 DEF LiveOrders

LEMMA LiveOrdersType ==
  ASSUME TypedMem, TableIsMap
  PROVE  /\ DOMAIN LiveOrders = LiveRefs /\ LiveRefs \subseteq Refs
         /\ LiveOrders \in [LiveRefs -> Ords]
<1>1. ASSUME NEW r \in LiveRefs PROVE LiveOrders[r] \in Ords
  <2>1. PICK i \in Orders(r) : TRUE
    BY DEF LiveRefs
  <2>2. r \in Refs /\ i \in Slots /\ mem[i].state = "live"
    BY <2>1 DEF LiveRefs, Orders
  <2> QED
    BY <2>1, <2>2, LiveAt, SlotKinds
<1> QED
  BY <1>1 DEF LiveOrders, LiveRefs

\* A search that has passed all slots up to an empty one, or its whole window,
\* without a hit has no order to find.
LEMMA NothingToFind ==
  ASSUME TableIsMap, NEW r \in Refs, NEW n \in 1 .. MaxProbe,
         \A k \in 0 .. n - 1 : Window(r, k) \notin Orders(r),
         mem[Window(r, n - 1)] = Empty \/ n >= MaxProbe
  PROVE  Orders(r) = {} /\ r \notin LiveRefs
<1>1. ASSUME NEW i \in Orders(r) PROVE FALSE
  <2>1. PICK k \in 0 .. MaxProbe - 1 :
          Window(r, k) = i /\ \A j \in 0 .. k - 1 : mem[Window(r, j)] # Empty
    BY <1>1 DEF TableIsMap, Reachable
  <2>2. k \notin 0 .. n - 1
    BY <1>1, <2>1
  <2>3. n - 1 \in 0 .. k - 1 /\ ~(n >= MaxProbe)
    BY <2>2, TableConstants
  <2> QED
    BY <2>1, <2>3
<1> QED
  BY <1>1 DEF LiveRefs

-----------------------------------------------------------------------------
(* The three ways the table is written. *)

\* No write empties a slot, so what was within reach stays so.
LEMMA StaysReachable ==
  ASSUME NEW r \in Refs, NEW i, Reachable(r, i),
         \A s \in Slots : mem'[s] = Empty => mem[s] = Empty
  PROVE  Reachable(r, i)'
<1>1. PICK k \in 0 .. MaxProbe - 1 :
        Window(r, k) = i /\ \A j \in 0 .. k - 1 : mem[Window(r, j)] # Empty
  BY DEF Reachable
<1>2. ASSUME NEW j \in 0 .. k - 1 PROVE mem'[Window(r, j)] # Empty
  <2>1. j \in 0 .. MaxProbe - 1
    BY TableConstants
  <2> QED
    BY <1>1, <2>1, WindowIs
<1> QED
  BY <1>1, <1>2 DEF Reachable

\* A write to slot i changes the orders of the reference that was or is there only.
LEMMA OthersKept ==
  ASSUME TypedMem, TableIsMap, NEW r \in Refs, NEW i \in Slots,
         \A s \in Slots : s # i => mem'[s] = mem[s],
         mem[i].state = "live" => mem[i].ref = r,
         mem'[i].state = "live" => mem'[i].ref = r,
         NEW q \in Refs, q # r
  PROVE  /\ Orders(q)' = Orders(q)
         /\ q \in LiveRefs => LiveOrders'[q] = LiveOrders[q] /\ q \in LiveRefs'
<1>1. Orders(q)' = Orders(q)
  BY DEF Orders
<1>2. ASSUME q \in LiveRefs PROVE LiveOrders'[q] = LiveOrders[q] /\ q \in LiveRefs'
  <2>1. PICK s \in Orders(q) : TRUE
    BY <1>2 DEF LiveRefs
  <2>2. Orders(q) = {s} /\ s \in Slots /\ s # i
    BY <2>1, LiveAt DEF Orders
  <2>3. (CHOOSE t \in Orders(q)' : TRUE) = s /\ (CHOOSE t \in Orders(q) : TRUE) = s
    BY <1>1, <2>2
  <2>4. q \in LiveRefs'
    BY <1>1, <1>2 DEF LiveRefs
  <2>5. LiveOrders'[q] = mem'[s].order /\ LiveOrders[q] = mem[s].order
    BY <1>2, <2>3, <2>4 DEF LiveOrders
  <2> QED
    BY <2>2, <2>4, <2>5
<1> QED
  BY <1>1, <1>2

\* A reference that is not in the table is stored where a search comes to it.
LEMMA WriteNew ==
  ASSUME TypedMem, TableIsMap, NEW r \in Refs, NEW o \in Ords, NEW i \in Slots,
         Orders(r) = {}, mem[i] = Empty \/ mem[i] = Tomb,
         mem' = [mem EXCEPT ![i] = Live(r, o)], Reachable(r, i)
  PROVE  /\ TypedMem' /\ TableIsMap'
         /\ LiveOrders' = Ref!Put(LiveOrders, r, o)
<1>1. /\ \A s \in Slots : mem'[s] = IF s = i THEN Live(r, o) ELSE mem[s]
      /\ mem'[i].state = "live" /\ mem'[i].ref = r /\ mem'[i].order = o
      /\ mem[i].state # "live"
  BY EntryFields DEF TypedMem
<1>2. TypedMem'
  BY <1>1 DEF TypedMem, Entries
<1>3. Orders(r)' = {i}
  BY <1>1 DEF Orders
<1>4. ASSUME NEW q \in Refs, q # r PROVE Orders(q)' = Orders(q)
  BY <1>1, <1>4 DEF Orders
<1>5. \A s \in Slots : mem'[s] = Empty => mem[s] = Empty
  BY <1>1, EntryFields
<1>6. TableIsMap'
  <2>1. ASSUME NEW q \in Refs, NEW s \in Orders(q)', NEW t \in Orders(q)'
        PROVE  s = t /\ Reachable(q, s)'
    <3>1. CASE q = r
      BY <1>3, <1>5, <2>1, <3>1, StaysReachable
    <3>2. CASE q # r
      <4>1. s = t /\ Reachable(q, s)
        BY <1>4, <2>1, <3>2 DEF TableIsMap
      <4> QED
        BY <1>5, <4>1, StaysReachable
    <3> QED
      BY <3>1, <3>2
  <2> QED
    BY <2>1 DEF TableIsMap
<1>7. LiveRefs' = LiveRefs \cup {r}
  BY <1>3, <1>4 DEF LiveRefs
<1>8. ASSUME NEW q \in LiveRefs'
      PROVE  LiveOrders'[q] = IF q = r THEN o ELSE LiveOrders[q]
  <2>1. CASE q = r
    <3>1. (CHOOSE s \in Orders(q)' : TRUE) = i
      BY <1>3, <2>1
    <3> QED
      BY <1>1, <2>1, <3>1 DEF LiveOrders
  <2>2. CASE q # r
    <3>1. q \in LiveRefs /\ q \in Refs
      BY <1>7, <2>2 DEF LiveRefs
    <3> QED
      BY <1>1, <2>2, <3>1, OthersKept
  <2> QED
    BY <2>1, <2>2
<1>9. LiveOrders' = [q \in LiveRefs \cup {r} |-> IF q = r THEN o ELSE LiveOrders[q]]
  <2>1. LiveOrders' = [q \in LiveRefs' |-> LiveOrders'[q]]
    BY DEF LiveOrders
  <2> QED
    BY <1>7, <1>8, <2>1
<1>10. DOMAIN LiveOrders = LiveRefs
  BY DEF LiveOrders
<1> QED
  BY <1>2, <1>6, <1>9, <1>10 DEF Ref!Put

\* An order is overwritten in its slot.
LEMMA WriteOver ==
  ASSUME TypedMem, TableIsMap, NEW r \in Refs, NEW o \in Ords, NEW i \in Orders(r),
         mem' = [mem EXCEPT ![i] = Live(r, o)]
  PROVE  /\ TypedMem' /\ TableIsMap'
         /\ LiveOrders' = Ref!Put(LiveOrders, r, o)
<1>1. /\ i \in Slots /\ mem[i].state = "live" /\ mem[i].ref = r
      /\ \A s \in Slots : mem'[s] = IF s = i THEN Live(r, o) ELSE mem[s]
      /\ mem'[i].state = "live" /\ mem'[i].ref = r /\ mem'[i].order = o
  BY EntryFields DEF TypedMem, Orders
<1>2. TypedMem'
  BY <1>1 DEF TypedMem, Entries
<1>3. \A q \in Refs : Orders(q)' = Orders(q)
  BY <1>1 DEF Orders
<1>4. \A s \in Slots : mem'[s] = Empty => mem[s] = Empty
  BY <1>1, EntryFields
<1>5. TableIsMap'
  <2>1. ASSUME NEW q \in Refs, NEW s \in Orders(q)', NEW t \in Orders(q)'
        PROVE  s = t /\ Reachable(q, s)'
    <3>1. s = t /\ Reachable(q, s)
      BY <1>3, <2>1 DEF TableIsMap
    <3> QED
      BY <1>4, <3>1, StaysReachable
  <2> QED
    BY <2>1 DEF TableIsMap
<1>6. LiveRefs' = LiveRefs /\ r \in LiveRefs /\ LiveRefs \cup {r} = LiveRefs
  BY <1>3 DEF LiveRefs
<1>7. LiveOrders'[r] = o
  <2>1. Orders(r)' = {i}
    BY <1>3, LiveAt
  <2>2. (CHOOSE s \in Orders(r)' : TRUE) = i
    BY <2>1
  <2> QED
    BY <1>1, <1>6, <2>2 DEF LiveOrders
<1>8. \A q \in LiveRefs : q # r => LiveOrders'[q] = LiveOrders[q]
  BY <1>1, OthersKept DEF LiveRefs
<1>9. LiveOrders' = [q \in LiveRefs |-> IF q = r THEN o ELSE LiveOrders[q]]
  <2>1. LiveOrders' = [q \in LiveRefs' |-> LiveOrders'[q]]
    BY DEF LiveOrders
  <2> QED
    BY <1>6, <1>7, <1>8, <2>1
<1>10. DOMAIN LiveOrders = LiveRefs
  BY DEF LiveOrders
<1> QED
  BY <1>2, <1>5, <1>6, <1>9, <1>10 DEF Ref!Put

\* An order is taken out: a tombstone is left.
LEMMA WriteTomb ==
  ASSUME TypedMem, TableIsMap, NEW r \in Refs, NEW i \in Orders(r),
         mem' = [mem EXCEPT ![i] = Tomb]
  PROVE  /\ TypedMem' /\ TableIsMap'
         /\ LiveOrders' = Ref!Drop(LiveOrders, r)
<1>1. /\ i \in Slots /\ mem[i].state = "live" /\ mem[i].ref = r
      /\ \A s \in Slots : mem'[s] = IF s = i THEN Tomb ELSE mem[s]
      /\ mem'[i].state # "live"
  BY EntryFields DEF TypedMem, Orders
<1>2. TypedMem'
  BY <1>1 DEF TypedMem
<1>3. Orders(r)' = {}
  <2>1. Orders(r) = {i}
    BY LiveAt
  <2> QED
    BY <1>1, <2>1 DEF Orders
<1>4. \A q \in Refs : q # r => Orders(q)' = Orders(q)
  BY <1>1 DEF Orders
<1>5. \A s \in Slots : mem'[s] = Empty => mem[s] = Empty
  BY <1>1, EntryFields
<1>6. TableIsMap'
  <2>1. ASSUME NEW q \in Refs, NEW s \in Orders(q)', NEW t \in Orders(q)'
        PROVE  s = t /\ Reachable(q, s)'
    <3>1. s = t /\ Reachable(q, s)
      BY <1>3, <1>4, <2>1 DEF TableIsMap
    <3> QED
      BY <1>5, <3>1, StaysReachable
  <2> QED
    BY <2>1 DEF TableIsMap
<1>7. LiveRefs' = LiveRefs \ {r}
  BY <1>3, <1>4 DEF LiveRefs
<1>8. \A q \in LiveRefs : q # r => LiveOrders'[q] = LiveOrders[q]
  BY <1>1, OthersKept DEF LiveRefs
<1>9. LiveOrders' = [q \in LiveRefs \ {r} |-> LiveOrders[q]]
  <2>1. LiveOrders' = [q \in LiveRefs' |-> LiveOrders'[q]]
    BY DEF LiveOrders
  <2> QED
    BY <1>7, <1>8, <2>1
<1>10. DOMAIN LiveOrders = LiveRefs
  BY DEF LiveOrders
<1> QED
  BY <1>2, <1>6, <1>9, <1>10 DEF Ref!Drop

LEMMA TableSame ==
  ASSUME UNCHANGED mem
  PROVE  /\ TypedMem <=> TypedMem'
         /\ TableIsMap <=> TableIsMap'
         /\ LiveOrders' = LiveOrders /\ LiveRefs' = LiveRefs
<1>1. \A r \in Refs : Orders(r)' = Orders(r)
  BY DEF Orders
<1>2. LiveRefs' = LiveRefs
  BY <1>1 DEF LiveRefs
<1>3. LiveOrders' = LiveOrders
  BY DEF LiveOrders, LiveRefs, Orders
<1> QED
  BY <1>2, <1>3 DEF TypedMem, TableIsMap, Orders, Reachable

-----------------------------------------------------------------------------
(* The steps of the table. *)

Cmds ==
  {Insert(r, o, u) : r \in Refs, o \in Ords, u \in BOOLEAN}
  \cup {Lookup(r) : r \in Refs} \cup {Delete(r) : r \in Refs}

TypedTable ==
  /\ TypedMem
  /\ probe \in [state : {"idle", "hash", "home", "probe", "done"},
                cmd : Cmds \cup {NoCmd}, idx : Slots, n : 0 .. MaxProbe,
                tomb : Slots \cup {NoTomb}]
  /\ resp \in [done : BOOLEAN, found : BOOLEAN, order : Ords \cup {NoOrder},
               fails : BOOLEAN]

\* A search has passed slots that hold another reference or a tombstone, none of
\* them empty, and a tombstone it remembers is among them.
Searching ==
  /\ probe.state \in {"hash", "home", "probe"} => probe.cmd # NoCmd
  /\ probe.state = "probe" =>
       /\ probe.n > 0 /\ probe.idx = Window(probe.cmd.ref, probe.n - 1)
       /\ \A k \in 0 .. probe.n - 2 :
            /\ mem[Window(probe.cmd.ref, k)] # Empty
            /\ Window(probe.cmd.ref, k) \notin Orders(probe.cmd.ref)
       /\ probe.tomb # NoTomb =>
            /\ mem[probe.tomb] = Tomb
            /\ \E k \in 0 .. probe.n - 2 : Window(probe.cmd.ref, k) = probe.tomb

TInv == TypedTable /\ Searching /\ TableIsMap

\* What the table does for a command, in one step, and answers.
Executes(c) ==
  \/ /\ c.op = "insert" /\ c.ref \in LiveRefs /\ resp'.fails = resp.fails
     /\ resp'.found <=> ~c.unique
     /\ LiveOrders' = IF c.unique THEN LiveOrders ELSE Ref!Put(LiveOrders, c.ref, c.order)
  \/ /\ c.op = "insert" /\ c.ref \notin LiveRefs /\ resp'.fails = resp.fails
     /\ resp'.found
     /\ LiveOrders' = Ref!Put(LiveOrders, c.ref, c.order)
  \/ /\ c.op = "insert" /\ c.ref \notin LiveRefs /\ resp'.fails
     /\ LiveOrders' = LiveOrders
  \/ /\ c.op = "lookup" /\ resp'.fails = resp.fails
     /\ resp'.found <=> c.ref \in LiveRefs
     /\ c.ref \in LiveRefs => resp'.order = LiveOrders[c.ref]
     /\ LiveOrders' = LiveOrders
  \/ /\ c.op = "delete" /\ resp'.fails = resp.fails
     /\ LiveOrders' = IF c.ref \in LiveRefs THEN Ref!Drop(LiveOrders, c.ref)
                      ELSE LiveOrders

\* A clock of the table, as the engine sees it.
Accepts(cmd) ==
  /\ probe.state = "idle" /\ cmd # NoCmd
  /\ probe'.state = "hash" /\ probe'.cmd = cmd /\ ~resp'.done
  /\ LiveOrders' = LiveOrders /\ resp'.fails = resp.fails
Idles(cmd) ==
  /\ probe.state = "idle" /\ cmd = NoCmd
  /\ probe'.state = "idle" /\ ~resp'.done
  /\ LiveOrders' = LiveOrders /\ resp'.fails = resp.fails
Searches ==
  /\ probe.state \in {"hash", "home", "probe"}
  /\ probe'.state \in {"home", "probe"} /\ probe'.cmd = probe.cmd /\ ~resp'.done
  /\ LiveOrders' = LiveOrders /\ resp'.fails = resp.fails
Answers ==
  /\ probe.state = "probe" /\ probe'.state = "done" /\ ~resp'.done
  /\ Executes(probe.cmd)
Reports ==
  /\ probe.state = "done" /\ probe'.state = "idle" /\ resp'.done
  /\ resp'.found = resp.found /\ resp'.order = resp.order
  /\ LiveOrders' = LiveOrders /\ resp'.fails = resp.fails

TableMoves(cmd) == Accepts(cmd) \/ Idles(cmd) \/ Searches \/ Answers \/ Reports

LEMMA CmdKinds ==
  ASSUME NEW c \in Cmds
  PROVE  /\ c # NoCmd /\ c.op \in {"insert", "lookup", "delete"} /\ c.ref \in Refs
         /\ c.op = "insert" => c.order \in Ords /\ c.unique \in BOOLEAN
BY DEF Cmds, NoCmd, Insert, Lookup, Delete

LEMMA ProbeFields ==
  ASSUME NEW s, NEW c, NEW i, NEW n, NEW t
  PROVE  /\ Probe(s, c, i, n, t).state = s /\ Probe(s, c, i, n, t).cmd = c
         /\ Probe(s, c, i, n, t).idx = i /\ Probe(s, c, i, n, t).n = n
         /\ Probe(s, c, i, n, t).tomb = t
BY DEF Probe

LEMMA ProbeType ==
  ASSUME NEW s \in {"idle", "hash", "home", "probe", "done"},
         NEW c \in Cmds \cup {NoCmd}, NEW i \in Slots, NEW n \in 0 .. MaxProbe,
         NEW t \in Slots \cup {NoTomb}
  PROVE  Probe(s, c, i, n, t) \in
           [state : {"idle", "hash", "home", "probe", "done"},
            cmd : Cmds \cup {NoCmd}, idx : Slots, n : 0 .. MaxProbe,
            tomb : Slots \cup {NoTomb}]
BY DEF Probe

LEMMA QuietType ==
  ASSUME TypedTable, Quiet
  PROVE  /\ resp' \in [done : BOOLEAN, found : BOOLEAN, order : Ords \cup {NoOrder},
                       fails : BOOLEAN]
         /\ ~resp'.done /\ resp'.fails = resp.fails
BY DEF TypedTable, Quiet

LEMMA AnswerType ==
  ASSUME TypedTable, NEW found \in BOOLEAN, NEW order \in Ords \cup {NoOrder},
         Answer(found, order)
  PROVE  /\ resp' \in [done : BOOLEAN, found : BOOLEAN, order : Ords \cup {NoOrder},
                       fails : BOOLEAN]
         /\ ~resp'.done /\ resp'.fails = resp.fails
         /\ resp'.found = found /\ resp'.order = order
         /\ probe'.state = "done"
         /\ probe' = Probe("done", NoCmd, 0, 0, NoTomb)
BY DEF TypedTable, Answer, Probe

\* A search that has ended searches for nothing.
LEMMA EndedSearch ==
  ASSUME TypedTable, probe' = Probe("done", NoCmd, 0, 0, NoTomb)
  PROVE  /\ Searching' /\ probe'.state = "done"
         /\ probe' \in [state : {"idle", "hash", "home", "probe", "done"},
                        cmd : Cmds \cup {NoCmd}, idx : Slots, n : 0 .. MaxProbe,
                        tomb : Slots \cup {NoTomb}]
<1>1. 0 \in Slots /\ 0 \in 0 .. MaxProbe
  BY TableConstants DEF Slots
<1>2. probe'.state = "done"
  BY ProbeFields
<1> QED
  BY <1>1, <1>2, ProbeType DEF Searching

LEMMA ProbingIs ==
  ASSUME TInv, probe.state = "probe"
  PROVE  /\ probe.cmd \in Cmds /\ probe.cmd.ref \in Refs
         /\ probe.n \in 1 .. MaxProbe /\ probe.idx \in Slots
         /\ probe.idx = Window(probe.cmd.ref, probe.n - 1)
         /\ Hit <=> probe.idx \in Orders(probe.cmd.ref)
<1>1. probe.cmd \in Cmds /\ probe.n \in 0 .. MaxProbe /\ probe.n > 0 /\ probe.idx \in Slots
  BY DEF TInv, TypedTable, Searching
<1>2. probe.n \in 1 .. MaxProbe
  BY <1>1, TableConstants
<1> QED
  BY <1>1, <1>2, CmdKinds DEF TInv, Searching, Hit, Orders

LEMMA StepsOnStep ==
  ASSUME TInv, StepsOn
  PROVE  TInv' /\ Searches
<1>1. /\ probe.state = "probe" /\ ~Hit /\ ~AtEmpty /\ ~(probe.n >= MaxProbe)
      /\ UNCHANGED mem /\ Quiet
  BY DEF StepsOn, Probing, LastProbe
<1>0. PICK r \in Refs : r = probe.cmd.ref
  BY <1>1, ProbingIs
<1>2. /\ probe.cmd \in Cmds /\ probe.n \in 1 .. MaxProbe
      /\ probe.idx \in Slots /\ probe.idx = Window(r, probe.n - 1)
      /\ probe.idx \notin Orders(r) /\ mem[probe.idx] # Empty
  BY <1>0, <1>1, ProbingIs DEF AtEmpty
<1>3. probe.n < MaxProbe /\ probe.n + 1 \in 0 .. MaxProbe /\ probe.n + 1 > 0
  BY <1>1, <1>2, TableConstants
<1>4. NextSlot(probe.idx) = Window(r, probe.n) /\ Window(r, probe.n) \in Slots
  BY <1>2, <1>3, WindowNext
<1>5. /\ probe'.state = "probe" /\ probe'.cmd = probe.cmd
      /\ probe'.idx = NextSlot(probe.idx) /\ probe'.n = probe.n + 1
      /\ \/ probe'.tomb = probe.tomb
         \/ probe'.tomb = probe.idx /\ mem[probe.idx] = Tomb
      /\ probe' \in [state : {"idle", "hash", "home", "probe", "done"},
                     cmd : Cmds \cup {NoCmd}, idx : Slots, n : 0 .. MaxProbe,
                     tomb : Slots \cup {NoTomb}]
  BY <1>1, <1>2, <1>3, <1>4 DEF StepsOn, StepOn, TInv, TypedTable
<1>6. /\ TypedMem' /\ TableIsMap' /\ LiveOrders' = LiveOrders
      /\ \A q \in Refs : Orders(q)' = Orders(q)
  BY <1>1, TableSame DEF TInv, TypedTable, Orders
<1>7. TypedTable'
  BY <1>1, <1>5, <1>6, QuietType DEF TypedTable, TInv
<1>8. ASSUME NEW k \in 0 .. probe.n - 1
      PROVE  mem[Window(r, k)] # Empty /\ Window(r, k) \notin Orders(r)
  <2>1. CASE k = probe.n - 1
    BY <1>2, <2>1
  <2>2. CASE k # probe.n - 1
    <3>1. k \in 0 .. probe.n - 2
      BY <1>2, <2>2, TableConstants
    <3> QED
      BY <1>0, <1>1, <3>1 DEF TInv, Searching
  <2> QED
    BY <2>1, <2>2
<1>9. ASSUME probe'.tomb # NoTomb
      PROVE  /\ mem[probe'.tomb] = Tomb
             /\ \E k \in 0 .. probe.n - 1 : Window(r, k) = probe'.tomb
  <2>1. CASE probe'.tomb = probe.tomb
    <3>1. mem[probe.tomb] = Tomb /\ \E k \in 0 .. probe.n - 2 : Window(r, k) = probe.tomb
      BY <1>0, <1>1, <1>9, <2>1 DEF TInv, Searching
    <3>2. \A k \in 0 .. probe.n - 2 : k \in 0 .. probe.n - 1
      BY <1>2, TableConstants
    <3> QED
      BY <2>1, <3>1, <3>2
  <2>2. CASE probe'.tomb = probe.idx /\ mem[probe.idx] = Tomb
    <3>1. probe.n - 1 \in 0 .. probe.n - 1
      BY <1>2, TableConstants
    <3> QED
      BY <1>2, <2>2, <3>1
  <2> QED
    BY <1>5, <2>1, <2>2
<1>10. probe'.n - 2 = probe.n - 1 /\ probe'.n - 1 = probe.n
  BY <1>2, <1>5, TableConstants
<1>11. Searching'
  <2>1. probe'.cmd # NoCmd /\ probe'.n > 0 /\ probe'.idx = Window(r, probe'.n - 1)
    BY <1>2, <1>3, <1>4, <1>5, <1>10, CmdKinds
  <2>2. \A k \in 0 .. probe'.n - 2 : mem'[Window(r, k)] # Empty /\ Window(r, k) \notin Orders(r)'
    BY <1>1, <1>2, <1>6, <1>8, <1>10
  <2>3. probe'.tomb # NoTomb =>
          mem'[probe'.tomb] = Tomb /\ \E k \in 0 .. probe'.n - 2 : Window(r, k) = probe'.tomb
    BY <1>1, <1>9, <1>10
  <2>4. probe'.cmd.ref = r
    BY <1>0, <1>5
  <2>5. \A q, k : Window(q, k)' = Window(q, k)
    BY DEF Window
  <2> QED
    BY <2>1, <2>2, <2>3, <2>4, <2>5 DEF Searching
<1> QED
  BY <1>1, <1>5, <1>6, <1>7, <1>11, QuietType DEF TInv, Searches

LEMMA IdleStep ==
  ASSUME TInv, NEW cmd \in Cmds \cup {NoCmd}, TableIdle(cmd)
  PROVE  TInv' /\ (Accepts(cmd) \/ Idles(cmd))
<1>1. probe.state = "idle" /\ Quiet /\ UNCHANGED mem
  BY DEF TableIdle
<1>2. /\ TypedMem' /\ TableIsMap' /\ LiveOrders' = LiveOrders
  BY <1>1, TableSame DEF TInv, TypedTable
<1>3. 0 \in Slots /\ 0 \in 0 .. MaxProbe
  BY TableConstants DEF Slots
<1>4. CASE cmd = NoCmd
  BY <1>1, <1>2, <1>4, QuietType DEF TableIdle, TInv, TypedTable, Searching, Idles
<1>5. CASE cmd # NoCmd
  <2>1. probe' = Probe("hash", cmd, 0, 0, NoTomb)
    BY <1>5 DEF TableIdle
  <2>2. probe'.state = "hash" /\ probe'.cmd = cmd
    BY <2>1, ProbeFields
  <2> QED
    BY <1>1, <1>2, <1>3, <1>5, <2>1, <2>2, QuietType, ProbeType
    DEF TInv, TypedTable, Searching, Accepts
<1> QED
  BY <1>4, <1>5

LEMMA HashStep ==
  ASSUME TInv, TableHash
  PROVE  TInv' /\ Searches
<1>1. /\ probe.state = "hash" /\ Quiet /\ UNCHANGED mem
      /\ probe' = [probe EXCEPT !.state = "home"]
  BY DEF TableHash
<1>2. /\ TypedMem' /\ TableIsMap' /\ LiveOrders' = LiveOrders
  BY <1>1, TableSame DEF TInv, TypedTable
<1>3. /\ probe'.state = "home" /\ probe'.cmd = probe.cmd
      /\ probe' \in [state : {"idle", "hash", "home", "probe", "done"},
                     cmd : Cmds \cup {NoCmd}, idx : Slots, n : 0 .. MaxProbe,
                     tomb : Slots \cup {NoTomb}]
  BY <1>1 DEF TInv, TypedTable
<1> QED
  BY <1>1, <1>2, <1>3, QuietType DEF TInv, TypedTable, Searching, Searches

LEMMA HomeStep ==
  ASSUME TInv, TableHome
  PROVE  TInv' /\ Searches
<1>1. /\ probe.state = "home" /\ Quiet /\ UNCHANGED mem
      /\ probe' = Probe("probe", probe.cmd, Home[probe.cmd.ref], 1, NoTomb)
  BY DEF TableHome
<1>2. /\ TypedMem' /\ TableIsMap' /\ LiveOrders' = LiveOrders
  BY <1>1, TableSame DEF TInv, TypedTable
<1>3. probe.cmd \in Cmds
  BY <1>1 DEF TInv, TypedTable, Searching
<1>4. PICK r \in Refs : r = probe.cmd.ref
  BY <1>3, CmdKinds
<1>5. Home[r] \in Slots /\ Home[r] = Window(r, 0) /\ 1 \in 0 .. MaxProbe
  BY WindowFirst, TableConstants
<1>6. /\ probe'.state = "probe" /\ probe'.cmd = probe.cmd /\ probe'.n = 1
      /\ probe'.idx = Home[r] /\ probe'.tomb = NoTomb
  BY <1>1, <1>4, ProbeFields
<1>7. probe' \in [state : {"idle", "hash", "home", "probe", "done"},
                  cmd : Cmds \cup {NoCmd}, idx : Slots, n : 0 .. MaxProbe,
                  tomb : Slots \cup {NoTomb}]
  BY <1>1, <1>3, <1>4, <1>5, ProbeType
<1>8. Searching'
  BY <1>3, <1>4, <1>5, <1>6, CmdKinds DEF Searching, Window
<1> QED
  BY <1>1, <1>2, <1>6, <1>7, <1>8, QuietType DEF TInv, TypedTable, Searches

LEMMA OverLiveStep ==
  ASSUME TInv, InsertOverLive
  PROVE  TInv' /\ Answers
<1> DEFINE c == probe.cmd
<1>1. /\ probe.state = "probe" /\ c.op = "insert" /\ Hit
      /\ Answer(~c.unique, NoOrder)
      /\ IF c.unique THEN UNCHANGED mem ELSE Write(probe.idx)
  BY DEF InsertOverLive, Probing
<1>2. c \in Cmds /\ c.ref \in Refs /\ probe.idx \in Orders(c.ref)
      /\ c.order \in Ords /\ c.unique \in BOOLEAN
  BY <1>1, ProbingIs, CmdKinds
<1>3. /\ resp' \in [done : BOOLEAN, found : BOOLEAN, order : Ords \cup {NoOrder},
                    fails : BOOLEAN]
      /\ ~resp'.done /\ resp'.fails = resp.fails /\ resp'.found = ~c.unique
      /\ probe'.state = "done" /\ probe' = Probe("done", NoCmd, 0, 0, NoTomb)
  <2>1. (~c.unique) \in BOOLEAN
    OBVIOUS
  <2> QED
    BY <1>1, <2>1, AnswerType DEF TInv
<1>4. /\ TypedMem' /\ TableIsMap'
      /\ LiveOrders' = IF c.unique THEN LiveOrders
                       ELSE Ref!Put(LiveOrders, c.ref, c.order)
  <2>1. CASE c.unique
    BY <1>1, <2>1, TableSame DEF TInv, TypedTable
  <2>2. CASE ~c.unique
    <3>1. PICK r, o, i : r = c.ref /\ o = c.order /\ i = probe.idx
      OBVIOUS
    <3>2. mem' = [mem EXCEPT ![i] = Live(r, o)]
      BY <1>1, <2>2, <3>1 DEF Write
    <3>3. TypedMem' /\ TableIsMap' /\ LiveOrders' = Ref!Put(LiveOrders, r, o)
      BY <1>2, <3>1, <3>2, WriteOver DEF TInv, TypedTable
    <3> QED
      BY <2>2, <3>1, <3>3
  <2> QED
    BY <2>1, <2>2
<1>5. c.ref \in LiveRefs
  BY <1>2, LiveAt DEF TInv
<1>6. Executes(c)
  BY <1>1, <1>3, <1>4, <1>5 DEF Executes
<1> QED
  BY <1>1, <1>3, <1>4, <1>6, EndedSearch DEF TInv, TypedTable, Answers

\* The end of a search for a reference that is not in the table.
LEMMA SearchFails ==
  ASSUME TInv, probe.state = "probe", ~Hit, AtEmpty \/ LastProbe
  PROVE  Orders(probe.cmd.ref) = {} /\ probe.cmd.ref \notin LiveRefs
<1>1. PICK r \in Refs : r = probe.cmd.ref
  BY ProbingIs
<1>2. /\ probe.n \in 1 .. MaxProbe /\ probe.idx = Window(r, probe.n - 1)
      /\ probe.idx \notin Orders(r)
  BY <1>1, ProbingIs
<1>3. ASSUME NEW k \in 0 .. probe.n - 1 PROVE Window(r, k) \notin Orders(r)
  <2>1. CASE k = probe.n - 1
    BY <1>2, <2>1
  <2>2. CASE k # probe.n - 1
    <3>1. k \in 0 .. probe.n - 2
      BY <1>2, <2>2, TableConstants
    <3> QED
      BY <1>1, <3>1 DEF TInv, Searching
  <2> QED
    BY <2>1, <2>2
<1>4. mem[Window(r, probe.n - 1)] = Empty \/ probe.n >= MaxProbe
  BY <1>2 DEF AtEmpty, LastProbe
<1> QED
  BY <1>1, <1>2, <1>3, <1>4, NothingToFind DEF TInv

\* Where an insertion ends up a later search comes along.
LEMMA InsertedInReach ==
  ASSUME TInv, probe.state = "probe",
         NEW i, (i = probe.tomb /\ i # NoTomb) \/ i = probe.idx
  PROVE  /\ Reachable(probe.cmd.ref, i) /\ i \in Slots
         /\ i = probe.tomb /\ i # NoTomb => mem[i] = Tomb
<1>1. PICK r \in Refs : r = probe.cmd.ref
  BY ProbingIs
<1>2. probe.n \in 1 .. MaxProbe /\ probe.idx = Window(r, probe.n - 1)
  BY <1>1, ProbingIs
<1>3. \A k \in 0 .. probe.n - 2 : mem[Window(r, k)] # Empty
  BY <1>1 DEF TInv, Searching
<1>4. PICK k \in 0 .. probe.n - 1 : Window(r, k) = i
  <2>1. CASE i = probe.idx
    <3>1. probe.n - 1 \in 0 .. probe.n - 1
      BY <1>2, TableConstants
    <3> QED
      BY <1>2, <2>1, <3>1
  <2>2. CASE i # probe.idx
    <3>1. \E k \in 0 .. probe.n - 2 : Window(r, k) = i
      BY <1>1, <2>2 DEF TInv, Searching
    <3>2. \A k \in 0 .. probe.n - 2 : k \in 0 .. probe.n - 1
      BY <1>2, TableConstants
    <3> QED
      BY <3>1, <3>2
  <2> QED
    BY <2>1, <2>2
<1>5. k \in 0 .. MaxProbe - 1 /\ \A j \in 0 .. k - 1 : j \in 0 .. probe.n - 2
  BY <1>2, TableConstants
<1> QED
  BY <1>1, <1>3, <1>4, <1>5, WindowIs DEF Reachable, TInv, Searching

LEMMA InsertNewStep ==
  ASSUME TInv, NEW i, (i = probe.tomb /\ i # NoTomb) \/ (i = probe.idx /\ AtEmpty),
         Probing({"insert"}), ~Hit, AtEmpty \/ LastProbe,
         Write(i), Answer(TRUE, NoOrder)
  PROVE  TInv' /\ Answers
<1> DEFINE c == probe.cmd
<1>1. /\ probe.state = "probe" /\ c.op = "insert"
  BY DEF Probing
<1>2. c \in Cmds /\ c.ref \in Refs /\ c.order \in Ords
  BY <1>1, ProbingIs, CmdKinds
<1>3. /\ resp' \in [done : BOOLEAN, found : BOOLEAN, order : Ords \cup {NoOrder},
                    fails : BOOLEAN]
      /\ ~resp'.done /\ resp'.fails = resp.fails /\ resp'.found = TRUE
      /\ probe'.state = "done" /\ probe' = Probe("done", NoCmd, 0, 0, NoTomb)
  BY AnswerType DEF TInv
<1>4. Orders(c.ref) = {} /\ c.ref \notin LiveRefs
  BY <1>1, SearchFails
<1>5. Reachable(c.ref, i) /\ i \in Slots /\ (mem[i] = Empty \/ mem[i] = Tomb)
  BY <1>1, InsertedInReach DEF AtEmpty
<1>6. TypedMem' /\ TableIsMap' /\ LiveOrders' = Ref!Put(LiveOrders, c.ref, c.order)
  <2>1. PICK r, o : r = c.ref /\ o = c.order
    OBVIOUS
  <2>2. mem' = [mem EXCEPT ![i] = Live(r, o)]
    BY <2>1 DEF Write
  <2>3. TypedMem' /\ TableIsMap' /\ LiveOrders' = Ref!Put(LiveOrders, r, o)
    BY <1>2, <1>4, <1>5, <2>1, <2>2, WriteNew DEF TInv, TypedTable
  <2> QED
    BY <2>1, <2>3
<1>7. Executes(c)
  BY <1>1, <1>3, <1>4, <1>6 DEF Executes
<1> QED
  BY <1>1, <1>3, <1>6, <1>7, EndedSearch DEF TInv, TypedTable, Answers

LEMMA InsertFailsStep ==
  ASSUME TInv, InsertFails
  PROVE  TInv' /\ Answers
<1>1. /\ probe.state = "probe" /\ probe.cmd.op = "insert" /\ ~Hit /\ LastProbe
      /\ probe' = Probe("done", NoCmd, 0, 0, NoTomb) /\ UNCHANGED mem
      /\ resp' = [resp EXCEPT !.done = FALSE, !.order = NoOrder, !.fails = TRUE]
  BY DEF InsertFails, Probing
<1>2. /\ resp' \in [done : BOOLEAN, found : BOOLEAN, order : Ords \cup {NoOrder},
                    fails : BOOLEAN]
      /\ ~resp'.done /\ resp'.fails
  BY <1>1 DEF TInv, TypedTable
<1>3. TypedMem' /\ TableIsMap' /\ LiveOrders' = LiveOrders
  BY <1>1, TableSame DEF TInv, TypedTable
<1>4. Executes(probe.cmd)
  BY <1>1, <1>2, <1>3, SearchFails DEF Executes
<1> QED
  BY <1>1, <1>2, <1>3, <1>4, EndedSearch DEF TInv, TypedTable, Answers

LEMMA FindsStep ==
  ASSUME TInv, Finds
  PROVE  TInv' /\ Answers
<1> DEFINE c == probe.cmd
           i == probe.idx
<1>1. /\ probe.state = "probe" /\ c.op \in {"lookup", "delete"} /\ Hit
      /\ Answer(TRUE, mem[i].order)
      /\ IF c.op = "delete" THEN mem' = [mem EXCEPT ![i] = Tomb] ELSE UNCHANGED mem
  BY DEF Finds, Probing
<1>2. c \in Cmds /\ c.ref \in Refs /\ i \in Orders(c.ref)
  BY <1>1, ProbingIs
<1>3. c.ref \in LiveRefs /\ LiveOrders[c.ref] = mem[i].order /\ mem[i].order \in Ords
  BY <1>2, LiveAt, SlotKinds DEF TInv, TypedTable, Orders
<1>4. /\ resp' \in [done : BOOLEAN, found : BOOLEAN, order : Ords \cup {NoOrder},
                    fails : BOOLEAN]
      /\ ~resp'.done /\ resp'.fails = resp.fails /\ resp'.found = TRUE
      /\ resp'.order = mem[i].order
      /\ probe'.state = "done" /\ probe' = Probe("done", NoCmd, 0, 0, NoTomb)
  BY <1>1, <1>3, AnswerType DEF TInv
<1>5. CASE c.op = "delete"
  <2>1. PICK r, j : r = c.ref /\ j = i
    OBVIOUS
  <2>2. mem' = [mem EXCEPT ![j] = Tomb]
    BY <1>1, <1>5, <2>1
  <2>3. TypedMem' /\ TableIsMap' /\ LiveOrders' = Ref!Drop(LiveOrders, r)
    BY <1>2, <2>1, <2>2, WriteTomb DEF TInv, TypedTable
  <2>4. Executes(c)
    BY <1>3, <1>4, <1>5, <2>1, <2>3 DEF Executes
  <2> QED
    BY <1>1, <1>4, <2>3, <2>4, EndedSearch DEF TInv, TypedTable, Answers
<1>6. CASE c.op = "lookup"
  <2>1. TypedMem' /\ TableIsMap' /\ LiveOrders' = LiveOrders
    BY <1>1, <1>6, TableSame DEF TInv, TypedTable
  <2>2. Executes(c)
    BY <1>3, <1>4, <1>6, <2>1 DEF Executes
  <2> QED
    BY <1>1, <1>4, <2>1, <2>2, EndedSearch DEF TInv, TypedTable, Answers
<1> QED
  BY <1>1, <1>5, <1>6

LEMMA MissesStep ==
  ASSUME TInv, Misses
  PROVE  TInv' /\ Answers
<1>1. /\ probe.state = "probe" /\ probe.cmd.op \in {"lookup", "delete"} /\ ~Hit
      /\ (AtEmpty \/ LastProbe) /\ Answer(FALSE, NoOrder) /\ UNCHANGED mem
  BY DEF Misses, Probing
<1>2. /\ resp' \in [done : BOOLEAN, found : BOOLEAN, order : Ords \cup {NoOrder},
                    fails : BOOLEAN]
      /\ ~resp'.done /\ resp'.fails = resp.fails /\ resp'.found = FALSE
      /\ probe'.state = "done" /\ probe' = Probe("done", NoCmd, 0, 0, NoTomb)
  BY <1>1, AnswerType DEF TInv
<1>3. TypedMem' /\ TableIsMap' /\ LiveOrders' = LiveOrders
  BY <1>1, TableSame DEF TInv, TypedTable
<1>4. Executes(probe.cmd)
  BY <1>1, <1>2, <1>3, SearchFails DEF Executes
<1> QED
  BY <1>1, <1>2, <1>3, <1>4, EndedSearch DEF TInv, TypedTable, Answers

LEMMA DoneStep ==
  ASSUME TInv, TableDone
  PROVE  TInv' /\ Reports
<1>1. /\ probe.state = "done" /\ probe' = Probe("idle", NoCmd, 0, 0, NoTomb)
      /\ resp' = [resp EXCEPT !.done = TRUE] /\ UNCHANGED mem
  BY DEF TableDone, IdleProbe
<1>2. /\ resp' \in [done : BOOLEAN, found : BOOLEAN, order : Ords \cup {NoOrder},
                    fails : BOOLEAN]
      /\ resp'.done /\ resp'.fails = resp.fails /\ resp'.found = resp.found
      /\ resp'.order = resp.order
  BY <1>1 DEF TInv, TypedTable
<1>3. TypedMem' /\ TableIsMap' /\ LiveOrders' = LiveOrders
  BY <1>1, TableSame DEF TInv, TypedTable
<1>4. 0 \in Slots /\ 0 \in 0 .. MaxProbe
  BY TableConstants DEF Slots
<1>5. probe'.state = "idle"
  BY <1>1, ProbeFields
<1> QED
  BY <1>1, <1>2, <1>3, <1>4, <1>5, ProbeType DEF TInv, TypedTable, Searching, Reports

\* Each clock keeps the table a map and does what the engine takes it to do.
LEMMA TableStep ==
  ASSUME TInv, NEW cmd \in Cmds \cup {NoCmd}, TableClock(cmd)
  PROVE  TInv' /\ TableMoves(cmd)
<1>1. CASE TableIdle(cmd)
  BY <1>1, IdleStep DEF TableMoves
<1>2. CASE TableHash
  BY <1>2, HashStep DEF TableMoves
<1>3. CASE TableHome
  BY <1>3, HomeStep DEF TableMoves
<1>4. CASE InsertOverLive
  BY <1>4, OverLiveStep DEF TableMoves
<1>5. CASE InsertAtEmpty
  <2>1. PICK i : i = IF probe.tomb # NoTomb THEN probe.tomb ELSE probe.idx
    OBVIOUS
  <2>2. Write(IF probe.tomb # NoTomb THEN probe.tomb ELSE probe.idx)
        /\ AtEmpty /\ Probing({"insert"}) /\ Answer(TRUE, NoOrder)
    BY <1>5 DEF InsertAtEmpty
  <2>3. Write(i) /\ ~Hit
    BY <2>1, <2>2 DEF Write, Hit, AtEmpty, Empty
  <2>4. \/ i = probe.tomb /\ i # NoTomb
        \/ i = probe.idx /\ AtEmpty
    BY <2>1, <2>2
  <2>5. TInv' /\ Answers
    BY <2>2, <2>3, <2>4, InsertNewStep
  <2> QED
    BY <2>5 DEF TableMoves
<1>6. CASE InsertAtTomb
  <2>1. /\ probe.tomb # NoTomb /\ ~Hit /\ (AtEmpty \/ LastProbe) /\ Probing({"insert"})
        /\ Answer(TRUE, NoOrder)
    BY <1>6 DEF InsertAtTomb
  <2>2. PICK i : i = probe.tomb
    OBVIOUS
  <2>3. Write(i)
    BY <1>6, <2>2 DEF InsertAtTomb, Write
  <2>4. \/ i = probe.tomb /\ i # NoTomb
        \/ i = probe.idx /\ AtEmpty
    BY <2>1, <2>2
  <2>5. TInv' /\ Answers
    BY <2>1, <2>3, <2>4, InsertNewStep
  <2> QED
    BY <2>5 DEF TableMoves
<1>7. CASE InsertFails
  BY <1>7, InsertFailsStep DEF TableMoves
<1>8. CASE Finds
  BY <1>8, FindsStep DEF TableMoves
<1>9. CASE Misses
  BY <1>9, MissesStep DEF TableMoves
<1>10. CASE StepsOn
  BY <1>10, StepsOnStep DEF TableMoves
<1>11. CASE TableDone
  BY <1>11, DoneStep DEF TableMoves
<1> QED
  BY <1>1, <1>2, <1>3, <1>4, <1>5, <1>6, <1>7, <1>8, <1>9, <1>10, <1>11 DEF TableClock

-----------------------------------------------------------------------------
(* The invariant of the engine and its requests. *)

Requesting == {"add_tbl", "lk", "mod_tbl", "radd_tbl"}
Removing == {"mod_tbl", "empty", "empty_wait", "radd_tbl", "radd_lvl"}
States == Requesting \cup Removing \cup {"idle", "add_lvl", "mod_lvl", "finish"}
Modifies == {"exec", "exec_pr", "cancel", "delete", "replace"}
Tables == UNION {[rs -> Ords] : rs \in SUBSET Refs}

TypedEng ==
  /\ eng \in [state : States, msg : Msgs \cup {NoMsg}, rest : Ords \cup {NoOrder},
              rem : 0 .. SharesMod - 1, emptied : BOOLEAN, addr : Addrs,
              req : BOOLEAN, expect : BOOLEAN, seen : BOOLEAN]
  /\ pulse.cmd \in Cmds \cup {NoCmd}
  /\ pulse.done \in Msgs \cup {NoMsg}
  /\ band \in [valid : BOOLEAN, base : 0 .. PriceMod - 1]
  /\ before \in Tables

\* The command a state of the engine asks for.
Wanted ==
  LET m == eng.msg
  IN  CASE eng.state = "add_tbl" -> Insert(m.ref, Order(m.side, m.price, m.shares), TRUE)
        [] eng.state = "lk" -> Lookup(m.ref)
        [] eng.state = "mod_tbl" ->
             IF eng.rem = 0 THEN Delete(m.ref)
             ELSE Insert(m.ref, [eng.rest EXCEPT !.shares = eng.rem], FALSE)
        [] OTHER -> Insert(m.nref, Order(eng.rest.side, m.price, m.shares), TRUE)

\* The table works on the engine's command, once, and on no other.
Handshake ==
  /\ eng.req => eng.state \in Requesting
  /\ ~eng.req => probe.state = "idle" /\ pulse.cmd = NoCmd /\ ~resp.done
  /\ eng.req =>
       \/ probe.state = "idle" /\ pulse.cmd = Wanted /\ ~resp.done
       \/ /\ probe.state \in {"hash", "home", "probe"} /\ probe.cmd = Wanted
          /\ pulse.cmd = NoCmd /\ ~resp.done
       \/ probe.state = "done" /\ pulse.cmd = NoCmd /\ ~resp.done
       \/ probe.state = "idle" /\ pulse.cmd = NoCmd /\ resp.done

\* The command has been executed.
Executed == eng.req /\ (probe.state = "done" \/ resp.done)

\* What a message makes of the orders, in its two halves, with the band at base.
Adds(base, os, r, side, m) ==
  IF r \in DOMAIN os \/ ~InWindow(base, m.price) THEN os
  ELSE Ref!Put(os, r, Order(side, m.price, m.shares))

Left(os, m) ==
  IF m.type \in {"delete", "replace"} \/ os[m.ref].shares <= m.shares
  THEN Ref!Drop(os, m.ref) ELSE [os EXCEPT ![m.ref].shares = @ - m.shares]

Result(base, os, m) ==
  IF m.type = "add" THEN Adds(base, os, m.ref, m.side, m)
  ELSE IF m.type \notin Modifies \/ m.ref \notin DOMAIN os THEN os
  ELSE IF m.type = "replace" THEN Adds(base, Left(os, m), m.nref, os[m.ref].side, m)
  ELSE Left(os, m)

\* What the registers say of the message, state by state.
Registers ==
  LET m == eng.msg
      s == eng.state
  IN  /\ pulse.done # NoMsg => s = "idle"
      /\ s \in {"add_tbl", "add_lvl"} => m.type = "add" /\ InWindow(band.base, m.price)
      /\ s \in {"lk", "mod_lvl"} \cup Removing => m.type \in Modifies
      /\ s \in {"radd_tbl", "radd_lvl"} => m.type = "replace" /\ InWindow(band.base, m.price)
      /\ s \in {"add_lvl", "radd_lvl"} => eng.addr = LevelAddr(m.price)
      /\ s \in {"mod_lvl"} \cup Removing => eng.rest # NoOrder
      /\ s \in {"mod_lvl", "mod_tbl", "empty", "empty_wait"} =>
           eng.addr = LevelAddr(eng.rest.price)
      /\ s = "mod_tbl" => eng.rem = eng.rest.shares - Amount
      /\ s \notin {"idle", "lk", "finish"} => band.valid
      /\ LiveRefs # {} => band.valid

\* A failed insertion ends the message: no removal follows it.
Failing ==
  resp.fails => \/ eng.state \in {"idle", "add_lvl", "radd_lvl", "finish"}
                \/ eng.state \in {"add_tbl", "radd_tbl"} /\ Executed

\* How far the message has come with the orders there were when it was taken.
Added == Ref!Put(before, eng.msg.ref, Order(eng.msg.side, eng.msg.price, eng.msg.shares))
Remaining == Left(before, eng.msg)
Readded ==
  Ref!Put(Remaining, eng.msg.nref, Order(eng.rest.side, eng.msg.price, eng.msg.shares))

Progress ==
  LET m == eng.msg
      s == eng.state
  IN  /\ s = "idle" /\ pulse.done # NoMsg => LiveOrders = Result(band.base, before, pulse.done)
      /\ s = "add_tbl" =>
           IF ~Executed THEN LiveOrders = before
           ELSE IF resp.found THEN m.ref \notin DOMAIN before /\ LiveOrders = Added
           ELSE m.ref \in DOMAIN before /\ LiveOrders = before
      /\ s = "add_lvl" => m.ref \notin DOMAIN before /\ LiveOrders = Added
      /\ s = "lk" =>
           /\ LiveOrders = before
           /\ Executed =>
                /\ resp.found <=> m.ref \in DOMAIN before
                /\ resp.found => resp.order = before[m.ref]
      /\ s \in {"mod_lvl"} \cup Removing =>
           m.ref \in DOMAIN before /\ eng.rest = before[m.ref]
      /\ s = "mod_lvl" => LiveOrders = before
      /\ s = "mod_tbl" => LiveOrders = IF Executed THEN Remaining ELSE before
      /\ s \in {"empty", "empty_wait"} => LiveOrders = Remaining
      /\ s = "radd_tbl" =>
           IF ~Executed THEN LiveOrders = Remaining
           ELSE IF resp.found THEN m.nref \notin DOMAIN Remaining /\ LiveOrders = Readded
           ELSE m.nref \in DOMAIN Remaining /\ LiveOrders = Remaining
      /\ s = "radd_lvl" => m.nref \notin DOMAIN Remaining /\ LiveOrders = Readded
      /\ s = "finish" => LiveOrders = Result(band.base, before, m)

EngInv == TypedEng /\ Handshake /\ Registers /\ Failing /\ (~resp.fails => Progress)
EInv == TInv /\ EngInv

-----------------------------------------------------------------------------
(* Messages and addresses. *)

LEMMA EngineConstants ==
  /\ SharesMod \in Nat /\ SharesMod > 0 /\ PriceMod \in Nat /\ PriceLevels \in Nat
  /\ PriceLevels > 0 /\ PriceLevels <= PriceMod
BY EngineAssumption, TrackerAssumption

LEMMA LessThanRelation ==
  OpToRel(<, Nat) = {ss \in Nat \X Nat : ss[1] < ss[2]}
BY DEF OpToRel

LEMMA LeastExists ==
  ASSUME NEW T \in SUBSET Nat, T # {}
  PROVE  \E x \in T : \A y \in T : x <= y
<1>1. PICK R : R = {ss \in Nat \X Nat : ss[1] < ss[2]}
  OBVIOUS
<1>2. IsWellFoundedOn(R, Nat)
  BY <1>1, LessThanRelation, NatLessThanWellFounded
<1>3. PICK x \in T : \A y \in T : ~(<<y, x>> \in R)
  BY <1>2, WFMin
<1>4. ASSUME NEW y \in T PROVE x <= y
  <2>1. <<y, x>> \in Nat \X Nat
    OBVIOUS
  <2>2. ~(y < x)
    BY <2>1, <1>1, <1>3
  <2> QED
    BY <2>2
<1> QED
  BY <1>4

LEMMA LeastIn ==
  ASSUME NEW T \in SUBSET Nat, T # {}
  PROVE  Min(T) \in T
BY LeastExists DEF Min

LEMMA MsgFields ==
  ASSUME NEW m \in Msgs
  PROVE  /\ m.type \in Modifies \cup {"add", "trade", "system"} /\ m # NoMsg
         /\ m.type = "add" => /\ m.ref \in Refs /\ m.side \in Sides
                              /\ m.price \in Prices /\ m.shares \in AddQtys
         /\ m.type \in Modifies => m.ref \in Refs
         /\ m.type \in {"exec", "exec_pr", "cancel"} => m.shares \in TakeQtys
         /\ m.type = "replace" => /\ m.nref \in Refs /\ m.price \in Prices
                                  /\ m.shares \in AddQtys
<1>1. AddQtys \in SUBSET Nat /\ TakeQtys \in SUBSET Nat
  BY BookAssumption, EngineConstants
<1>2. Min(AddQtys) \in AddQtys /\ Min(TakeQtys) \in TakeQtys
  BY <1>1, LeastIn, BookAssumption
<1> QED
  BY <1>2 DEF Msgs, NoMsg, Modifies

LEMMA OrderType ==
  ASSUME NEW side \in Sides, NEW p \in Prices, NEW q \in AddQtys
  PROVE  /\ Order(side, p, q) \in Ords
         /\ Order(side, p, q).side = side /\ Order(side, p, q).price = p
         /\ Order(side, p, q).shares = q
BY BookAssumption DEF Order, Ords

LEMMA LevelAddrType ==
  ASSUME TypedEng, NEW p \in 0 .. PriceMod - 1
  PROVE  LevelAddr(p) \in Addrs
<1> DEFINE d == p - band.base
<1>1. d \in Int
  BY EngineConstants DEF TypedEng
<1> HIDE DEF d
<1>2. d % PriceLevels \in 0 .. PriceLevels - 1
  BY <1>1, EngineConstants
<1> QED
  BY <1>2 DEF LevelAddr, Addrs, d

LEMMA OutcomeIs ==
  ASSUME NEW os, NEW m \in Msgs
  PROVE  Outcome(os, m) = Result(band.base, os, m)
<1>1. CASE m.type = "add"
  BY <1>1 DEF Outcome, Adds, Result
<1>2. CASE m.type \in {"trade", "system"}
  BY <1>2 DEF Outcome, Modifies, Result
<1>3. CASE m.type \in Modifies
  <2>1. m.type # "add" /\ m.type \notin {"trade", "system"}
    BY <1>3 DEF Modifies
  <2> QED
    BY <1>3, <2>1 DEF Outcome, Adds, Left, Result
<1> QED
  BY <1>1, <1>2, <1>3, MsgFields

LEMMA RecordFields ==
  ASSUME NEW r, NEW o, NEW u
  PROVE  /\ Insert(r, o, u).op = "insert" /\ Insert(r, o, u).ref = r
         /\ Insert(r, o, u).order = o /\ Insert(r, o, u).unique = u
         /\ Lookup(r).op = "lookup" /\ Lookup(r).ref = r
         /\ Delete(r).op = "delete" /\ Delete(r).ref = r
BY DEF Insert, Lookup, Delete

-----------------------------------------------------------------------------
(* The steps of the engine that ask the table for nothing. *)

LEMMA PulseFields ==
  /\ NoPulse.cmd = NoCmd /\ NoPulse.bt = NoRequest /\ NoPulse.done = NoMsg
  /\ \A x : /\ [NoPulse EXCEPT !.trade = x].cmd = NoCmd
            /\ [NoPulse EXCEPT !.trade = x].bt = NoRequest
            /\ [NoPulse EXCEPT !.trade = x].done = NoMsg
            /\ [NoPulse EXCEPT !.cmd = x].cmd = x
            /\ [NoPulse EXCEPT !.cmd = x].bt = NoRequest
            /\ [NoPulse EXCEPT !.cmd = x].done = NoMsg
            /\ [NoPulse EXCEPT !.bt = x].cmd = NoCmd
            /\ [NoPulse EXCEPT !.bt = x].bt = x
            /\ [NoPulse EXCEPT !.bt = x].done = NoMsg
            /\ [NoPulse EXCEPT !.done = x].cmd = NoCmd
            /\ [NoPulse EXCEPT !.done = x].bt = NoRequest
            /\ [NoPulse EXCEPT !.done = x].done = x
BY DEF NoPulse

LEMMA IdleEngFields ==
  /\ IdleEng \in [state : States, msg : Msgs \cup {NoMsg}, rest : Ords \cup {NoOrder},
                  rem : 0 .. SharesMod - 1, emptied : BOOLEAN, addr : Addrs,
                  req : BOOLEAN, expect : BOOLEAN, seen : BOOLEAN]
  /\ IdleEng.state = "idle" /\ IdleEng.msg = NoMsg /\ ~IdleEng.req
<1>1. 0 \in Addrs /\ 0 \in 0 .. SharesMod - 1 /\ "idle" \in States
  BY EngineConstants DEF Addrs, States
<1> QED
  BY <1>1 DEF IdleEng

\* When nothing is asked of the table, it rests.
LEMMA Calm ==
  ASSUME EInv, ~eng.req, TInv', TableMoves(pulse.cmd)
  PROVE  /\ probe'.state = "idle" /\ ~resp'.done /\ resp'.fails = resp.fails
         /\ LiveOrders' = LiveOrders /\ LiveRefs' = LiveRefs
<1>1. pulse.cmd = NoCmd /\ probe.state = "idle"
  BY DEF EInv, EngInv, Handshake
<1>2. Idles(NoCmd)
  BY <1>1 DEF TableMoves, Accepts, Idles, Searches, Answers, Reports
<1>3. LiveRefs' = DOMAIN LiveOrders' /\ LiveRefs = DOMAIN LiveOrders
  BY DEF LiveOrders
<1> QED
  BY <1>2, <1>3 DEF Idles

\* A step after which nothing is asked of the table either.
LEMMA StaysCalm ==
  ASSUME EInv, ~eng.req, TInv', TableMoves(pulse.cmd), ~eng'.req, pulse'.cmd = NoCmd
  PROVE  Handshake' /\ ~Executed' /\ (resp.fails <=> resp'.fails)
BY Calm DEF Handshake, Executed

LEMMA NoRequestUnlessAsking ==
  ASSUME EInv, eng.state \notin Requesting
  PROVE  ~eng.req
BY DEF EInv, EngInv, Handshake

\* The table before any message is a table.
LEMMA NoOrdersType == NoOrders \in Tables
<1>1. NoOrders \in [{} -> Ords]
  BY DEF NoOrders
<1> QED
  BY <1>1 DEF Tables

LEMMA RestStep ==
  ASSUME EInv, TInv', TableMoves(pulse.cmd), Rest, before' = NoOrders
  PROVE  EngInv'
<1>1. eng.state = "idle" /\ eng' = IdleEng /\ pulse' = NoPulse /\ band' = band
  BY DEF Rest, Quietly, KeepsBook
<1>2. ~eng.req
  BY <1>1, NoRequestUnlessAsking DEF Requesting
<1>3. eng'.state = "idle" /\ ~eng'.req /\ pulse'.cmd = NoCmd /\ pulse'.done = NoMsg
  BY <1>1, IdleEngFields, PulseFields
<1>4. before' \in Tables
  BY NoOrdersType
<1>5. TypedEng'
  BY <1>1, <1>3, <1>4, IdleEngFields DEF TypedEng, EInv, EngInv
<1>6. Handshake' /\ ~Executed' /\ LiveRefs' = LiveRefs
  BY <1>2, <1>3, StaysCalm, Calm
<1>7. Registers'
  BY <1>1, <1>3, <1>6 DEF Registers, EInv, EngInv, Removing
<1>8. Failing' /\ Progress'
  BY <1>3 DEF Failing, Progress, Removing
<1> QED
  BY <1>5, <1>6, <1>7, <1>8 DEF EngInv

\* The first Add puts the band around its own price.
LEMMA FirstBand ==
  ASSUME TypedEng, NEW p \in Prices
  PROVE  /\ BaseEff(p) \in 0 .. PriceMod - 1
         /\ ~InWindow(BaseEff(p), p) => BaseEff(p) = band.base
<1> DEFINE h == BandHalf
<1>1. h \in Nat /\ h < PriceLevels
  BY EngineConstants DEF BandHalf
<1>2. p \in Nat /\ p < PriceMod
  BY BookAssumption, EngineConstants
<1> HIDE DEF h
<1>3. CASE band.valid \/ ~AutoInit
  BY <1>3 DEF BaseEff, TypedEng
<1>4. CASE ~(band.valid \/ ~AutoInit)
  <2>1. BaseEff(p) = IF p > h THEN p - h ELSE 0
    BY <1>4 DEF BaseEff, h
  <2>2. PICK d \in Nat : d = p - BaseEff(p) /\ d < PriceLevels /\ d < PriceMod
    BY <1>1, <1>2, <2>1, EngineConstants
  <2>3. d % PriceMod = d
    BY <2>2, EngineConstants
  <2>4. InWindow(BaseEff(p), p)
    BY <2>2, <2>3 DEF InWindow
  <2> QED
    BY <1>1, <1>2, <2>1, <2>4, EngineConstants
<1> QED
  BY <1>3, <1>4

LEMMA LiveOrdersTable ==
  ASSUME TInv
  PROVE  LiveOrders \in Tables
BY LiveOrdersType DEF TInv, TypedTable, Tables

LEMMA TakeAddStep ==
  ASSUME EInv, TInv', TableMoves(pulse.cmd), NEW m \in Msgs, TakeAdd(m),
         ~resp.fails, before' = LiveOrders
  PROVE  EngInv'
<1> DEFINE base == BaseEff(m.price)
           in == InWindow(base, m.price)
<1>1. /\ eng.state = "idle" /\ m.type = "add" /\ pulse' = NoPulse
      /\ eng' = [IdleEng EXCEPT !.msg = m, !.state = IF in THEN "add_tbl" ELSE "finish"]
      /\ band' = IF in THEN [valid |-> TRUE, base |-> base] ELSE band
  BY DEF TakeAdd, Quietly
<1>2. m.price \in Prices
  BY <1>1, MsgFields
<1>3. base \in 0 .. PriceMod - 1 /\ (~in => base = band.base)
  BY <1>2, FirstBand DEF EInv, EngInv
<1> HIDE DEF base, in
<1>4. ~eng.req
  BY <1>1, NoRequestUnlessAsking DEF Requesting
<1>5. /\ eng'.state = IF in THEN "add_tbl" ELSE "finish"
      /\ eng'.msg = m /\ ~eng'.req /\ pulse'.cmd = NoCmd /\ pulse'.done = NoMsg
      /\ eng' \in [state : States, msg : Msgs \cup {NoMsg}, rest : Ords \cup {NoOrder},
                   rem : 0 .. SharesMod - 1, emptied : BOOLEAN, addr : Addrs,
                   req : BOOLEAN, expect : BOOLEAN, seen : BOOLEAN]
  BY <1>1, IdleEngFields, PulseFields DEF States, Requesting
<1>6. band'.base = base /\ (in => band'.valid) /\ (~in => band' = band)
  BY <1>1, <1>3
<1>7. TypedEng'
  <2>1. band' \in [valid : BOOLEAN, base : 0 .. PriceMod - 1]
    BY <1>1, <1>3 DEF EInv, EngInv, TypedEng
  <2> QED
    BY <1>5, <2>1, LiveOrdersTable DEF TypedEng, EInv
<1>8. Handshake' /\ ~Executed' /\ LiveRefs' = LiveRefs /\ LiveOrders' = LiveOrders /\ ~resp'.fails
  BY <1>4, <1>5, StaysCalm, Calm
<1>9. Registers'
  BY <1>1, <1>5, <1>6, <1>8 DEF Registers, EInv, EngInv, Removing, in, base
<1>10. Progress'
  <2>1. CASE in
    BY <1>5, <1>8, <2>1 DEF Progress, Removing
  <2>2. CASE ~in
    <3>1. Result(base, LiveOrders, m) = LiveOrders
      BY <1>1, <2>2 DEF Result, Adds, in, base
    <3> QED
      BY <1>5, <1>6, <1>8, <2>2, <3>1 DEF Progress, Removing
  <2> QED
    BY <2>1, <2>2
<1> QED
  BY <1>7, <1>8, <1>9, <1>10 DEF EngInv, Failing

LEMMA TakeModifyStep ==
  ASSUME EInv, TInv', TableMoves(pulse.cmd), NEW m \in Msgs, TakeModify(m),
         ~resp.fails, before' = LiveOrders
  PROVE  EngInv'
<1>1. /\ eng.state = "idle" /\ m.type \in Modifies /\ pulse' = NoPulse /\ band' = band
      /\ eng' = [IdleEng EXCEPT !.msg = m, !.state = "lk"]
  BY DEF TakeModify, Quietly, KeepsBook, Modifies
<1>2. ~eng.req
  BY <1>1, NoRequestUnlessAsking DEF Requesting
<1>3. /\ eng'.state = "lk"
      /\ eng'.msg = m /\ ~eng'.req /\ pulse'.cmd = NoCmd /\ pulse'.done = NoMsg
      /\ eng' \in [state : States, msg : Msgs \cup {NoMsg}, rest : Ords \cup {NoOrder},
                   rem : 0 .. SharesMod - 1, emptied : BOOLEAN, addr : Addrs,
                   req : BOOLEAN, expect : BOOLEAN, seen : BOOLEAN]
  BY <1>1, IdleEngFields, PulseFields DEF States, Requesting
<1>4. TypedEng'
  BY <1>1, <1>3, LiveOrdersTable DEF TypedEng, EInv, EngInv
<1>5. Handshake' /\ ~Executed' /\ LiveRefs' = LiveRefs /\ LiveOrders' = LiveOrders /\ ~resp'.fails
  BY <1>2, <1>3, StaysCalm, Calm
<1>6. Registers'
  BY <1>1, <1>3, <1>5 DEF Registers, EInv, EngInv, Removing
<1>7. Progress'
  BY <1>3, <1>5 DEF Progress, Removing
<1> QED
  BY <1>4, <1>5, <1>6, <1>7 DEF EngInv, Failing

LEMMA TakeOtherStep ==
  ASSUME EInv, TInv', TableMoves(pulse.cmd), NEW m \in Msgs, TakeOther(m),
         ~resp.fails, before' = LiveOrders
  PROVE  EngInv'
<1>1. /\ eng.state = "idle" /\ m.type \in {"trade", "system"} /\ band' = band
      /\ eng' = [IdleEng EXCEPT !.msg = m, !.state = "finish"]
      /\ pulse'.cmd = NoCmd /\ pulse'.done = NoMsg
  BY PulseFields DEF TakeOther, KeepsBook
<1>2. ~eng.req
  BY <1>1, NoRequestUnlessAsking DEF Requesting
<1>3. /\ eng'.state = "finish" /\ eng'.msg = m /\ ~eng'.req
      /\ eng' \in [state : States, msg : Msgs \cup {NoMsg}, rest : Ords \cup {NoOrder},
                   rem : 0 .. SharesMod - 1, emptied : BOOLEAN, addr : Addrs,
                   req : BOOLEAN, expect : BOOLEAN, seen : BOOLEAN]
  BY <1>1, IdleEngFields DEF States
<1>4. TypedEng'
  BY <1>1, <1>3, LiveOrdersTable DEF TypedEng, EInv, EngInv
<1>5. Handshake' /\ ~Executed' /\ LiveRefs' = LiveRefs /\ LiveOrders' = LiveOrders /\ ~resp'.fails
  BY <1>1, <1>2, <1>3, StaysCalm, Calm
<1>6. Registers'
  BY <1>1, <1>3, <1>5 DEF Registers, EInv, EngInv, Removing
<1>7. Result(band.base, LiveOrders, m) = LiveOrders
  BY <1>1 DEF Result, Modifies
<1>8. Progress'
  BY <1>1, <1>3, <1>5, <1>7 DEF Progress, Removing
<1> QED
  BY <1>4, <1>5, <1>6, <1>8 DEF EngInv, Failing

\* The fields of the message's registers.
LEMMA EngFields ==
  ASSUME TypedEng
  PROVE  /\ eng.state \in States /\ eng.msg \in Msgs \cup {NoMsg}
         /\ eng.rest \in Ords \cup {NoOrder} /\ eng.rem \in 0 .. SharesMod - 1
         /\ eng.addr \in Addrs
         /\ NoMsg.type \notin Modifies \cup {"add", "trade", "system"}
BY DEF TypedEng, NoMsg, Modifies

\* A state other than the given one.
EngType ==
  [state : States, msg : Msgs \cup {NoMsg}, rest : Ords \cup {NoOrder},
   rem : 0 .. SharesMod - 1, emptied : BOOLEAN, addr : Addrs,
   req : BOOLEAN, expect : BOOLEAN, seen : BOOLEAN]

LEMMA AddLvlStep ==
  ASSUME EInv, TInv', TableMoves(pulse.cmd), AddLvl, before' = before
  PROVE  EngInv'
<1> DEFINE m == eng.msg
<1>1. /\ eng.state = "add_lvl" /\ band' = band
      /\ eng' = [eng EXCEPT !.state = "finish"]
      /\ pulse'.cmd = NoCmd /\ pulse'.done = NoMsg
  BY PulseFields DEF AddLvl, Goes
<1>2. ~eng.req
  BY <1>1, NoRequestUnlessAsking DEF Requesting
<1>3. /\ eng'.state = "finish" /\ eng'.msg = m /\ ~eng'.req /\ eng' \in EngType
  BY <1>1, <1>2 DEF EInv, EngInv, TypedEng, EngType, States
<1>4. TypedEng'
  BY <1>1, <1>3 DEF TypedEng, EInv, EngInv, EngType
<1>5. /\ Handshake' /\ ~Executed' /\ LiveRefs' = LiveRefs /\ LiveOrders' = LiveOrders
      /\ resp'.fails = resp.fails
  BY <1>1, <1>2, <1>3, StaysCalm, Calm
<1>6. Registers'
  BY <1>1, <1>3, <1>5 DEF Registers, EInv, EngInv, Removing
<1>7. ASSUME ~resp.fails PROVE Progress'
  <2>1. m.type = "add" /\ InWindow(band.base, m.price)
    BY <1>1 DEF EInv, EngInv, Registers
  <2>2. m.ref \notin DOMAIN before /\ LiveOrders = Added
    BY <1>1, <1>7 DEF EInv, EngInv, Progress
  <2>3. Result(band.base, before, m) = LiveOrders
    BY <2>1, <2>2 DEF Result, Adds, Added
  <2> QED
    BY <1>1, <1>3, <1>5, <2>3 DEF Progress, Removing
<1> QED
  BY <1>3, <1>4, <1>5, <1>6, <1>7 DEF EngInv, Failing

LEMMA BeforeIs ==
  ASSUME TypedEng
  PROVE  /\ before = [r \in DOMAIN before |-> before[r]] /\ DOMAIN before \subseteq Refs
         /\ \A r \in DOMAIN before : before[r] \in Ords
<1>1. PICK rs \in SUBSET Refs : before \in [rs -> Ords]
  BY DEF TypedEng, Tables
<1> QED
  BY <1>1

LEMMA OrdFields ==
  ASSUME NEW o \in Ords
  PROVE  /\ o.side \in Sides /\ o.price \in 0 .. PriceMod - 1
         /\ o.shares \in 0 .. SharesMod - 1 /\ o # NoOrder
<1>1. NoOrder.side \notin Sides
  BY DEF NoOrder, Sides
<1> QED
  BY <1>1 DEF Ords

\* What a removal takes off the order, and when nothing is left of it.
LEMMA AmountIs ==
  ASSUME TypedEng, eng.msg.type \in Modifies, eng.rest \in Ords
  PROVE  /\ Amount \in 0 .. eng.rest.shares
         /\ eng.rest.shares - Amount \in 0 .. SharesMod - 1
         /\ Amount = eng.rest.shares <=>
              \/ eng.msg.type \in {"delete", "replace"}
              \/ eng.rest.shares <= eng.msg.shares
         /\ Amount # eng.rest.shares => Amount = eng.msg.shares
<1> DEFINE m == eng.msg
<1>1. m \in Msgs
  BY EngFields
<1>2. PICK has \in 0 .. SharesMod - 1 : has = eng.rest.shares
  BY OrdFields
<1>3. CASE m.type \in {"delete", "replace"}
  BY <1>2, <1>3, EngineConstants DEF Amount
<1>4. CASE m.type \in {"exec", "exec_pr", "cancel"}
  <2>1. PICK wants \in 0 .. SharesMod - 1 : wants = m.shares
    BY <1>1, <1>4, MsgFields, BookAssumption
  <2>2. m.type \notin {"delete", "replace"}
    BY <1>4
  <2>3. Amount = IF has < wants THEN has ELSE wants
    BY <1>2, <2>1, <2>2 DEF Amount
  <2> QED
    BY <1>2, <2>1, <2>2, <2>3, EngineConstants
<1> QED
  BY <1>3, <1>4 DEF Modifies

LEMMA ModLvlStep ==
  ASSUME EInv, TInv', TableMoves(pulse.cmd), ModLvl, before' = before
  PROVE  EngInv'
<1> DEFINE m == eng.msg
           rem == eng.rest.shares - Amount
<1>1. /\ eng.state = "mod_lvl" /\ band' = band
      /\ \E b \in BOOLEAN :
           eng' = [eng EXCEPT !.state = "mod_tbl", !.rem = rem, !.emptied = b]
      /\ pulse'.cmd = NoCmd /\ pulse'.done = NoMsg
  BY PulseFields DEF ModLvl
<1>2. ~eng.req /\ ~resp.fails
  BY <1>1, NoRequestUnlessAsking DEF Requesting, EInv, EngInv, Failing
<1>3. m.type \in Modifies /\ eng.rest \in Ords /\ eng.addr = LevelAddr(eng.rest.price)
      /\ band.valid
  BY <1>1, EngFields DEF EInv, EngInv, Registers, Removing
<1>4. rem \in 0 .. SharesMod - 1
  BY <1>3, AmountIs DEF EInv, EngInv
<1> HIDE DEF rem
<1>5. /\ eng'.state = "mod_tbl" /\ eng'.msg = m /\ ~eng'.req /\ eng' \in EngType
      /\ eng'.rest = eng.rest /\ eng'.addr = eng.addr /\ eng'.rem = rem
  BY <1>1, <1>2, <1>4 DEF EInv, EngInv, TypedEng, EngType, States, Removing
<1>6. TypedEng'
  BY <1>1, <1>5 DEF TypedEng, EInv, EngInv, EngType
<1>7. /\ Handshake' /\ ~Executed' /\ LiveRefs' = LiveRefs /\ LiveOrders' = LiveOrders
      /\ ~resp'.fails
  BY <1>1, <1>2, <1>5, StaysCalm, Calm
<1>8. Registers'
  <2>1. Amount' = Amount
    BY <1>5 DEF Amount
  <2>2. LevelAddr(eng.rest.price)' = LevelAddr(eng.rest.price)
    BY <1>1, <1>5 DEF LevelAddr
  <2>3. eng.rest # NoOrder
    BY <1>3, OrdFields
  <2> QED
    BY <1>1, <1>3, <1>5, <1>7, <2>1, <2>2, <2>3
    DEF Registers, EInv, EngInv, Removing, rem
<1>9. Progress'
  BY <1>1, <1>2, <1>5, <1>7 DEF Progress, Removing, EInv, EngInv
<1> QED
  BY <1>6, <1>7, <1>8, <1>9 DEF EngInv, Failing

LEMMA TellEmptyStep ==
  ASSUME EInv, TInv', TableMoves(pulse.cmd), TellEmpty, before' = before
  PROVE  EngInv'
<1> DEFINE m == eng.msg
<1>1. /\ eng.state = "empty" /\ band' = band
      /\ eng' = [eng EXCEPT !.state = "empty_wait", !.expect = ExpectsScan, !.seen = FALSE]
      /\ pulse'.cmd = NoCmd /\ pulse'.done = NoMsg
  BY PulseFields DEF TellEmpty, KeepsBook
<1>2. ~eng.req /\ ~resp.fails
  BY <1>1, NoRequestUnlessAsking DEF Requesting, EInv, EngInv, Failing
<1>3. ExpectsScan \in BOOLEAN
  BY DEF ExpectsScan
<1>4. /\ eng'.state = "empty_wait" /\ eng'.msg = m /\ ~eng'.req /\ eng' \in EngType
      /\ eng'.rest = eng.rest /\ eng'.addr = eng.addr
  BY <1>1, <1>2, <1>3 DEF EInv, EngInv, TypedEng, EngType, States, Removing
<1>5. TypedEng'
  BY <1>1, <1>4 DEF TypedEng, EInv, EngInv, EngType
<1>6. /\ Handshake' /\ ~Executed' /\ LiveRefs' = LiveRefs /\ LiveOrders' = LiveOrders
      /\ ~resp'.fails
  BY <1>1, <1>2, <1>4, StaysCalm, Calm
<1>7. Registers'
  <2>1. LevelAddr(eng.rest.price)' = LevelAddr(eng.rest.price)
    BY <1>1, <1>4 DEF LevelAddr
  <2> QED
    BY <1>1, <1>4, <1>6, <2>1 DEF Registers, EInv, EngInv, Removing
<1>8. Progress'
  <2>1. Remaining' = Remaining
    BY <1>4 DEF Remaining
  <2> QED
    BY <1>1, <1>2, <1>4, <1>6, <2>1 DEF Progress, Removing, EInv, EngInv
<1> QED
  BY <1>5, <1>6, <1>7, <1>8 DEF EngInv, Failing

LEMMA EmptyWaitStep ==
  ASSUME EInv, TInv', TableMoves(pulse.cmd), EmptyWait, before' = before
  PROVE  EngInv'
<1> DEFINE m == eng.msg
           s == IF ~ScanOver THEN "empty_wait"
                ELSE IF ReAdds THEN "radd_tbl" ELSE "finish"
<1>1. /\ eng.state = "empty_wait" /\ band' = band
      /\ eng' = IF ~ScanOver THEN [eng EXCEPT !.seen = @ \/ AnyScanning]
                ELSE [eng EXCEPT !.state = IF ReAdds THEN "radd_tbl" ELSE "finish"]
      /\ pulse'.cmd = NoCmd /\ pulse'.done = NoMsg
  BY PulseFields DEF EmptyWait, KeepsBook, Quietly
<1>2. ~eng.req /\ ~resp.fails
  BY <1>1, NoRequestUnlessAsking DEF Requesting, EInv, EngInv, Failing
<1>3. s \in States /\ "empty_wait" \in States
  BY DEF States, Requesting, Removing
<1>4. /\ eng'.state = s /\ eng'.msg = m /\ ~eng'.req /\ eng' \in EngType
      /\ eng'.rest = eng.rest /\ eng'.addr = eng.addr
  <2>1. CASE ~ScanOver
    <3>1. (eng.seen \/ AnyScanning) \in BOOLEAN
      OBVIOUS
    <3> QED
      BY <1>1, <1>2, <1>3, <2>1, <3>1 DEF EInv, EngInv, TypedEng, EngType
  <2>2. CASE ScanOver
    BY <1>1, <1>2, <1>3, <2>2 DEF EInv, EngInv, TypedEng, EngType
  <2> QED
    BY <2>1, <2>2
<1>5. TypedEng'
  BY <1>1, <1>4 DEF TypedEng, EInv, EngInv, EngType
<1>6. /\ Handshake' /\ ~Executed' /\ LiveRefs' = LiveRefs /\ LiveOrders' = LiveOrders
      /\ ~resp'.fails
  BY <1>1, <1>2, <1>4, StaysCalm, Calm
<1>7. m.type \in Modifies /\ eng.rest # NoOrder /\ eng.addr = LevelAddr(eng.rest.price)
      /\ band.valid /\ m \in Msgs
  BY <1>1, EngFields DEF EInv, EngInv, Registers, Removing
<1>8. m.ref \in DOMAIN before /\ eng.rest = before[m.ref] /\ LiveOrders = Remaining
  BY <1>1, <1>2 DEF EInv, EngInv, Progress, Removing
<1>9. Remaining' = Remaining
  BY <1>4 DEF Remaining
<1>10. CASE s = "empty_wait"
  <2>1. LevelAddr(eng.rest.price)' = LevelAddr(eng.rest.price)
    BY <1>1, <1>4 DEF LevelAddr
  <2>2. Registers'
    BY <1>1, <1>4, <1>6, <1>7, <1>10, <2>1 DEF Registers, EInv, EngInv, Removing
  <2>3. Progress'
    BY <1>4, <1>6, <1>8, <1>9, <1>10 DEF Progress, Removing
  <2> QED
    BY <1>5, <1>6, <2>2, <2>3 DEF EngInv, Failing
<1>11. CASE s = "radd_tbl"
  <2>1. m.type = "replace" /\ InWindow(band.base, m.price)
    BY <1>11 DEF ReAdds
  <2>2. Registers'
    BY <1>1, <1>4, <1>6, <1>7, <1>11, <2>1 DEF Registers, EInv, EngInv, Removing
  <2>3. Progress'
    BY <1>4, <1>6, <1>8, <1>9, <1>11 DEF Progress, Removing
  <2> QED
    BY <1>5, <1>6, <2>2, <2>3 DEF EngInv, Failing
<1>12. CASE s = "finish"
  <2>1. ~ReAdds
    BY <1>12
  <2>2. Registers'
    BY <1>1, <1>4, <1>6, <1>12 DEF Registers, EInv, EngInv, Removing
  <2>3. Result(band.base, before, m) = LiveOrders
    <3>1. m.type # "add"
      BY <1>7 DEF Modifies
    <3>2. CASE m.type = "replace"
      <4>1. ~InWindow(band.base, m.price)
        BY <2>1, <3>2 DEF ReAdds
      <4> QED
        BY <1>7, <1>8, <3>1, <3>2, <4>1 DEF Result, Adds, Remaining
    <3>3. CASE m.type # "replace"
      BY <1>7, <1>8, <3>1, <3>3 DEF Result, Remaining
    <3> QED
      BY <3>2, <3>3
  <2>4. Progress'
    BY <1>1, <1>4, <1>6, <1>12, <2>3 DEF Progress, Removing
  <2> QED
    BY <1>5, <1>6, <2>2, <2>4 DEF EngInv, Failing
<1> QED
  BY <1>10, <1>11, <1>12

LEMMA RaddLvlStep ==
  ASSUME EInv, TInv', TableMoves(pulse.cmd), RaddLvl, before' = before
  PROVE  EngInv'
<1> DEFINE m == eng.msg
<1>1. /\ eng.state = "radd_lvl" /\ band' = band
      /\ eng' = [eng EXCEPT !.state = "finish"]
      /\ pulse'.cmd = NoCmd /\ pulse'.done = NoMsg
  BY PulseFields DEF RaddLvl, Goes
<1>2. ~eng.req
  BY <1>1, NoRequestUnlessAsking DEF Requesting
<1>3. /\ eng'.state = "finish" /\ eng'.msg = m /\ ~eng'.req /\ eng' \in EngType
  BY <1>1, <1>2 DEF EInv, EngInv, TypedEng, EngType, States
<1>4. TypedEng'
  BY <1>1, <1>3 DEF TypedEng, EInv, EngInv, EngType
<1>5. /\ Handshake' /\ ~Executed' /\ LiveRefs' = LiveRefs /\ LiveOrders' = LiveOrders
      /\ resp'.fails = resp.fails
  BY <1>1, <1>2, <1>3, StaysCalm, Calm
<1>6. Registers'
  BY <1>1, <1>3, <1>5 DEF Registers, EInv, EngInv, Removing
<1>7. ASSUME ~resp.fails PROVE Progress'
  <2>1. m.type = "replace" /\ InWindow(band.base, m.price)
    BY <1>1 DEF EInv, EngInv, Registers
  <2>2. /\ m.nref \notin DOMAIN Remaining /\ LiveOrders = Readded
        /\ m.ref \in DOMAIN before /\ eng.rest = before[m.ref]
    BY <1>1, <1>7 DEF EInv, EngInv, Progress, Removing
  <2>3. Result(band.base, before, m) = LiveOrders
    BY <2>1, <2>2 DEF Result, Adds, Remaining, Readded, Modifies
  <2> QED
    BY <1>1, <1>3, <1>5, <2>3 DEF Progress, Removing
<1> QED
  BY <1>3, <1>4, <1>5, <1>6, <1>7 DEF EngInv, Failing

LEMMA FinishStep ==
  ASSUME EInv, TInv', TableMoves(pulse.cmd), Finish, before' = before
  PROVE  EngInv'
<1> DEFINE m == eng.msg
<1>1. /\ eng.state = "finish" /\ band' = band /\ eng' = IdleEng
      /\ pulse'.cmd = NoCmd /\ pulse'.done = m
  BY PulseFields DEF Finish, KeepsBook
<1>2. ~eng.req
  BY <1>1, NoRequestUnlessAsking DEF Requesting
<1>3. /\ eng'.state = "idle" /\ ~eng'.req /\ eng' \in EngType
  BY <1>1, IdleEngFields DEF EngType
<1>4. TypedEng'
  BY <1>1, <1>3 DEF TypedEng, EInv, EngInv, EngType
<1>5. /\ Handshake' /\ ~Executed' /\ LiveRefs' = LiveRefs /\ LiveOrders' = LiveOrders
      /\ resp'.fails = resp.fails
  BY <1>1, <1>2, <1>3, StaysCalm, Calm
<1>6. Registers'
  BY <1>1, <1>3, <1>5 DEF Registers, EInv, EngInv, Removing
<1>7. ASSUME ~resp.fails PROVE Progress'
  BY <1>1, <1>3, <1>5, <1>7 DEF Progress, Removing, EInv, EngInv
<1> QED
  BY <1>3, <1>4, <1>5, <1>6, <1>7 DEF EngInv, Failing

LEMMA ConfigStep ==
  ASSUME EInv, TInv', TableMoves(pulse.cmd), NEW base \in CfgBases, BandConfig(base),
         eng.state = "idle", pulse = NoPulse, before' = NoOrders
  PROVE  EngInv'
<1>1. /\ band' = [valid |-> TRUE, base |-> base] /\ UNCHANGED <<eng, pulse>>
  BY DEF BandConfig
<1>2. ~eng.req
  BY NoRequestUnlessAsking DEF Requesting
<1>3. pulse'.cmd = NoCmd /\ pulse'.done = NoMsg /\ ~eng'.req
  BY <1>1, <1>2, PulseFields
<1>4. before' \in Tables
  BY NoOrdersType
<1>5. band' \in [valid : BOOLEAN, base : 0 .. PriceMod - 1] /\ band'.valid
  BY <1>1, BookAssumption
<1>6. TypedEng'
  BY <1>1, <1>3, <1>4, <1>5 DEF TypedEng, EInv, EngInv
<1>7. Handshake' /\ ~Executed' /\ LiveRefs' = LiveRefs /\ resp'.fails = resp.fails
  BY <1>2, <1>3, StaysCalm, Calm
<1>8. Registers' /\ Failing' /\ Progress'
  BY <1>1, <1>3, <1>5, <1>7 DEF Registers, Removing, Failing, Progress
<1> QED
  BY <1>6, <1>7, <1>8 DEF EngInv

-----------------------------------------------------------------------------
(* The steps of the states that hold a request open. *)

LEMMA CmdTypes ==
  ASSUME NEW r \in Refs
  PROVE  /\ Lookup(r) \in Cmds /\ Delete(r) \in Cmds
         /\ \A o \in Ords, u \in BOOLEAN : Insert(r, o, u) \in Cmds
BY DEF Cmds

LEMMA WantedIs ==
  ASSUME EInv, eng.state \in Requesting
  PROVE  /\ Wanted \in Cmds
         /\ eng.state = "add_tbl" =>
              Wanted = Insert(eng.msg.ref,
                              Order(eng.msg.side, eng.msg.price, eng.msg.shares), TRUE)
         /\ eng.state = "lk" => Wanted = Lookup(eng.msg.ref)
         /\ eng.state = "mod_tbl" =>
              Wanted = IF eng.rem = 0 THEN Delete(eng.msg.ref)
                       ELSE Insert(eng.msg.ref, [eng.rest EXCEPT !.shares = eng.rem], FALSE)
         /\ eng.state = "radd_tbl" =>
              Wanted = Insert(eng.msg.nref,
                              Order(eng.rest.side, eng.msg.price, eng.msg.shares), TRUE)
<1> DEFINE m == eng.msg
<1>1. m \in Msgs \cup {NoMsg} /\ NoMsg.type \notin Modifies \cup {"add", "trade", "system"}
      /\ eng.rem \in 0 .. SharesMod - 1 /\ eng.rest \in Ords \cup {NoOrder}
  BY EngFields DEF EInv, EngInv
<1>2. CASE eng.state = "add_tbl"
  <2>1. m.type = "add"
    BY <1>2 DEF EInv, EngInv, Registers
  <2>2. m \in Msgs
    BY <1>1, <2>1
  <2>3. Order(m.side, m.price, m.shares) \in Ords /\ m.ref \in Refs
    BY <2>1, <2>2, MsgFields, OrderType
  <2>4. Wanted = Insert(m.ref, Order(m.side, m.price, m.shares), TRUE)
    BY <1>2 DEF Wanted
  <2>5. Insert(m.ref, Order(m.side, m.price, m.shares), TRUE) \in Cmds
    BY <2>3, CmdTypes
  <2> QED
    BY <1>2, <2>4, <2>5
<1>3. CASE eng.state = "lk"
  <2>1. m.type \in Modifies
    BY <1>3 DEF EInv, EngInv, Registers
  <2>2. m.ref \in Refs
    BY <1>1, <2>1, MsgFields
  <2>3. Wanted = Lookup(m.ref)
    BY <1>3 DEF Wanted
  <2> QED
    BY <1>3, <2>2, <2>3, CmdTypes
<1>4. CASE eng.state = "mod_tbl"
  <2>1. m.type \in Modifies /\ eng.rest # NoOrder
    BY <1>4 DEF EInv, EngInv, Registers, Removing
  <2>2. m.ref \in Refs /\ [eng.rest EXCEPT !.shares = eng.rem] \in Ords
    BY <1>1, <2>1, MsgFields DEF Ords
  <2>3. Wanted = IF eng.rem = 0 THEN Delete(m.ref)
                 ELSE Insert(m.ref, [eng.rest EXCEPT !.shares = eng.rem], FALSE)
    BY <1>4 DEF Wanted
  <2>4. Wanted \in Cmds
    BY <2>2, <2>3, CmdTypes
  <2> QED
    BY <1>4, <2>3, <2>4
<1>5. CASE eng.state = "radd_tbl"
  <2>1. m.type = "replace" /\ eng.rest # NoOrder
    BY <1>5 DEF EInv, EngInv, Registers, Removing
  <2>2. m \in Msgs
    BY <1>1, <2>1 DEF Modifies
  <2>3. Order(eng.rest.side, m.price, m.shares) \in Ords /\ m.nref \in Refs
    BY <1>1, <2>1, <2>2, MsgFields, OrderType, OrdFields
  <2>4. Wanted = Insert(m.nref, Order(eng.rest.side, m.price, m.shares), TRUE)
    BY <1>5 DEF Wanted
  <2>5. Insert(m.nref, Order(eng.rest.side, m.price, m.shares), TRUE) \in Cmds
    BY <2>3, CmdTypes
  <2> QED
    BY <1>5, <2>4, <2>5
<1> QED
  BY <1>2, <1>3, <1>4, <1>5 DEF Requesting

\* The request is raised; it is open; it is executed; the answer is on its way.
Same == LiveOrders' = LiveOrders /\ resp'.fails = resp.fails
Raised ==
  /\ ~eng.req /\ eng' = [eng EXCEPT !.req = TRUE]
  /\ ~Executed /\ ~Executed' /\ Same
Open == eng.req /\ eng' = eng /\ ~Executed /\ ~Executed' /\ Same
Served == eng.req /\ eng' = eng /\ ~Executed /\ Executed' /\ Executes(Wanted)
Underway ==
  /\ eng.req /\ eng' = eng /\ Executed /\ Executed' /\ Same
  /\ resp'.found = resp.found /\ resp'.order = resp.order
Answered(answered) ==
  /\ eng.req /\ eng' = [answered EXCEPT !.req = FALSE] /\ Executed /\ Same
  /\ probe'.state = "idle" /\ ~resp'.done

LEMMA Asking ==
  ASSUME EInv, TInv', TableMoves(pulse.cmd), eng.state \in Requesting, before' = before,
         NEW answered, Requests(eng.state, Wanted, answered)
  PROVE  /\ pulse'.done = NoMsg /\ band' = band
         /\ pulse'.cmd = IF eng.req THEN NoCmd ELSE Wanted
         /\ \/ (Raised \/ Open \/ Served \/ Underway) /\ Handshake'
            \/ Answered(answered)
<1>1. /\ eng' = IF ~eng.req THEN [eng EXCEPT !.req = TRUE]
                ELSE IF resp.done THEN [answered EXCEPT !.req = FALSE] ELSE eng
      /\ pulse' = IF eng.req THEN NoPulse ELSE [NoPulse EXCEPT !.cmd = Wanted]
      /\ band' = band
  BY DEF Requests, KeepsBook
<1>2. /\ pulse'.done = NoMsg /\ pulse'.cmd = IF eng.req THEN NoCmd ELSE Wanted
  BY <1>1, PulseFields
<1>3. Wanted \in Cmds /\ Wanted # NoCmd
  BY WantedIs, CmdKinds
<1>4. eng \in EngType
  BY DEF EInv, EngInv, TypedEng, EngType
<1>5. CASE ~eng.req
  <2>1. /\ probe'.state = "idle" /\ ~resp'.done /\ Same
    BY <1>5, Calm DEF Same
  <2>2. /\ eng' = [eng EXCEPT !.req = TRUE] /\ eng'.req /\ eng'.state = eng.state
        /\ eng'.msg = eng.msg /\ eng'.rest = eng.rest /\ eng'.rem = eng.rem
    BY <1>1, <1>4, <1>5 DEF EngType
  <2>3. Wanted' = Wanted
    BY <2>2 DEF Wanted
  <2>4. Handshake' /\ ~Executed /\ ~Executed'
    BY <1>2, <1>5, <2>1, <2>2, <2>3 DEF Handshake, Executed
  <2> QED
    BY <1>1, <1>2, <1>5, <2>1, <2>2, <2>4 DEF Raised
<1>6. CASE eng.req
  <2>1. pulse'.cmd = NoCmd
    BY <1>2, <1>6
  <2>2. CASE resp.done
    <3>1. probe.state = "idle" /\ pulse.cmd = NoCmd
      BY <1>3, <1>6, <2>2 DEF EInv, EngInv, Handshake
    <3>2. Idles(NoCmd)
      BY <3>1 DEF TableMoves, Accepts, Idles, Searches, Answers, Reports
    <3>3. Answered(answered)
      BY <1>1, <1>6, <2>2, <3>2 DEF Answered, Executed, Idles, Same
    <3> QED
      BY <1>1, <1>2, <3>3
  <2>3. CASE ~resp.done
    <3>1. eng' = eng
      BY <1>1, <1>6, <2>3
    <3>2. Wanted' = Wanted
      BY <3>1 DEF Wanted
    <3>3. CASE probe.state = "idle"
      <4>1. pulse.cmd = Wanted
        BY <1>6, <2>3, <3>3 DEF EInv, EngInv, Handshake
      <4>2. Accepts(Wanted)
        BY <1>3, <3>3, <4>1 DEF TableMoves, Accepts, Idles, Searches, Answers, Reports
      <4>3. ~Executed /\ ~Executed' /\ Same
        BY <2>3, <3>3, <4>2 DEF Accepts, Same, Executed
      <4>4. Handshake'
        BY <1>6, <2>1, <3>1, <3>2, <4>2 DEF Handshake, Accepts, EInv, EngInv
      <4> QED
        BY <1>1, <1>2, <1>6, <3>1, <4>3, <4>4 DEF Open
    <3>4. CASE probe.state \in {"hash", "home", "probe"}
      <4>1. probe.cmd = Wanted
        BY <1>6, <2>3, <3>4 DEF EInv, EngInv, Handshake
      <4>2. Searches \/ Answers
        BY <3>4 DEF TableMoves, Accepts, Idles, Searches, Answers, Reports
      <4>3. CASE Searches
        <5>1. ~Executed /\ ~Executed' /\ Same
          BY <2>3, <3>4, <4>3 DEF Searches, Same, Executed
        <5>2. Handshake'
          BY <1>6, <2>1, <3>1, <3>2, <4>1, <4>3 DEF Handshake, Searches, EInv, EngInv
        <5> QED
          BY <1>1, <1>2, <1>6, <3>1, <5>1, <5>2 DEF Open
      <4>4. CASE Answers
        <5>1. ~Executed /\ Executed' /\ Executes(Wanted)
          BY <1>6, <2>3, <3>1, <3>4, <4>1, <4>4 DEF Answers, Executed
        <5>2. Handshake'
          BY <1>6, <2>1, <3>1, <4>4 DEF Handshake, Answers, EInv, EngInv
        <5> QED
          BY <1>1, <1>2, <1>6, <3>1, <5>1, <5>2 DEF Served
      <4> QED
        BY <4>2, <4>3, <4>4
    <3>5. CASE probe.state = "done"
      <4>1. Reports
        BY <3>5 DEF TableMoves, Accepts, Idles, Searches, Answers, Reports
      <4>2. Executed /\ Executed' /\ Same
        BY <1>6, <3>1, <3>5, <4>1 DEF Reports, Same, Executed
      <4>3. Handshake'
        BY <1>6, <2>1, <3>1, <4>1 DEF Handshake, Reports, EInv, EngInv
      <4> QED
        BY <1>1, <1>2, <1>6, <3>1, <4>1, <4>2, <4>3 DEF Underway, Reports
    <3> QED
      BY <3>3, <3>4, <3>5 DEF EInv, TInv, TypedTable
  <2> QED
    BY <2>2, <2>3
<1> QED
  BY <1>5, <1>6

\* Until the answer is taken the message's registers stay.
LEMMA Holds ==
  ASSUME EInv, TInv', eng.state \in Requesting, before' = before, band' = band,
         pulse'.done = NoMsg, pulse'.cmd \in Cmds \cup {NoCmd}, Handshake',
         Raised \/ Open \/ Served \/ Underway,
         LiveRefs' # {} => band.valid
  PROVE  /\ TypedEng' /\ Registers'
         /\ ~Served => Failing' /\ (~resp'.fails => Progress')
<1>1. eng \in EngType
  BY DEF EInv, EngInv, TypedEng, EngType
<1>2. /\ eng' \in EngType /\ eng'.state = eng.state /\ eng'.msg = eng.msg
      /\ eng'.rest = eng.rest /\ eng'.rem = eng.rem /\ eng'.addr = eng.addr
  BY <1>1 DEF Raised, Open, Served, Underway, EngType
<1>3. TypedEng'
  BY <1>2 DEF TypedEng, EInv, EngInv, EngType
<1>4. Registers'
  <2>1. Amount' = Amount
    BY <1>2 DEF Amount
  <2>2. /\ LevelAddr(eng.rest.price)' = LevelAddr(eng.rest.price)
        /\ LevelAddr(eng.msg.price)' = LevelAddr(eng.msg.price)
    BY <1>2 DEF LevelAddr
  <2> QED
    BY <1>2, <2>1, <2>2 DEF Registers, EInv, EngInv, Removing, Requesting
<1>5. ASSUME ~Served PROVE Failing' /\ (~resp'.fails => Progress')
  <2>1. /\ LiveOrders' = LiveOrders /\ resp'.fails = resp.fails /\ (Executed' <=> Executed)
        /\ Executed => resp'.found = resp.found /\ resp'.order = resp.order
    BY <1>5 DEF Raised, Open, Underway, Same
  <2>2. Failing'
    BY <1>2, <2>1 DEF Failing, EInv, EngInv
  <2>3. Added' = Added /\ Remaining' = Remaining
    BY <1>2 DEF Added, Remaining
  <2>4. Readded' = Readded
    BY <1>2, <2>3 DEF Readded
  <2>5. ASSUME ~resp.fails PROVE Progress'
    BY <1>2, <2>1, <2>3, <2>4, <2>5 DEF Progress, EInv, EngInv, Removing, Requesting
  <2> QED
    BY <2>1, <2>2, <2>5
<1> QED
  BY <1>3, <1>4, <1>5

\* What the table has done for each kind of command.
LEMMA ExecutesInsert ==
  ASSUME NEW r, NEW o, NEW u \in BOOLEAN, Executes(Insert(r, o, u))
  PROVE  \/ /\ r \in LiveRefs /\ resp'.fails = resp.fails /\ (resp'.found <=> ~u)
            /\ LiveOrders' = IF u THEN LiveOrders ELSE Ref!Put(LiveOrders, r, o)
         \/ /\ r \notin LiveRefs /\ resp'.fails = resp.fails /\ resp'.found
            /\ LiveOrders' = Ref!Put(LiveOrders, r, o)
         \/ r \notin LiveRefs /\ resp'.fails /\ LiveOrders' = LiveOrders
<1>1. PICK c : c = Insert(r, o, u)
  OBVIOUS
<1>2. c.op = "insert" /\ c.ref = r /\ c.order = o /\ c.unique = u
  BY <1>1, RecordFields
<1>3. Executes(c)
  BY <1>1 DEF Executes
<1> QED
  BY <1>2, <1>3 DEF Executes

LEMMA ExecutesDelete ==
  ASSUME NEW r, Executes(Delete(r))
  PROVE  /\ resp'.fails = resp.fails
         /\ LiveOrders' = IF r \in LiveRefs THEN Ref!Drop(LiveOrders, r) ELSE LiveOrders
<1>1. PICK c : c = Delete(r)
  OBVIOUS
<1>2. c.op = "delete" /\ c.ref = r
  BY <1>1, RecordFields
<1>3. Executes(c)
  BY <1>1 DEF Executes
<1> QED
  BY <1>2, <1>3 DEF Executes

LEMMA AddTblStep ==
  ASSUME EInv, TInv', TableMoves(pulse.cmd), AddTbl, before' = before
  PROVE  EngInv'
<1> DEFINE m == eng.msg
           o == Order(m.side, m.price, m.shares)
           answered == IF resp.found
                       THEN [eng EXCEPT !.state = "add_lvl", !.addr = LevelAddr(m.price)]
                       ELSE [eng EXCEPT !.state = "finish"]
<1>1. eng.state = "add_tbl" /\ eng.state \in Requesting
  BY DEF AddTbl, Requests, Requesting
<1>2. Wanted = Insert(m.ref, o, TRUE) /\ Wanted \in Cmds
  BY <1>1, WantedIs
<1>3. Requests(eng.state, Wanted, answered)
  BY <1>1, <1>2 DEF AddTbl, Requests
<1> HIDE DEF answered
<1>4. /\ pulse'.done = NoMsg /\ band' = band
      /\ pulse'.cmd = IF eng.req THEN NoCmd ELSE Wanted
      /\ \/ (Raised \/ Open \/ Served \/ Underway) /\ Handshake'
         \/ Answered(answered)
  BY <1>1, <1>3, Asking
<1>5. m.type = "add" /\ InWindow(band.base, m.price) /\ band.valid /\ m \in Msgs
  <2>1. m.type = "add" /\ InWindow(band.base, m.price) /\ band.valid
    BY <1>1 DEF EInv, EngInv, Registers
  <2> QED
    BY <2>1, EngFields DEF EInv, EngInv
<1>6. pulse'.cmd \in Cmds \cup {NoCmd}
  BY <1>2, <1>4
<1>7. CASE (Raised \/ Open \/ Underway) /\ Handshake'
  <2>1. ~Served
    BY <1>7 DEF Raised, Open, Underway, Served
  <2> QED
    BY <1>1, <1>4, <1>5, <1>6, <1>7, <2>1, Holds DEF EngInv
<1>8. CASE Served /\ Handshake'
  <2>1. TypedEng' /\ Registers'
    BY <1>1, <1>4, <1>5, <1>6, <1>8, Holds
  <2>2. ~resp.fails /\ Executed' /\ eng' = eng /\ Executes(Wanted)
    BY <1>1, <1>8 DEF Served, EInv, EngInv, Failing
  <2>3. Failing'
    BY <1>1, <2>2 DEF Failing
  <2>4. LiveOrders = before /\ DOMAIN LiveOrders = LiveRefs
    BY <1>1, <1>8, <2>2 DEF EInv, EngInv, Progress, Served, LiveOrders
  <2>5. ASSUME ~resp'.fails
        PROVE  IF resp'.found
               THEN m.ref \notin DOMAIN before /\ LiveOrders' = Ref!Put(before, m.ref, o)
               ELSE m.ref \in DOMAIN before /\ LiveOrders' = before
    <3>1. PICK c : c = o
      OBVIOUS
    <3>2. PICK r : r = m.ref
      OBVIOUS
    <3>3. Executes(Insert(r, c, TRUE))
      BY <1>2, <2>2, <3>1, <3>2
    <3> QED
      BY <2>4, <2>5, <3>1, <3>2, <3>3, ExecutesInsert
  <2>6. ASSUME ~resp'.fails PROVE Progress'
    BY <1>1, <2>2, <2>5, <2>6 DEF Progress, Added, Removing
  <2> QED
    BY <1>8, <2>1, <2>3, <2>6 DEF EngInv
<1>9. CASE Answered(answered)
  <2>1. /\ eng.req /\ eng' = [answered EXCEPT !.req = FALSE] /\ Executed
        /\ probe'.state = "idle" /\ ~resp'.done
        /\ LiveOrders' = LiveOrders /\ resp'.fails = resp.fails /\ LiveRefs' = LiveRefs
    BY <1>9 DEF Answered, Same, LiveOrders
  <2>2. LevelAddr(m.price) \in Addrs
    BY <1>5, MsgFields, LevelAddrType, BookAssumption DEF EInv, EngInv
  <2>3. /\ eng' \in EngType /\ ~eng'.req /\ eng'.msg = m
        /\ eng'.state = IF resp.found THEN "add_lvl" ELSE "finish"
        /\ resp.found => eng'.addr = LevelAddr(m.price)
    <3>1. eng \in EngType
      BY DEF EInv, EngInv, TypedEng, EngType
    <3>2. PICK la : la = LevelAddr(m.price) /\ la \in Addrs
      BY <2>2
    <3>3. PICK e : e = answered
      OBVIOUS
    <3>4. CASE resp.found
      <4>1. e = [eng EXCEPT !.state = "add_lvl", !.addr = la]
        BY <3>2, <3>3, <3>4 DEF answered
      <4>2. /\ e \in EngType /\ e.msg = m
            /\ e.state = "add_lvl" /\ e.addr = LevelAddr(m.price)
        BY <3>1, <3>2, <4>1 DEF EngType, States
      <4>3. eng' = [e EXCEPT !.req = FALSE]
        BY <2>1, <3>3
      <4> QED
        BY <3>4, <4>2, <4>3 DEF EngType
    <3>5. CASE ~resp.found
      <4>1. e = [eng EXCEPT !.state = "finish"]
        BY <3>3, <3>5 DEF answered
      <4>2. e \in EngType /\ e.msg = m /\ e.state = "finish"
        BY <3>1, <4>1 DEF EngType, States
      <4>3. eng' = [e EXCEPT !.req = FALSE]
        BY <2>1, <3>3
      <4> QED
        BY <3>5, <4>2, <4>3 DEF EngType
    <3> QED
      BY <3>4, <3>5
  <2>4. TypedEng'
    BY <1>4, <1>6, <2>3 DEF TypedEng, EInv, EngInv, EngType
  <2>5. Handshake' /\ ~Executed'
    BY <1>4, <2>1, <2>3 DEF Handshake, Executed
  <2>6. LevelAddr(m.price)' = LevelAddr(m.price)
    BY <1>4, <2>3 DEF LevelAddr
  <2>7. Registers'
    BY <1>1, <1>4, <1>5, <2>1, <2>3, <2>6 DEF Registers, EInv, EngInv, Removing
  <2>8. ASSUME ~resp.fails PROVE Progress'
    <3>1. IF resp.found THEN m.ref \notin DOMAIN before /\ LiveOrders = Added
          ELSE m.ref \in DOMAIN before /\ LiveOrders = before
      BY <1>1, <2>1, <2>8 DEF EInv, EngInv, Progress
    <3>2. CASE resp.found
      BY <2>1, <2>3, <3>1, <3>2 DEF Progress, Removing, Added
    <3>3. CASE ~resp.found
      <4>1. Result(band.base, before, m) = LiveOrders
        BY <1>5, <3>1, <3>3 DEF Result, Adds
      <4> QED
        BY <1>4, <2>1, <2>3, <3>3, <4>1 DEF Progress, Removing
    <3> QED
      BY <3>2, <3>3
  <2> QED
    BY <2>1, <2>3, <2>4, <2>5, <2>7, <2>8 DEF EngInv, Failing
<1> QED
  BY <1>4, <1>7, <1>8, <1>9

LEMMA LkStep ==
  ASSUME EInv, TInv', TableMoves(pulse.cmd), Lk, before' = before
  PROVE  EngInv'
<1> DEFINE m == eng.msg
           answered == IF ~resp.found THEN [eng EXCEPT !.state = "finish"]
                       ELSE [eng EXCEPT !.state = "mod_lvl", !.rest = resp.order,
                                        !.addr = LevelAddr(resp.order.price)]
<1>1. eng.state = "lk" /\ eng.state \in Requesting
  BY DEF Lk, Requests, Requesting
<1>2. Wanted = Lookup(m.ref) /\ Wanted \in Cmds
  BY <1>1, WantedIs
<1>3. Requests(eng.state, Wanted, answered)
  BY <1>1, <1>2 DEF Lk, Requests
<1> HIDE DEF answered
<1>4. /\ pulse'.done = NoMsg /\ band' = band
      /\ pulse'.cmd = IF eng.req THEN NoCmd ELSE Wanted
      /\ \/ (Raised \/ Open \/ Served \/ Underway) /\ Handshake'
         \/ Answered(answered)
  BY <1>1, <1>3, Asking
<1>5. m.type \in Modifies /\ m \in Msgs /\ ~resp.fails /\ LiveOrders = before
      /\ DOMAIN LiveOrders = LiveRefs
  <2>1. m.type \in Modifies /\ ~resp.fails
    BY <1>1 DEF EInv, EngInv, Registers, Failing
  <2> QED
    BY <1>1, <2>1, EngFields DEF EInv, EngInv, Progress, LiveOrders
<1>6. pulse'.cmd \in Cmds \cup {NoCmd}
  BY <1>2, <1>4
<1>7. CASE (Raised \/ Open \/ Underway) /\ Handshake'
  <2>1. ~Served /\ LiveOrders' = LiveOrders
    BY <1>7 DEF Raised, Open, Underway, Served, Same
  <2>2. LiveRefs' # {} => band.valid
    BY <2>1 DEF LiveOrders, EInv, EngInv, Registers
  <2> QED
    BY <1>1, <1>4, <1>6, <1>7, <2>1, <2>2, Holds DEF EngInv
<1>8. CASE Served /\ Handshake'
  <2>1. Executed' /\ eng' = eng /\ Executes(Wanted)
    BY <1>8 DEF Served
  <2>2. /\ resp'.fails = resp.fails /\ LiveOrders' = LiveOrders
        /\ resp'.found <=> m.ref \in LiveRefs
        /\ m.ref \in LiveRefs => resp'.order = LiveOrders[m.ref]
    BY <1>2, <2>1, RecordFields DEF Executes
  <2>3. LiveRefs' # {} => band.valid
    BY <2>2 DEF LiveOrders, EInv, EngInv, Registers
  <2>4. TypedEng' /\ Registers'
    BY <1>1, <1>4, <1>6, <1>8, <2>3, Holds
  <2>5. Failing' /\ Progress'
    BY <1>1, <1>5, <2>1, <2>2 DEF Failing, Progress, Removing
  <2> QED
    BY <1>8, <2>4, <2>5 DEF EngInv
<1>9. CASE Answered(answered)
  <2>1. /\ eng.req /\ eng' = [answered EXCEPT !.req = FALSE] /\ Executed
        /\ probe'.state = "idle" /\ ~resp'.done
        /\ LiveOrders' = LiveOrders /\ resp'.fails = resp.fails /\ LiveRefs' = LiveRefs
    BY <1>9 DEF Answered, Same, LiveOrders
  <2>2. /\ resp.found <=> m.ref \in DOMAIN before
        /\ resp.found => resp.order = before[m.ref]
    BY <1>1, <1>5, <2>1 DEF EInv, EngInv, Progress
  <2>3. CASE resp.found
    <3>1. resp.order \in Ords /\ resp.order # NoOrder /\ m.ref \in LiveRefs
      BY <1>5, <2>2, <2>3, LiveOrdersType, OrdFields DEF EInv, TInv, TypedTable
    <3>2. LevelAddr(resp.order.price) \in Addrs /\ band.valid
      BY <3>1, OrdFields, LevelAddrType DEF EInv, EngInv, Registers
    <3>3. /\ eng' \in EngType /\ ~eng'.req /\ eng'.msg = m /\ eng'.state = "mod_lvl"
          /\ eng'.rest = resp.order /\ eng'.addr = LevelAddr(resp.order.price)
      BY <2>1, <2>3, <3>1, <3>2 DEF EInv, EngInv, TypedEng, EngType, States, answered
    <3>4. TypedEng' /\ Handshake' /\ ~Executed'
      BY <1>4, <1>6, <2>1, <2>3, <3>3 DEF TypedEng, EInv, EngInv, EngType, Handshake, Executed
    <3>5. LevelAddr(resp.order.price) = LevelAddr(eng.rest.price)'
      BY <1>4, <3>3 DEF LevelAddr
    <3>6. Registers'
      BY <1>4, <1>5, <2>1, <3>1, <3>2, <3>3, <3>5 DEF Registers, EInv, EngInv, Removing
    <3>7. Progress'
      BY <1>5, <2>1, <2>2, <2>3, <3>3 DEF Progress, Removing
    <3> QED
      BY <1>5, <2>1, <3>3, <3>4, <3>6, <3>7 DEF EngInv, Failing
  <2>4. CASE ~resp.found
    <3>1. eng' \in EngType /\ ~eng'.req /\ eng'.msg = m /\ eng'.state = "finish"
      BY <2>1, <2>4 DEF EInv, EngInv, TypedEng, EngType, States, answered
    <3>2. TypedEng' /\ Handshake' /\ ~Executed'
      BY <1>4, <1>6, <2>1, <3>1 DEF TypedEng, EInv, EngInv, EngType, Handshake, Executed
    <3>3. Registers'
      BY <1>4, <2>1, <3>1 DEF Registers, EInv, EngInv, Removing
    <3>4. Result(band.base, before, m) = LiveOrders
      BY <1>5, <2>2, <2>4 DEF Result, Modifies
    <3>5. Progress'
      BY <1>4, <2>1, <3>1, <3>4 DEF Progress, Removing
    <3> QED
      BY <1>5, <2>1, <3>1, <3>2, <3>3, <3>5 DEF EngInv, Failing
  <2> QED
    BY <2>3, <2>4
<1> QED
  BY <1>4, <1>7, <1>8, <1>9

\* What is written back for an order is what a removal leaves of it.
LEMMA RemainingIs ==
  ASSUME EInv, eng.state = "mod_tbl", eng.msg.ref \in DOMAIN before,
         eng.rest = before[eng.msg.ref]
  PROVE  /\ eng.rem = 0 => Remaining = Ref!Drop(before, eng.msg.ref)
         /\ eng.rem # 0 =>
              Remaining = Ref!Put(before, eng.msg.ref, [eng.rest EXCEPT !.shares = eng.rem])
<1> DEFINE m == eng.msg
           o == eng.rest
<1>1. TypedEng /\ m.type \in Modifies /\ o \in Ords /\ eng.rem = o.shares - Amount
  BY EngFields DEF EInv, EngInv, Registers, Removing
<1>2. /\ Amount \in 0 .. o.shares /\ o.shares \in Nat /\ Amount \in Nat
      /\ Amount = o.shares <=> m.type \in {"delete", "replace"} \/ o.shares <= m.shares
      /\ Amount # o.shares => Amount = m.shares
  BY <1>1, AmountIs, OrdFields, EngineConstants
<1>3. eng.rem = 0 <=> Amount = o.shares
  BY <1>1, <1>2
<1>4. CASE eng.rem = 0
  BY <1>2, <1>3, <1>4 DEF Remaining, Left
<1>5. CASE eng.rem # 0
  <2>1. /\ ~(m.type \in {"delete", "replace"} \/ before[m.ref].shares <= m.shares)
        /\ eng.rem = before[m.ref].shares - m.shares
    BY <1>1, <1>2, <1>3, <1>5
  <2>2. Remaining = [before EXCEPT ![m.ref].shares = @ - m.shares]
    BY <2>1 DEF Remaining, Left
  <2>3. PICK r : r = m.ref
    OBVIOUS
  <2>4. PICK q : q = m.shares
    OBVIOUS
  <2>5. before = [x \in DOMAIN before |-> before[x]] /\ DOMAIN before \cup {r} = DOMAIN before
    BY <1>1, <2>3, BeforeIs
  <2>6. [before EXCEPT ![r].shares = @ - q]
          = [x \in DOMAIN before |-> IF x = r THEN [before[r] EXCEPT !.shares = @ - q]
                                     ELSE before[x]]
    BY <2>3, <2>5
  <2>7. [before[r] EXCEPT !.shares = @ - q] = [o EXCEPT !.shares = eng.rem]
    BY <1>1, <2>1, <2>3, <2>4 DEF Ords
  <2>8. Remaining = [before EXCEPT ![r].shares = @ - q]
    BY <2>2, <2>3, <2>4
  <2> QED
    BY <1>5, <2>3, <2>5, <2>6, <2>7, <2>8 DEF Ref!Put
<1> QED
  BY <1>4, <1>5

LEMMA ModTblStep ==
  ASSUME EInv, TInv', TableMoves(pulse.cmd), ModTbl, before' = before
  PROVE  EngInv'
<1> DEFINE m == eng.msg
           answered == [eng EXCEPT !.state = "empty"]
<1>1. eng.state = "mod_tbl" /\ eng.state \in Requesting
  BY DEF ModTbl, Requests, Requesting
<1>2. /\ Wanted \in Cmds
      /\ Wanted = IF eng.rem = 0 THEN Delete(m.ref)
                  ELSE Insert(m.ref, [eng.rest EXCEPT !.shares = eng.rem], FALSE)
  BY <1>1, WantedIs
<1>3. Requests(eng.state, Wanted, answered)
  BY <1>1, <1>2 DEF ModTbl, Requests
<1> HIDE DEF answered
<1>4. /\ pulse'.done = NoMsg /\ band' = band
      /\ pulse'.cmd = IF eng.req THEN NoCmd ELSE Wanted
      /\ \/ (Raised \/ Open \/ Served \/ Underway) /\ Handshake'
         \/ Answered(answered)
  BY <1>1, <1>3, Asking
<1>5. m.type \in Modifies /\ band.valid /\ ~resp.fails /\ eng.rest # NoOrder
      /\ eng.addr = LevelAddr(eng.rest.price)
  BY <1>1 DEF EInv, EngInv, Registers, Failing, Removing
<1>6. m.ref \in DOMAIN before /\ eng.rest = before[m.ref]
  BY <1>1, <1>5 DEF EInv, EngInv, Progress, Removing
<1>7. pulse'.cmd \in Cmds \cup {NoCmd}
  BY <1>2, <1>4
<1>8. CASE (Raised \/ Open \/ Underway) /\ Handshake'
  <2>1. ~Served
    BY <1>8 DEF Raised, Open, Underway, Served
  <2> QED
    BY <1>1, <1>4, <1>5, <1>7, <1>8, <2>1, Holds DEF EngInv
<1>9. CASE Served /\ Handshake'
  <2>1. TypedEng' /\ Registers'
    BY <1>1, <1>4, <1>5, <1>7, <1>9, Holds
  <2>2. Executed' /\ eng' = eng /\ Executes(Wanted) /\ ~Executed
    BY <1>9 DEF Served
  <2>3. LiveOrders = before /\ DOMAIN LiveOrders = LiveRefs
    BY <1>1, <1>5, <2>2 DEF EInv, EngInv, Progress, LiveOrders
  <2>4. /\ resp'.fails = resp.fails
        /\ LiveOrders' = IF eng.rem = 0 THEN Ref!Drop(before, m.ref)
                         ELSE Ref!Put(before, m.ref, [eng.rest EXCEPT !.shares = eng.rem])
    <3>1. CASE eng.rem = 0
      <4>1. PICK r : r = m.ref
        OBVIOUS
      <4>2. Executes(Delete(r))
        BY <1>2, <2>2, <3>1, <4>1
      <4> QED
        BY <1>6, <2>3, <3>1, <4>1, <4>2, ExecutesDelete
    <3>2. CASE eng.rem # 0
      <4>1. PICK r : r = m.ref
        OBVIOUS
      <4>2. PICK c : c = [eng.rest EXCEPT !.shares = eng.rem]
        OBVIOUS
      <4>3. Executes(Insert(r, c, FALSE))
        BY <1>2, <2>2, <3>2, <4>1, <4>2
      <4> QED
        BY <1>6, <2>3, <3>2, <4>1, <4>2, <4>3, ExecutesInsert
    <3> QED
      BY <3>1, <3>2
  <2>5. LiveOrders' = Remaining
    BY <1>1, <1>6, <2>4, RemainingIs
  <2>6. Remaining' = Remaining
    BY <2>2 DEF Remaining
  <2>7. Failing' /\ Progress'
    BY <1>1, <1>5, <1>6, <2>2, <2>4, <2>5, <2>6 DEF Failing, Progress, Removing
  <2> QED
    BY <1>9, <2>1, <2>7 DEF EngInv
<1>10. CASE Answered(answered)
  <2>1. /\ eng.req /\ eng' = [answered EXCEPT !.req = FALSE] /\ Executed
        /\ probe'.state = "idle" /\ ~resp'.done
        /\ LiveOrders' = LiveOrders /\ resp'.fails = resp.fails /\ LiveRefs' = LiveRefs
    BY <1>10 DEF Answered, Same, LiveOrders
  <2>2. /\ eng' \in EngType /\ ~eng'.req /\ eng'.msg = m /\ eng'.state = "empty"
        /\ eng'.rest = eng.rest /\ eng'.addr = eng.addr
    BY <2>1 DEF EInv, EngInv, TypedEng, EngType, States, Removing, answered
  <2>3. TypedEng' /\ Handshake' /\ ~Executed'
    BY <1>4, <1>7, <2>1, <2>2 DEF TypedEng, EInv, EngInv, EngType, Handshake, Executed
  <2>4. LevelAddr(eng.rest.price)' = LevelAddr(eng.rest.price)
    BY <1>4, <2>2 DEF LevelAddr
  <2>5. Registers'
    BY <1>4, <1>5, <2>1, <2>2, <2>4 DEF Registers, EInv, EngInv, Removing
  <2>6. LiveOrders = Remaining
    BY <1>1, <1>5, <2>1 DEF EInv, EngInv, Progress
  <2>7. Remaining' = Remaining
    BY <2>2 DEF Remaining
  <2>8. Progress'
    BY <1>6, <2>1, <2>2, <2>6, <2>7 DEF Progress, Removing
  <2> QED
    BY <1>5, <2>1, <2>2, <2>3, <2>5, <2>8 DEF EngInv, Failing
<1> QED
  BY <1>4, <1>8, <1>9, <1>10

LEMMA RaddTblStep ==
  ASSUME EInv, TInv', TableMoves(pulse.cmd), RaddTbl, before' = before
  PROVE  EngInv'
<1> DEFINE m == eng.msg
           o == Order(eng.rest.side, m.price, m.shares)
           answered == IF resp.found
                       THEN [eng EXCEPT !.state = "radd_lvl", !.addr = LevelAddr(m.price)]
                       ELSE [eng EXCEPT !.state = "finish"]
<1>1. eng.state = "radd_tbl" /\ eng.state \in Requesting
  BY DEF RaddTbl, Requests, Requesting
<1>2. Wanted = Insert(m.nref, o, TRUE) /\ Wanted \in Cmds
  BY <1>1, WantedIs
<1>3. Requests(eng.state, Wanted, answered)
  BY <1>1, <1>2 DEF RaddTbl, Requests
<1> HIDE DEF answered
<1>4. /\ pulse'.done = NoMsg /\ band' = band
      /\ pulse'.cmd = IF eng.req THEN NoCmd ELSE Wanted
      /\ \/ (Raised \/ Open \/ Served \/ Underway) /\ Handshake'
         \/ Answered(answered)
  BY <1>1, <1>3, Asking
<1>5. /\ m.type = "replace" /\ m.type \in Modifies /\ InWindow(band.base, m.price)
      /\ band.valid /\ m \in Msgs /\ eng.rest # NoOrder
  <2>1. /\ m.type = "replace" /\ InWindow(band.base, m.price) /\ band.valid
        /\ eng.rest # NoOrder
    BY <1>1 DEF EInv, EngInv, Registers, Removing
  <2>2. m.type \in Modifies
    BY <2>1 DEF Modifies
  <2> QED
    BY <2>1, <2>2, EngFields DEF EInv, EngInv
<1>6. pulse'.cmd \in Cmds \cup {NoCmd}
  BY <1>2, <1>4
<1>7. ASSUME ~resp.fails PROVE m.ref \in DOMAIN before /\ eng.rest = before[m.ref]
  BY <1>1, <1>7 DEF EInv, EngInv, Progress, Removing
<1>8. CASE (Raised \/ Open \/ Underway) /\ Handshake'
  <2>1. ~Served
    BY <1>8 DEF Raised, Open, Underway, Served
  <2> QED
    BY <1>1, <1>4, <1>5, <1>6, <1>8, <2>1, Holds DEF EngInv
<1>9. CASE Served /\ Handshake'
  <2>1. TypedEng' /\ Registers'
    BY <1>1, <1>4, <1>5, <1>6, <1>9, Holds
  <2>2. ~resp.fails /\ Executed' /\ eng' = eng /\ Executes(Wanted) /\ ~Executed
    BY <1>1, <1>9 DEF Served, EInv, EngInv, Failing
  <2>3. Failing'
    BY <1>1, <2>2 DEF Failing
  <2>4. LiveOrders = Remaining /\ DOMAIN LiveOrders = LiveRefs
    BY <1>1, <2>2 DEF EInv, EngInv, Progress, LiveOrders
  <2>5. ASSUME ~resp'.fails
        PROVE  IF resp'.found
               THEN m.nref \notin DOMAIN Remaining
                    /\ LiveOrders' = Ref!Put(Remaining, m.nref, o)
               ELSE m.nref \in DOMAIN Remaining /\ LiveOrders' = Remaining
    <3>1. PICK c : c = o
      OBVIOUS
    <3>2. PICK r : r = m.nref
      OBVIOUS
    <3>3. Executes(Insert(r, c, TRUE))
      BY <1>2, <2>2, <3>1, <3>2
    <3> QED
      BY <2>4, <2>5, <3>1, <3>2, <3>3, ExecutesInsert
  <2>6. Remaining' = Remaining /\ Readded' = Readded
    BY <2>2 DEF Remaining, Readded
  <2>7. ASSUME ~resp'.fails PROVE Progress'
    BY <1>1, <1>7, <2>2, <2>5, <2>6, <2>7 DEF Progress, Readded, Removing
  <2> QED
    BY <1>9, <2>1, <2>3, <2>7 DEF EngInv
<1>10. CASE Answered(answered)
  <2>1. /\ eng.req /\ eng' = [answered EXCEPT !.req = FALSE] /\ Executed
        /\ probe'.state = "idle" /\ ~resp'.done
        /\ LiveOrders' = LiveOrders /\ resp'.fails = resp.fails /\ LiveRefs' = LiveRefs
    BY <1>10 DEF Answered, Same, LiveOrders
  <2>2. LevelAddr(m.price) \in Addrs
    BY <1>5, MsgFields, LevelAddrType, BookAssumption DEF EInv, EngInv
  <2>3. /\ eng' \in EngType /\ ~eng'.req /\ eng'.msg = m /\ eng'.rest = eng.rest
        /\ eng'.state = IF resp.found THEN "radd_lvl" ELSE "finish"
        /\ resp.found => eng'.addr = LevelAddr(m.price)
    <3>1. eng \in EngType
      BY DEF EInv, EngInv, TypedEng, EngType
    <3>2. PICK la : la = LevelAddr(m.price) /\ la \in Addrs
      BY <2>2
    <3>3. PICK e : e = answered
      OBVIOUS
    <3>4. CASE resp.found
      <4>1. e = [eng EXCEPT !.state = "radd_lvl", !.addr = la]
        BY <3>2, <3>3, <3>4 DEF answered
      <4>2. /\ e \in EngType /\ e.msg = m /\ e.rest = eng.rest
            /\ e.state = "radd_lvl" /\ e.addr = LevelAddr(m.price)
        BY <3>1, <3>2, <4>1 DEF EngType, States, Removing
      <4>3. eng' = [e EXCEPT !.req = FALSE]
        BY <2>1, <3>3
      <4> QED
        BY <3>4, <4>2, <4>3 DEF EngType
    <3>5. CASE ~resp.found
      <4>1. e = [eng EXCEPT !.state = "finish"]
        BY <3>3, <3>5 DEF answered
      <4>2. e \in EngType /\ e.msg = m /\ e.rest = eng.rest /\ e.state = "finish"
        BY <3>1, <4>1 DEF EngType, States
      <4>3. eng' = [e EXCEPT !.req = FALSE]
        BY <2>1, <3>3
      <4> QED
        BY <3>5, <4>2, <4>3 DEF EngType
    <3> QED
      BY <3>4, <3>5
  <2>4. TypedEng'
    BY <1>4, <1>6, <2>3 DEF TypedEng, EInv, EngInv, EngType
  <2>5. Handshake' /\ ~Executed'
    BY <1>4, <2>1, <2>3 DEF Handshake, Executed
  <2>6. LevelAddr(m.price)' = LevelAddr(m.price)
    BY <1>4, <2>3 DEF LevelAddr
  <2>7. Registers'
    BY <1>1, <1>4, <1>5, <2>1, <2>3, <2>6 DEF Registers, EInv, EngInv, Removing
  <2>8. ASSUME ~resp.fails PROVE Progress'
    <3>1. IF resp.found THEN m.nref \notin DOMAIN Remaining /\ LiveOrders = Readded
          ELSE m.nref \in DOMAIN Remaining /\ LiveOrders = Remaining
      BY <1>1, <2>1, <2>8 DEF EInv, EngInv, Progress
    <3>2. Remaining' = Remaining
      BY <2>3 DEF Remaining
    <3>3. Readded' = Readded
      BY <2>3, <3>2 DEF Readded
    <3>4. CASE resp.found
      BY <1>7, <2>1, <2>3, <2>8, <3>1, <3>2, <3>3, <3>4 DEF Progress, Removing
    <3>5. CASE ~resp.found
      <4>1. Result(band.base, before, m) = LiveOrders
        BY <1>5, <1>7, <2>8, <3>1, <3>5 DEF Result, Adds, Remaining
      <4> QED
        BY <1>4, <2>1, <2>3, <3>5, <4>1 DEF Progress, Removing
    <3> QED
      BY <3>4, <3>5
  <2> QED
    BY <2>1, <2>3, <2>4, <2>5, <2>7, <2>8 DEF EngInv, Failing
<1> QED
  BY <1>4, <1>8, <1>9, <1>10

-----------------------------------------------------------------------------
(* Every clock keeps the invariant. *)

LEMMA BookTypes ==
  ASSUME EInv
  PROVE  TInv /\ EngInv /\ TypedEng /\ pulse.cmd \in Cmds \cup {NoCmd}
BY DEF EInv, EngInv, TypedEng

LEMMA WorksStep ==
  ASSUME EInv, TInv', TableMoves(pulse.cmd), Works, before' = before
  PROVE  EngInv'
<1>1. CASE AddTbl
  BY <1>1, AddTblStep
<1>2. CASE AddLvl
  BY <1>2, AddLvlStep
<1>3. CASE Lk
  BY <1>3, LkStep
<1>4. CASE ModLvl
  BY <1>4, ModLvlStep
<1>5. CASE ModTbl
  BY <1>5, ModTblStep
<1>6. CASE TellEmpty
  BY <1>6, TellEmptyStep
<1>7. CASE EmptyWait
  BY <1>7, EmptyWaitStep
<1>8. CASE RaddTbl
  BY <1>8, RaddTblStep
<1>9. CASE RaddLvl
  BY <1>9, RaddLvlStep
<1>10. CASE Finish
  BY <1>10, FinishStep
<1> QED
  BY <1>1, <1>2, <1>3, <1>4, <1>5, <1>6, <1>7, <1>8, <1>9, <1>10 DEF Works

LEMMA Busy ==
  ASSUME Works
  PROVE  eng.state # "idle"
BY DEF Works, AddTbl, AddLvl, Lk, ModLvl, ModTbl, TellEmpty, EmptyWait, RaddTbl,
       RaddLvl, Finish, Requests

LEMMA CycleStep ==
  ASSUME EInv, NEW m \in Msgs \cup {NoMsg}, Cycle(m)
  PROVE  EInv'
<1>1. TInv' /\ TableMoves(pulse.cmd)
  BY BookTypes, TableStep DEF Cycle, EngineClock, Beneath
<1>2. CASE m = NoMsg
  <2>1. Rest \/ Works
    BY <1>2 DEF Cycle, EngineClock
  <2>2. CASE Rest
    <3>1. before' = NoOrders
      BY <1>2, <2>2 DEF Rest, Cycle, Idle
    <3> QED
      BY <1>1, <2>2, <3>1, RestStep DEF EInv
  <2>3. CASE Works
    <3>1. before' = before
      BY <1>2, <2>3, Busy DEF Cycle, Idle
    <3> QED
      BY <1>1, <2>3, <3>1, WorksStep DEF EInv
  <2> QED
    BY <2>1, <2>2, <2>3
<1>3. CASE m # NoMsg
  <2>1. m \in Msgs /\ Takes(m) /\ ~resp.fails /\ before' = LiveOrders
    BY <1>3 DEF Cycle, EngineClock
  <2> QED
    BY <1>1, <2>1, TakeAddStep, TakeModifyStep, TakeOtherStep DEF Takes, EInv
<1> QED
  BY <1>2, <1>3

LEMMA ConfigureStep ==
  ASSUME EInv, NEW base \in CfgBases, Configure(base)
  PROVE  EInv'
<1>1. TInv' /\ TableMoves(pulse.cmd)
  BY BookTypes, TableStep DEF Configure, BandConfig, Beneath
<1> QED
  BY <1>1, ConfigStep DEF Configure, Idle, EInv

LEMMA EngineStep ==
  ASSUME EInv, [BookNext]_bookVars
  PROVE  EInv'
<1>1. CASE Ticks
  BY <1>1, CycleStep DEF Ticks
<1>2. CASE \E base \in CfgBases : Configure(base)
  BY <1>2, ConfigureStep
<1>3. CASE UNCHANGED bookVars
  <2>1. UNCHANGED <<mem, probe, resp, eng, pulse, band, before>>
    BY <1>3 DEF bookVars, engineVars, tableVars
  <2>2. TableIsMap' /\ TypedMem' /\ LiveOrders' = LiveOrders /\ LiveRefs' = LiveRefs
    BY <2>1, TableSame DEF EInv, TInv, TypedTable
  <2>3. \A r : Orders(r)' = Orders(r)
    BY <2>1 DEF Orders
  <2>4. TInv'
    BY <2>1, <2>2, <2>3 DEF EInv, TInv, TypedTable, Searching
  <2>5. Wanted' = Wanted /\ Amount' = Amount /\ Executed' = Executed
    BY <2>1 DEF Wanted, Amount, Executed
  <2>6. TypedEng' /\ Handshake' /\ Failing'
    BY <2>1, <2>5 DEF EInv, EngInv, TypedEng, Handshake, Failing
  <2>7. \A p : LevelAddr(p)' = LevelAddr(p)
    BY <2>1 DEF LevelAddr
  <2>8. Registers'
    BY <2>1, <2>2, <2>5, <2>7 DEF EInv, EngInv, Registers
  <2>9. Added' = Added /\ Remaining' = Remaining /\ Readded' = Readded
    BY <2>1 DEF Added, Remaining, Readded
  <2>10. ~resp.fails => Progress'
    BY <2>1, <2>2, <2>5, <2>9 DEF EInv, EngInv, Progress
  <2> QED
    BY <2>1, <2>4, <2>6, <2>8, <2>10 DEF EInv, EngInv
<1> QED
  BY <1>1, <1>2, <1>3 DEF BookNext

LEMMA BookStarts ==
  ASSUME BookInit
  PROVE  EInv
<1>1. /\ mem = [i \in Slots |-> Empty] /\ probe = IdleProbe
      /\ resp = [done |-> FALSE, found |-> FALSE, order |-> NoOrder, fails |-> FALSE]
      /\ eng = IdleEng /\ pulse = NoPulse /\ band = [valid |-> FALSE, base |-> 0]
      /\ before = NoOrders
  BY DEF BookInit, EngineInit, TableInit
<1>2. \A r \in Refs : Orders(r) = {}
  BY <1>1 DEF Orders, Empty
<1>3. LiveRefs = {}
  BY <1>2 DEF LiveRefs
<1>4. TableIsMap
  BY <1>1, <1>2 DEF TableIsMap
<1>5. 0 \in Slots /\ 0 \in 0 .. MaxProbe
  BY TableConstants DEF Slots
<1>6. TInv
  BY <1>1, <1>4, <1>5, ProbeFields, ProbeType
  DEF TInv, TypedTable, TypedMem, IdleProbe, Searching
<1>7. before \in Tables /\ 0 \in 0 .. PriceMod - 1
  <2>1. NoOrders \in [{} -> Ords] /\ {} \in SUBSET Refs
    BY DEF NoOrders
  <2>2. NoOrders \in Tables
    BY <2>1 DEF Tables
  <2>3. 0 \in 0 .. PriceMod - 1
    BY EngineConstants
  <2> QED
    BY <1>1, <2>2, <2>3
<1>8. TypedEng /\ ~eng.req /\ pulse.cmd = NoCmd /\ pulse.done = NoMsg /\ eng.state = "idle"
  BY <1>1, <1>7, IdleEngFields, PulseFields DEF TypedEng
<1>9. Handshake
  BY <1>1, <1>8, ProbeFields DEF Handshake, IdleProbe
<1>10. Registers /\ Failing /\ Progress
  BY <1>1, <1>3, <1>8 DEF Registers, Failing, Progress, Removing
<1> QED
  BY <1>6, <1>8, <1>9, <1>10 DEF EInv, EngInv

\* The table, the engine and the orders of the message under way are in step, clock
\* by clock.
THEOREM Inductive == BookSpec => []EInv
<1>1. BookInit => EInv
  BY BookStarts
<1>2. EInv /\ [BookNext]_bookVars => EInv'
  BY EngineStep
<1> QED
  BY <1>1, <1>2, PTL DEF BookSpec

\* The reference table is a map whatever the commands were: each reference in at
\* most one slot, and in reach of the probes from its home.
THEOREM TableMapped == BookSpec => []TableIsMap
<1>1. EInv => TableIsMap
  BY DEF EInv, TInv
<1> QED
  BY <1>1, Inductive, PTL

\* When engine_done is high the orders are what the message makes of those there
\* were when it was taken.
THEOREM WholeMessages == BookSpec => []MessagesAreWhole
<1>1. ASSUME EInv PROVE MessagesAreWhole
  <2>1. SUFFICES ASSUME pulse.done # NoMsg, ~resp.fails
                 PROVE  LiveOrders = Outcome(before, pulse.done)
    BY DEF MessagesAreWhole
  <2>2. eng.state = "idle" /\ pulse.done \in Msgs
    BY <1>1, <2>1 DEF EInv, EngInv, Registers, TypedEng
  <2>3. LiveOrders = Result(band.base, before, pulse.done)
    BY <1>1, <2>1, <2>2 DEF EInv, EngInv, Progress
  <2> QED
    BY <2>2, <2>3, OutcomeIs
<1> QED
  BY <1>1, Inductive, PTL

-----------------------------------------------------------------------------
(* Sums of shares.  A sum over a set of orders is the number of the shares *)
(* of its members, each share a unit of its own: what an order adds to it  *)
(* or takes off it does not depend on the order the sum is computed in.    *)

Units(os, rs) == {u \in rs \X (1 .. SharesMod) : u[2] <= os[u[1]].shares}
Total(os, rs) == Cardinality(Units(os, rs))

LEMMA UnitsOfOne ==
  ASSUME NEW os, NEW r, os[r].shares \in 0 .. SharesMod - 1
  PROVE  IsFiniteSet(Units(os, {r})) /\ Cardinality(Units(os, {r})) = os[r].shares
<1>1. PICK n \in Nat : n = os[r].shares /\ n <= SharesMod
  BY EngineConstants
<1>2. PICK T : T = Units(os, {r})
  OBVIOUS
<1>3. \A u : u \in T <=> \E k \in 1 .. n : u = <<r, k>>
  BY <1>1, <1>2, EngineConstants DEF Units
<1> DEFINE f == [k \in 1 .. n |-> <<r, k>>]
<1>4. f \in [1 .. n -> T]
  BY <1>3
<1>5. \A a, b \in 1 .. n : f[a] = f[b] => a = b
  OBVIOUS
<1>6. \A t \in T : \E k \in 1 .. n : f[k] = t
  BY <1>3
<1> HIDE DEF f
<1>7. ExistsBijection(1 .. n, T)
  <2>1. f \in Injection(1 .. n, T)
    BY <1>4, <1>5 DEF Injection, IsInjective
  <2>2. f \in Surjection(1 .. n, T)
    BY <1>4, <1>6 DEF Surjection
  <2> QED
    BY <2>1, <2>2 DEF ExistsBijection, Bijection
<1>8. IsFiniteSet(1 .. n) /\ Cardinality(1 .. n) = n
  <2>1. 1 \in Int /\ n \in Int
    OBVIOUS
  <2>2. IsFiniteSet(1 .. n) /\ Cardinality(1 .. n) = IF 1 > n THEN 0 ELSE n - 1 + 1
    BY <2>1, FS_Interval, Zenon
  <2> QED
    BY <2>2
<1> QED
  BY <1>1, <1>2, <1>7, <1>8, FS_Bijection

LEMMA UnitsFinite ==
  ASSUME NEW os, NEW rs, IsFiniteSet(rs)
  PROVE  IsFiniteSet(Units(os, rs)) /\ Total(os, rs) \in Nat
<1>1. IsFiniteSet(1 .. SharesMod)
  BY EngineConstants, FS_Interval
<1>2. IsFiniteSet(rs \X (1 .. SharesMod))
  BY <1>1, FS_Product
<1>3. Units(os, rs) \in SUBSET (rs \X (1 .. SharesMod))
  BY DEF Units
<1> QED
  BY <1>2, <1>3, FS_Subset, FS_CardinalityType DEF Total

LEMMA TotalEmpty ==
  ASSUME NEW os
  PROVE  Total(os, {}) = 0
<1>1. Units(os, {}) = {}
  BY DEF Units
<1> QED
  BY <1>1, FS_EmptySet DEF Total

LEMMA TotalPlus ==
  ASSUME NEW os, NEW rs, IsFiniteSet(rs), NEW r, r \notin rs,
         os[r].shares \in 0 .. SharesMod - 1
  PROVE  Total(os, rs \cup {r}) = Total(os, rs) + os[r].shares
<1>1. Units(os, rs \cup {r}) = Units(os, rs) \cup Units(os, {r})
  BY DEF Units
<1>2. Units(os, rs) \cap Units(os, {r}) = {}
  BY DEF Units
<1>3. Cardinality(Units(os, rs \cup {r}))
        = Cardinality(Units(os, rs)) + Cardinality(Units(os, {r})) - Cardinality({})
  <2>1. PICK A, B : A = Units(os, rs) /\ B = Units(os, {r})
    OBVIOUS
  <2>2. IsFiniteSet(A) /\ IsFiniteSet(B)
    BY <2>1, UnitsFinite, UnitsOfOne
  <2>3. Cardinality(A \cup B) = Cardinality(A) + Cardinality(B) - Cardinality(A \cap B)
    BY <2>2, FS_Union, Zenon
  <2> QED
    BY <1>1, <1>2, <2>1, <2>3, Zenon
<1> QED
  BY <1>3, FS_EmptySet, UnitsFinite, UnitsOfOne, EngineConstants DEF Total

LEMMA TotalSame ==
  ASSUME NEW os, NEW os2, NEW rs, \A r \in rs : os2[r].shares = os[r].shares
  PROVE  Total(os2, rs) = Total(os, rs)
<1>1. Units(os2, rs) = Units(os, rs)
  BY DEF Units
<1> QED
  BY <1>1 DEF Total

\* What a sum is more with one order than without it.
LEMMA TotalWith ==
  ASSUME NEW os, NEW rs, IsFiniteSet(rs), NEW r \in rs,
         os[r].shares \in 0 .. SharesMod - 1
  PROVE  /\ Total(os, rs) = Total(os, rs \ {r}) + os[r].shares
         /\ IsFiniteSet(rs \ {r}) /\ Total(os, rs \ {r}) \in Nat
<1>1. IsFiniteSet(rs \ {r})
  BY FS_RemoveElement
<1>2. (rs \ {r}) \cup {r} = rs
  OBVIOUS
<1>3. PICK t : t = rs \ {r}
  OBVIOUS
<1>4. Total(os, t \cup {r}) = Total(os, t) + os[r].shares
  BY <1>1, <1>3, TotalPlus
<1> QED
  BY <1>1, <1>2, <1>3, <1>4, UnitsFinite

\* A sum of the model is the number of the shares.
LEMMA SumIsTotal ==
  ASSUME NEW f, NEW S, IsFiniteSet(S), \A r \in S : f[r].shares \in 0 .. SharesMod - 1
  PROVE  MapThenSumSet(LAMBDA r : f[r].shares, S) = Total(f, S)
<1> DEFINE of(h) == [s \in SUBSET S |->
                       IF s = {} THEN 0
                       ELSE f[CHOOSE x \in s : TRUE].shares + h[s \ {CHOOSE x \in s : TRUE}]]
           sum == [s \in SUBSET S |-> Total(f, s)]
<1>1. ASSUME NEW s \in SUBSET S, s # {}
      PROVE  LET x == CHOOSE y \in s : TRUE
             IN  /\ Total(f, s) = f[x].shares + Total(f, s \ {x})
                 /\ s \ {x} \in SUBSET S /\ IsFiniteSet(s \ {x})
                 /\ Cardinality(s \ {x}) = Cardinality(s) - 1
                 /\ f[x].shares \in Nat
  <2>1. PICK x : x = CHOOSE y \in s : TRUE
    OBVIOUS
  <2>2. x \in s /\ f[x].shares \in 0 .. SharesMod - 1 /\ f[x].shares \in Nat
    BY <1>1, <2>1, EngineConstants
  <2>3. IsFiniteSet(s)
    BY FS_Subset
  <2>4. Total(f, s) = Total(f, s \ {x}) + f[x].shares /\ Total(f, s \ {x}) \in Nat
    BY <2>2, <2>3, TotalWith
  <2>5. IsFiniteSet(s \ {x}) /\ Cardinality(s \ {x}) = Cardinality(s) - 1
    BY <2>2, <2>3, FS_RemoveElement
  <2> QED
    BY <2>1, <2>2, <2>4, <2>5
<1>2. sum = of(sum)
  <2>1. ASSUME NEW s \in SUBSET S PROVE sum[s] = of(sum)[s]
    BY <1>1, TotalEmpty
  <2> QED
    BY <2>1
<1>3. ASSUME NEW h, h = of(h) PROVE h[S] = Total(f, S)
  <2> DEFINE wrong == {n \in Nat : \E s \in SUBSET S : Cardinality(s) = n /\ h[s] # Total(f, s)}
  <2>1. SUFFICES ASSUME wrong # {} PROVE FALSE
    <3>1. S \in SUBSET S /\ Cardinality(S) \in Nat
      BY FS_CardinalityType
    <3> QED
      BY <3>1
  <2>2. PICK n \in wrong : \A k \in wrong : n <= k
    BY <2>1, LeastExists
  <2>3. PICK s \in SUBSET S : Cardinality(s) = n /\ h[s] # Total(f, s)
    BY <2>2
  <2>4. h[s] = IF s = {} THEN 0
               ELSE f[CHOOSE x \in s : TRUE].shares + h[s \ {CHOOSE x \in s : TRUE}]
    BY <1>3
  <2>5. s # {}
    BY <2>3, <2>4, TotalEmpty
  <2>6. PICK x : x = CHOOSE y \in s : TRUE
    OBVIOUS
  <2>7. /\ Total(f, s) = f[x].shares + Total(f, s \ {x}) /\ s \ {x} \in SUBSET S
        /\ Cardinality(s \ {x}) = n - 1 /\ IsFiniteSet(s \ {x})
    BY <1>1, <2>3, <2>5, <2>6
  <2>8. n - 1 \in Nat
    BY <2>7, FS_CardinalityType
  <2>9. h[s \ {x}] = Total(f, s \ {x})
    <3>1. n - 1 \notin wrong
      BY <2>2, <2>8
    <3> QED
      BY <2>7, <2>8, <3>1
  <2> QED
    BY <2>3, <2>4, <2>5, <2>6, <2>7, <2>9
<1>4. PICK total : total = Total(f, S)
  OBVIOUS
<1>5. \A h : h = of(h) => h[S] = total
  BY <1>3, <1>4
<1>6. \E g : g = of(g)
  BY <1>2
<1> HIDE DEF sum
<1>7. MapThenSumSet(LAMBDA r : f[r].shares, S) = total
  BY <1>5, <1>6 DEF MapThenSumSet, MapThenFoldSet
<1> QED
  BY <1>4, <1>7

-----------------------------------------------------------------------------
(* The level memories and the orders they speak of. *)

AddrAt(base, price) == (price - base) % PriceLevels
At(base, os, side, x) ==
  {r \in DOMAIN os : os[r].side = side /\ AddrAt(base, os[r].price) = x}
On(os, side) == {r \in DOMAIN os : os[r].side = side}

Depths ==
  [Sides -> [level : [Addrs -> [shares : 0 .. SharesMod - 1, count : Int]],
             cnt : Int, tot : Int]]

\* The level memories d hold the orders os, with the band at base.
DepthIs(d, base, os) ==
  \A side \in Sides :
    /\ \A x \in Addrs :
         /\ d[side].level[x].shares = Total(os, At(base, os, side, x))
         /\ d[side].level[x].count = Cardinality(At(base, os, side, x))
    /\ d[side].cnt = Cardinality(On(os, side))
    /\ d[side].tot = Total(os, On(os, side))

LEMMA TableFacts ==
  ASSUME NEW os \in Tables
  PROVE  /\ os = [r \in DOMAIN os |-> os[r]] /\ IsFiniteSet(DOMAIN os)
         /\ DOMAIN os \subseteq Refs
         /\ \A r \in DOMAIN os : os[r] \in Ords /\ os[r].shares \in 0 .. SharesMod - 1
<1>1. PICK rs \in SUBSET Refs : os \in [rs -> Ords]
  BY DEF Tables
<1>2. IsFiniteSet(rs)
  BY BookAssumption, FS_Subset
<1> QED
  BY <1>1, <1>2, OrdFields

LEMMA PartsFinite ==
  ASSUME NEW os \in Tables, NEW base, NEW side, NEW x
  PROVE  /\ IsFiniteSet(At(base, os, side, x)) /\ IsFiniteSet(On(os, side))
         /\ Cardinality(At(base, os, side, x)) \in Nat /\ Cardinality(On(os, side)) \in Nat
         /\ Total(os, At(base, os, side, x)) \in Nat /\ Total(os, On(os, side)) \in Nat
<1>1. At(base, os, side, x) \in SUBSET (DOMAIN os) /\ On(os, side) \in SUBSET (DOMAIN os)
  BY DEF At, On
<1>2. IsFiniteSet(At(base, os, side, x)) /\ IsFiniteSet(On(os, side))
  BY <1>1, TableFacts, FS_Subset
<1> QED
  BY <1>2, FS_CardinalityType, UnitsFinite

\* One order more in a set of orders.
LEMMA SetPlus ==
  ASSUME NEW os \in Tables, NEW r, r \notin DOMAIN os, NEW o \in Ords,
         NEW rs, IsFiniteSet(rs), rs \subseteq DOMAIN os
  PROVE  /\ Total(Ref!Put(os, r, o), rs) = Total(os, rs)
         /\ Total(Ref!Put(os, r, o), rs \cup {r}) = Total(os, rs) + o.shares
         /\ Cardinality(rs \cup {r}) = Cardinality(rs) + 1
<1>1. PICK os2 : os2 = Ref!Put(os, r, o)
  OBVIOUS
<1>2. os2[r] = o /\ \A q \in rs : os2[q].shares = os[q].shares
  BY <1>1 DEF Ref!Put
<1>3. r \notin rs /\ os2[r].shares \in 0 .. SharesMod - 1
  BY <1>2, OrdFields
<1> QED
  BY <1>1, <1>2, <1>3, TotalSame, TotalPlus, FS_AddElement

\* One order more: the set of each level and of each side.
LEMMA PartsPlus ==
  ASSUME NEW os \in Tables, NEW r, r \notin DOMAIN os, NEW o \in Ords, NEW base,
         NEW side, NEW x
  PROVE  /\ At(base, Ref!Put(os, r, o), side, x) =
              IF side = o.side /\ x = AddrAt(base, o.price)
              THEN At(base, os, side, x) \cup {r} ELSE At(base, os, side, x)
         /\ On(Ref!Put(os, r, o), side) =
              IF side = o.side THEN On(os, side) \cup {r} ELSE On(os, side)
         /\ At(base, os, side, x) \subseteq DOMAIN os /\ On(os, side) \subseteq DOMAIN os
<1>1. PICK os2 : os2 = Ref!Put(os, r, o)
  OBVIOUS
<1>2. /\ DOMAIN os2 = DOMAIN os \cup {r} /\ os2[r] = o
      /\ \A q \in DOMAIN os : os2[q] = os[q]
  BY <1>1 DEF Ref!Put
<1> QED
  BY <1>1, <1>2 DEF At, On

\* One level of a side and its sums are written, all else stays.
Levels == [shares : 0 .. SharesMod - 1, count : Int]
Change(d, s, x, l, c, t) == [d EXCEPT ![s].level[x] = l, ![s].cnt = c, ![s].tot = t]

LEMMA ChangeIs ==
  ASSUME NEW d \in Depths, NEW s \in Sides, NEW x \in Addrs, NEW l \in Levels,
         NEW c \in Int, NEW t \in Int
  PROVE  /\ Change(d, s, x, l, c, t) \in Depths
         /\ \A side \in Sides :
              /\ \A y \in Addrs :
                   Change(d, s, x, l, c, t)[side].level[y] =
                     IF side = s /\ y = x THEN l ELSE d[side].level[y]
              /\ Change(d, s, x, l, c, t)[side].cnt = IF side = s THEN c ELSE d[side].cnt
              /\ Change(d, s, x, l, c, t)[side].tot = IF side = s THEN t ELSE d[side].tot
<1>1. PICK e : e = d[s]
  OBVIOUS
<1>2. e \in [level : [Addrs -> Levels], cnt : Int, tot : Int]
  BY <1>1 DEF Depths, Levels
<1>3. PICK g : g = [e.level EXCEPT ![x] = l]
  OBVIOUS
<1>4. g \in [Addrs -> Levels] /\ \A y \in Addrs : g[y] = IF y = x THEN l ELSE e.level[y]
  <2>1. e.level \in [Addrs -> Levels]
    BY <1>2
  <2> QED
    BY <1>3, <2>1
<1>5. PICK f : f = [level |-> g, cnt |-> c, tot |-> t]
  OBVIOUS
<1>6. [e EXCEPT !.level[x] = l, !.cnt = c, !.tot = t] = f
  <2>1. PICK lv, ct, tt : e = [level |-> lv, cnt |-> ct, tot |-> tt]
    BY <1>2
  <2>2. PICK u : u = [level |-> g, cnt |-> ct, tot |-> tt]
    OBVIOUS
  <2>3. PICK v : v = [level |-> g, cnt |-> c, tot |-> tt]
    OBVIOUS
  <2>4. [e EXCEPT !.level[x] = l] = u
    BY <1>3, <2>1, <2>2
  <2>5. [u EXCEPT !.cnt = c] = v /\ [v EXCEPT !.tot = t] = f
    BY <1>5, <2>2, <2>3
  <2>6. [e EXCEPT !.level[x] = l, !.cnt = c, !.tot = t]
          = [[[e EXCEPT !.level[x] = l] EXCEPT !.cnt = c] EXCEPT !.tot = t]
    BY <2>1
  <2> QED
    BY <2>4, <2>5, <2>6
<1>7. Change(d, s, x, l, c, t) = [d EXCEPT ![s] = f]
  <2>1. Change(d, s, x, l, c, t)
          = [d EXCEPT ![s] = [e EXCEPT !.level[x] = l, !.cnt = c, !.tot = t]]
    BY <1>1, <1>2 DEF Change, Depths
  <2> QED
    BY <1>6, <2>1
<1> QED
  BY <1>1, <1>4, <1>5, <1>7 DEF Depths, Levels

LEMMA DepthPlus ==
  ASSUME NEW d \in Depths, NEW base, NEW os \in Tables, NEW r, r \notin DOMAIN os,
         NEW o \in Ords, NEW x \in Addrs, x = AddrAt(base, o.price), DepthIs(d, base, os),
         NEW l \in Levels, NEW c \in Int, NEW t \in Int,
         l.shares = d[o.side].level[x].shares + o.shares,
         l.count = d[o.side].level[x].count + 1,
         c = d[o.side].cnt + 1, t = d[o.side].tot + o.shares
  PROVE  DepthIs(Change(d, o.side, x, l, c, t), base, Ref!Put(os, r, o))
<1>1. PICK os2 : os2 = Ref!Put(os, r, o)
  OBVIOUS
<1>2. PICK s \in Sides : s = o.side
  BY OrdFields
<1>3. PICK d2 : d2 = Change(d, s, x, l, c, t)
  OBVIOUS
<1>4. ASSUME NEW side \in Sides, NEW y \in Addrs
      PROVE  /\ d2[side].level[y].shares = Total(os2, At(base, os2, side, y))
             /\ d2[side].level[y].count = Cardinality(At(base, os2, side, y))
             /\ d2[side].cnt = Cardinality(On(os2, side))
             /\ d2[side].tot = Total(os2, On(os2, side))
  <2>1. PICK at : at = At(base, os, side, y)
    OBVIOUS
  <2>2. PICK on : on = On(os, side)
    OBVIOUS
  <2>3. /\ IsFiniteSet(at) /\ at \subseteq DOMAIN os /\ IsFiniteSet(on) /\ on \subseteq DOMAIN os
    BY <2>1, <2>2, PartsFinite, PartsPlus
  <2>4. /\ At(base, os2, side, y) = IF side = s /\ y = x THEN at \cup {r} ELSE at
        /\ On(os2, side) = IF side = s THEN on \cup {r} ELSE on
    BY <1>1, <1>2, <2>1, <2>2, PartsPlus
  <2>5. /\ Total(os2, at) = Total(os, at) /\ Total(os2, on) = Total(os, on)
        /\ Total(os2, at \cup {r}) = Total(os, at) + o.shares
        /\ Total(os2, on \cup {r}) = Total(os, on) + o.shares
        /\ Cardinality(at \cup {r}) = Cardinality(at) + 1
        /\ Cardinality(on \cup {r}) = Cardinality(on) + 1
    BY <1>1, <2>3, SetPlus
  <2>6. /\ d[side].level[y].shares = Total(os, at) /\ d[side].level[y].count = Cardinality(at)
        /\ d[side].cnt = Cardinality(on) /\ d[side].tot = Total(os, on)
    BY <2>1, <2>2 DEF DepthIs
  <2>7. /\ d2[side].level[y] = IF side = s /\ y = x THEN l ELSE d[side].level[y]
        /\ d2[side].cnt = IF side = s THEN c ELSE d[side].cnt
        /\ d2[side].tot = IF side = s THEN t ELSE d[side].tot
    BY <1>3, ChangeIs
  <2> QED
    BY <1>2, <2>4, <2>5, <2>6, <2>7
<1> QED
  <2>1. 0 \in Addrs
    BY EngineConstants DEF Addrs
  <2>2. DepthIs(d2, base, os2)
    BY <1>4, <2>1 DEF DepthIs
  <2> QED
    BY <1>1, <1>2, <1>3, <2>2

\* The orders os2 are os but for amt shares taken off the order at r.
IsLess(os, os2, r, amt) ==
  /\ DOMAIN os2 = IF amt = os[r].shares THEN DOMAIN os \ {r} ELSE DOMAIN os
  /\ \A q \in DOMAIN os \ {r} : os2[q] = os[q]
  /\ amt # os[r].shares =>
       /\ os2[r].side = os[r].side /\ os2[r].price = os[r].price
       /\ os2[r].shares = os[r].shares - amt

\* Shares less in a set of orders.
LEMMA SetsLess ==
  ASSUME NEW os \in Tables, NEW r \in DOMAIN os, NEW amt \in 0 .. os[r].shares,
         NEW os2, IsLess(os, os2, r, amt)
  PROVE  \A rs \in SUBSET DOMAIN os :
           IsFiniteSet(rs) =>
             /\ r \notin rs => Total(os2, rs) = Total(os, rs)
             /\ r \in rs =>
                  IF amt = os[r].shares
                  THEN /\ Total(os2, rs \ {r}) = Total(os, rs) - amt
                       /\ Cardinality(rs \ {r}) = Cardinality(rs) - 1
                  ELSE Total(os2, rs) = Total(os, rs) - amt
<1> SUFFICES ASSUME NEW rs \in SUBSET DOMAIN os, IsFiniteSet(rs)
             PROVE  /\ r \notin rs => Total(os2, rs) = Total(os, rs)
                    /\ r \in rs =>
                         IF amt = os[r].shares
                         THEN /\ Total(os2, rs \ {r}) = Total(os, rs) - amt
                              /\ Cardinality(rs \ {r}) = Cardinality(rs) - 1
                         ELSE Total(os2, rs) = Total(os, rs) - amt
  OBVIOUS
<1>1. os[r].shares - amt \in 0 .. SharesMod - 1
  <2>1. PICK has \in 0 .. SharesMod - 1 : has = os[r].shares
    BY TableFacts
  <2> QED
    BY <2>1, EngineConstants
<1>2. /\ \A q \in rs \ {r} : os2[q] = os[q]
      /\ amt # os[r].shares => os2[r].shares = os[r].shares - amt
      /\ os[r].shares - amt \in 0 .. SharesMod - 1
  BY <1>1 DEF IsLess
<1>3. os[r].shares \in 0 .. SharesMod - 1
  BY TableFacts
<1>4. CASE r \notin rs
  <2>1. \A q \in rs : os2[q].shares = os[q].shares
    BY <1>2, <1>4
  <2> QED
    BY <1>4, <2>1, TotalSame
<1>5. CASE r \in rs
  <2>1. PICK rest : rest = rs \ {r}
    OBVIOUS
  <2>2. IsFiniteSet(rest) /\ Cardinality(rest) = Cardinality(rs) - 1
    BY <1>5, <2>1, FS_RemoveElement
  <2>3. Total(os2, rest) = Total(os, rest)
    <3>1. \A q \in rest : os2[q].shares = os[q].shares
      BY <1>2, <2>1
    <3> QED
      BY <3>1, TotalSame
  <2>4. Total(os, rs) = Total(os, rest) + os[r].shares /\ Total(os, rest) \in Nat
    BY <1>3, <1>5, <2>1, TotalWith
  <2>5. CASE amt = os[r].shares
    BY <1>3, <1>5, <2>1, <2>2, <2>3, <2>4, <2>5, EngineConstants
  <2>6. CASE amt # os[r].shares
    <3>1. os2[r].shares \in 0 .. SharesMod - 1
      BY <1>2, <2>6
    <3>2. Total(os2, rs) = Total(os2, rest) + os2[r].shares
      BY <1>5, <2>1, <3>1, TotalWith
    <3> QED
      BY <1>2, <1>3, <1>5, <2>3, <2>4, <2>6, <3>2, EngineConstants
  <2> QED
    BY <2>5, <2>6
<1> QED
  BY <1>4, <1>5

LEMMA PartsLess ==
  ASSUME NEW os \in Tables, NEW r \in DOMAIN os, NEW amt \in 0 .. os[r].shares,
         NEW os2, IsLess(os, os2, r, amt), NEW base, NEW side, NEW x
  PROVE  /\ At(base, os2, side, x) =
              IF amt = os[r].shares THEN At(base, os, side, x) \ {r} ELSE At(base, os, side, x)
         /\ On(os2, side) =
              IF amt = os[r].shares THEN On(os, side) \ {r} ELSE On(os, side)
         /\ At(base, os, side, x) \subseteq DOMAIN os /\ On(os, side) \subseteq DOMAIN os
         /\ r \in At(base, os, side, x) <=>
              side = os[r].side /\ x = AddrAt(base, os[r].price)
         /\ r \in On(os, side) <=> side = os[r].side
<1>1. /\ DOMAIN os2 = IF amt = os[r].shares THEN DOMAIN os \ {r} ELSE DOMAIN os
      /\ \A q \in DOMAIN os2 : os2[q].side = os[q].side /\ os2[q].price = os[q].price
  BY DEF IsLess
<1> QED
  BY <1>1 DEF At, On

LEMMA DepthMinus ==
  ASSUME NEW d \in Depths, NEW base, NEW os \in Tables, NEW r \in DOMAIN os,
         NEW amt \in 0 .. os[r].shares, NEW os2, IsLess(os, os2, r, amt), NEW x \in Addrs, x = AddrAt(base, os[r].price),
         DepthIs(d, base, os), NEW l \in Levels, NEW c \in Int, NEW t \in Int,
         l.shares = d[os[r].side].level[x].shares - amt,
         l.count = IF amt = os[r].shares THEN d[os[r].side].level[x].count - 1
                   ELSE d[os[r].side].level[x].count,
         c = IF amt = os[r].shares THEN d[os[r].side].cnt - 1 ELSE d[os[r].side].cnt,
         t = d[os[r].side].tot - amt
  PROVE  DepthIs(Change(d, os[r].side, x, l, c, t), base, os2)
<1>2. PICK s \in Sides : s = os[r].side
  BY TableFacts, OrdFields
<1>3. PICK d2 : d2 = Change(d, s, x, l, c, t)
  OBVIOUS
<1>4. PICK gone \in BOOLEAN : gone <=> amt = os[r].shares
  OBVIOUS
<1>5. \A rs \in SUBSET DOMAIN os :
        IsFiniteSet(rs) =>
          /\ r \notin rs => Total(os2, rs) = Total(os, rs)
          /\ r \in rs =>
               IF amt = os[r].shares
               THEN /\ Total(os2, rs \ {r}) = Total(os, rs) - amt
                    /\ Cardinality(rs \ {r}) = Cardinality(rs) - 1
               ELSE Total(os2, rs) = Total(os, rs) - amt
  BY SetsLess
<1>6. ASSUME NEW side \in Sides, NEW y \in Addrs
      PROVE  /\ d2[side].level[y].shares = Total(os2, At(base, os2, side, y))
             /\ d2[side].level[y].count = Cardinality(At(base, os2, side, y))
             /\ d2[side].cnt = Cardinality(On(os2, side))
             /\ d2[side].tot = Total(os2, On(os2, side))
  <2>1. PICK at : at = At(base, os, side, y)
    OBVIOUS
  <2>2. PICK on : on = On(os, side)
    OBVIOUS
  <2>3. /\ IsFiniteSet(at) /\ at \subseteq DOMAIN os /\ IsFiniteSet(on) /\ on \subseteq DOMAIN os
        /\ r \in at <=> side = s /\ y = x
        /\ r \in on <=> side = s
    BY <1>2, <2>1, <2>2, PartsFinite, PartsLess
  <2>4. /\ At(base, os2, side, y) = IF gone THEN at \ {r} ELSE at
        /\ On(os2, side) = IF gone THEN on \ {r} ELSE on
    BY <1>4, <2>1, <2>2, PartsLess
  <2>5. /\ r \notin at => Total(os2, at) = Total(os, at)
        /\ r \in at =>
             IF amt = os[r].shares
             THEN /\ Total(os2, at \ {r}) = Total(os, at) - amt
                  /\ Cardinality(at \ {r}) = Cardinality(at) - 1
             ELSE Total(os2, at) = Total(os, at) - amt
    BY <1>5, <2>3
  <2>6. /\ r \notin on => Total(os2, on) = Total(os, on)
        /\ r \in on =>
             IF amt = os[r].shares
             THEN /\ Total(os2, on \ {r}) = Total(os, on) - amt
                  /\ Cardinality(on \ {r}) = Cardinality(on) - 1
             ELSE Total(os2, on) = Total(os, on) - amt
    BY <1>5, <2>3
  <2>7. /\ d[side].level[y].shares = Total(os, at) /\ d[side].level[y].count = Cardinality(at)
        /\ d[side].cnt = Cardinality(on) /\ d[side].tot = Total(os, on)
    BY <2>1, <2>2 DEF DepthIs
  <2>8. /\ d2[side].level[y] = IF side = s /\ y = x THEN l ELSE d[side].level[y]
        /\ d2[side].cnt = IF side = s THEN c ELSE d[side].cnt
        /\ d2[side].tot = IF side = s THEN t ELSE d[side].tot
    BY <1>3, ChangeIs, SMTT(30)
  <2>9. /\ d2[side].level[y].shares = Total(os2, At(base, os2, side, y))
        /\ d2[side].level[y].count = Cardinality(At(base, os2, side, y))
    <3>1. CASE r \in at
      BY <1>2, <1>4, <2>3, <2>4, <2>5, <2>7, <2>8, <3>1
    <3>2. CASE r \notin at
      <4>1. at \ {r} = at
        BY <3>2
      <4> QED
        BY <1>2, <1>4, <2>3, <2>4, <2>5, <2>7, <2>8, <3>2, <4>1
    <3> QED
      BY <3>1, <3>2
  <2>10. /\ d2[side].cnt = Cardinality(On(os2, side))
         /\ d2[side].tot = Total(os2, On(os2, side))
    <3>1. CASE r \in on
      BY <1>2, <1>4, <2>3, <2>4, <2>6, <2>7, <2>8, <3>1
    <3>2. CASE r \notin on
      <4>1. on \ {r} = on
        BY <3>2
      <4> QED
        BY <1>2, <1>4, <2>3, <2>4, <2>6, <2>7, <2>8, <3>2, <4>1
    <3> QED
      BY <3>1, <3>2
  <2> QED
    BY <2>9, <2>10
<1> QED
  <2>1. 0 \in Addrs
    BY EngineConstants DEF Addrs
  <2>2. DepthIs(d2, base, os2)
    BY <1>6, <2>1 DEF DepthIs
  <2> QED
    BY <1>2, <1>3, <2>2

-----------------------------------------------------------------------------
(* Between the messages the levels hold the orders of the table; during one *)
(* they follow it in its own steps.                                         *)

\* The orders the level memories speak of.
Booked ==
  IF eng.state \in {"idle", "finish"} THEN LiveOrders
  ELSE IF eng.state \in Removing THEN Remaining
  ELSE before

DepthInv == depth \in Depths /\ (~resp.fails => DepthIs(depth, band.base, Booked))

\* Shares added to a level do not carry out of its register.
NoCarry ==
  /\ eng.state = "add_lvl" =>
       depth[eng.msg.side].level[eng.addr].shares + eng.msg.shares < SharesMod
  /\ eng.state = "radd_lvl" =>
       depth[eng.rest.side].level[eng.addr].shares + eng.msg.shares < SharesMod

LEMMA FailsStays ==
  ASSUME NEW cmd, TableMoves(cmd), resp.fails \in BOOLEAN, resp'.fails \in BOOLEAN
  PROVE  resp.fails => resp'.fails
BY DEF TableMoves, Accepts, Idles, Searches, Answers, Executes, Reports

LEMMA NoOrdersAnyBand ==
  ASSUME NEW d, NEW base, NEW base2, NEW os, DOMAIN os = {}, DepthIs(d, base, os)
  PROVE  DepthIs(d, base2, os)
<1>1. \A side, x : At(base2, os, side, x) = At(base, os, side, x)
  BY DEF At
<1>2. ASSUME NEW side \in Sides, NEW x \in Addrs
      PROVE  /\ d[side].level[x].shares = Total(os, At(base2, os, side, x))
             /\ d[side].level[x].count = Cardinality(At(base2, os, side, x))
  <2>1. /\ d[side].level[x].shares = Total(os, At(base, os, side, x))
        /\ d[side].level[x].count = Cardinality(At(base, os, side, x))
    BY DEF DepthIs
  <2>2. At(base2, os, side, x) = At(base, os, side, x)
    BY <1>1
  <2> QED
    BY <2>1, <2>2
<1> QED
  BY <1>2 DEF DepthIs

\* A step that leaves the level memories alone.
LEMMA DepthKept ==
  ASSUME DepthInv, depth' = depth, resp.fails => resp'.fails,
         ~resp'.fails => /\ Booked' = Booked
                         /\ band'.base = band.base \/ DOMAIN Booked = {}
  PROVE  DepthInv'
<1>1. ASSUME ~resp'.fails PROVE DepthIs(depth, band'.base, Booked')
  BY <1>1, NoOrdersAnyBand DEF DepthInv
<1> QED
  BY <1>1 DEF DepthInv

LEMMA TakingKeeps ==
  ASSUME EInv, TInv', TableMoves(pulse.cmd), NEW m \in Msgs, Takes(m), ~resp.fails,
         before' = LiveOrders
  PROVE  /\ depth' = depth /\ Booked' = Booked
         /\ band'.base = band.base \/ DOMAIN Booked = {}
<1>1. eng.state = "idle"
  BY DEF Takes, TakeAdd, TakeModify, TakeOther
<1>2. LiveOrders' = LiveOrders
  BY <1>1, NoRequestUnlessAsking, Calm DEF Requesting
<1>3. CASE TakeAdd(m)
  <2>1. /\ eng' = [IdleEng EXCEPT !.msg = m, !.state = IF InWindow(BaseEff(m.price), m.price)
                                                      THEN "add_tbl" ELSE "finish"]
        /\ band' = IF InWindow(BaseEff(m.price), m.price)
                   THEN [valid |-> TRUE, base |-> BaseEff(m.price)] ELSE band
        /\ depth' = depth
    BY <1>3 DEF TakeAdd
  <2>2. eng'.state \in {"add_tbl", "finish"}
    BY <2>1 DEF IdleEng
  <2>3. Booked' = Booked
    BY <1>1, <1>2, <2>2 DEF Booked, Removing
  <2>4. band'.base = band.base \/ ~band.valid
    BY <2>1 DEF BaseEff, EInv, EngInv, TypedEng
  <2>5. ~band.valid => DOMAIN Booked = {}
    BY <1>1 DEF Booked, EInv, EngInv, Registers, LiveOrders
  <2> QED
    BY <2>1, <2>3, <2>4, <2>5
<1>4. CASE TakeModify(m)
  <2>1. eng'.state = "lk" /\ UNCHANGED <<depth, band>>
    BY <1>4 DEF TakeModify, KeepsBook, IdleEng
  <2> QED
    BY <1>1, <1>2, <2>1 DEF Booked, Removing
<1>5. CASE TakeOther(m)
  <2>1. eng'.state = "finish" /\ UNCHANGED <<depth, band>>
    BY <1>5 DEF TakeOther, KeepsBook, IdleEng
  <2> QED
    BY <1>1, <1>2, <2>1 DEF Booked
<1> QED
  BY <1>3, <1>4, <1>5 DEF Takes

\* A state that holds a request open.
LEMMA RequestingKeeps ==
  ASSUME EInv, TInv', TableMoves(pulse.cmd), eng.state \in Requesting, before' = before,
         AddTbl \/ Lk \/ ModTbl \/ RaddTbl, ~resp'.fails
  PROVE  depth' = depth /\ band' = band /\ Booked' = Booked
<1>1. ASSUME NEW answered, Requests(eng.state, Wanted, answered)
      PROVE  /\ depth' = depth /\ band' = band
             /\ \/ eng'.state = eng.state /\ eng'.msg = eng.msg
                \/ Answered(answered)
  <2>1. \/ (Raised \/ Open \/ Served \/ Underway) /\ Handshake'
        \/ Answered(answered)
    BY <1>1, Asking
  <2>2. Raised \/ Open \/ Served \/ Underway => eng'.state = eng.state /\ eng'.msg = eng.msg
    BY DEF Raised, Open, Served, Underway, EInv, EngInv, TypedEng
  <2> QED
    BY <1>1, <2>1, <2>2 DEF Requests, KeepsBook
<1>2. ASSUME eng'.state = eng.state, eng'.msg = eng.msg PROVE Booked' = Booked
  BY <1>2 DEF Booked, Remaining, Requesting
<1>3. CASE AddTbl
  <2> DEFINE answered == IF resp.found
                         THEN [eng EXCEPT !.state = "add_lvl", !.addr = LevelAddr(eng.msg.price)]
                         ELSE [eng EXCEPT !.state = "finish"]
  <2>1. eng.state = "add_tbl"
    BY <1>3 DEF AddTbl, Requests
  <2>2. Requests(eng.state, Wanted, answered)
    BY <1>3, <2>1, WantedIs DEF AddTbl, Requests
  <2>3. CASE Answered(answered)
    <3>1. eng'.state = IF resp.found THEN "add_lvl" ELSE "finish"
      BY <2>3 DEF Answered, EInv, EngInv, TypedEng
    <3>2. Executed /\ ~resp.fails /\ LiveOrders' = LiveOrders
      BY <2>3 DEF Answered, Same
    <3>3. ~resp.found => LiveOrders = before
      BY <2>1, <3>2 DEF EInv, EngInv, Progress
    <3> QED
      BY <1>1, <2>1, <2>2, <3>1, <3>2, <3>3 DEF Booked, Removing
  <2> HIDE DEF answered
  <2> QED
    BY <1>1, <1>2, <2>2, <2>3
<1>4. CASE Lk
  <2> DEFINE answered == IF ~resp.found THEN [eng EXCEPT !.state = "finish"]
                         ELSE [eng EXCEPT !.state = "mod_lvl", !.rest = resp.order,
                                          !.addr = LevelAddr(resp.order.price)]
  <2>1. eng.state = "lk"
    BY <1>4 DEF Lk, Requests
  <2>2. Requests(eng.state, Wanted, answered)
    BY <1>4, <2>1, WantedIs DEF Lk, Requests
  <2>3. CASE Answered(answered)
    <3>1. eng'.state \in {"mod_lvl", "finish"}
      BY <2>3 DEF Answered, EInv, EngInv, TypedEng
    <3>2. ~resp.fails /\ LiveOrders' = LiveOrders
      BY <2>3 DEF Answered, Same
    <3>3. LiveOrders = before
      BY <2>1, <3>2 DEF EInv, EngInv, Progress
    <3> QED
      BY <1>1, <2>1, <2>2, <3>1, <3>2, <3>3 DEF Booked, Removing
  <2> HIDE DEF answered
  <2> QED
    BY <1>1, <1>2, <2>2, <2>3
<1>5. CASE ModTbl
  <2> DEFINE answered == [eng EXCEPT !.state = "empty"]
  <2>1. eng.state = "mod_tbl"
    BY <1>5 DEF ModTbl, Requests
  <2>2. Requests(eng.state, Wanted, answered)
    BY <1>5, <2>1, WantedIs DEF ModTbl, Requests
  <2>3. CASE Answered(answered)
    <3>1. eng'.state = "empty" /\ eng'.msg = eng.msg
      BY <2>3 DEF Answered, EInv, EngInv, TypedEng
    <3>2. Remaining' = Remaining
      BY <3>1 DEF Remaining
    <3> QED
      BY <1>1, <2>1, <2>2, <3>1, <3>2 DEF Booked, Removing
  <2> HIDE DEF answered
  <2> QED
    BY <1>1, <1>2, <2>2, <2>3
<1>6. CASE RaddTbl
  <2> DEFINE answered == IF resp.found
                         THEN [eng EXCEPT !.state = "radd_lvl", !.addr = LevelAddr(eng.msg.price)]
                         ELSE [eng EXCEPT !.state = "finish"]
  <2>1. eng.state = "radd_tbl"
    BY <1>6 DEF RaddTbl, Requests
  <2>2. Requests(eng.state, Wanted, answered)
    BY <1>6, <2>1, WantedIs DEF RaddTbl, Requests
  <2>3. CASE Answered(answered)
    <3>1. eng'.state = IF resp.found THEN "radd_lvl" ELSE "finish"
      BY <2>3 DEF Answered, EInv, EngInv, TypedEng
    <3>2. Executed /\ ~resp.fails /\ LiveOrders' = LiveOrders
      BY <2>3 DEF Answered, Same
    <3>3. ~resp.found => LiveOrders = Remaining
      BY <2>1, <3>2 DEF EInv, EngInv, Progress
    <3>4. eng'.msg = eng.msg
      BY <2>3 DEF Answered, EInv, EngInv, TypedEng
    <3>5. Remaining' = Remaining
      BY <3>4 DEF Remaining
    <3> QED
      BY <1>1, <2>1, <2>2, <3>1, <3>2, <3>3, <3>5 DEF Booked, Removing
  <2> HIDE DEF answered
  <2> QED
    BY <1>1, <1>2, <2>2, <2>3
<1> QED
  BY <1>3, <1>4, <1>5, <1>6

\* The other states that leave the level memories alone.
LEMMA OthersKeep ==
  ASSUME EInv, TInv', TableMoves(pulse.cmd), Rest \/ TellEmpty \/ EmptyWait \/ Finish,
         eng.state = "idle" \/ before' = before, ~resp'.fails
  PROVE  depth' = depth /\ band' = band /\ Booked' = Booked
<1>1. depth' = depth /\ band' = band /\ eng.state \notin Requesting
  BY DEF Rest, TellEmpty, EmptyWait, Finish, KeepsBook, Requesting
<1>2. LiveOrders' = LiveOrders /\ ~resp.fails
  BY <1>1, NoRequestUnlessAsking, Calm
<1>3. CASE Rest
  <2>1. eng.state = "idle" /\ eng'.state = "idle"
    BY <1>3 DEF Rest, IdleEng
  <2> QED
    BY <1>1, <1>2, <2>1 DEF Booked
<1>4. CASE TellEmpty
  <2>1. eng.state = "empty" /\ eng'.state = "empty_wait" /\ eng'.msg = eng.msg
    BY <1>4 DEF TellEmpty, EInv, EngInv, TypedEng
  <2>2. Remaining' = Remaining
    BY <2>1 DEF Remaining
  <2> QED
    BY <1>1, <2>1, <2>2 DEF Booked, Removing
<1>5. CASE EmptyWait
  <2>1. /\ eng.state = "empty_wait" /\ eng'.state \in {"empty_wait", "radd_tbl", "finish"}
        /\ eng'.msg = eng.msg
    BY <1>5 DEF EmptyWait, EInv, EngInv, TypedEng
  <2>2. Remaining' = Remaining
    BY <2>1 DEF Remaining
  <2>3. LiveOrders = Remaining
    BY <1>2, <2>1 DEF EInv, EngInv, Progress
  <2> QED
    BY <1>1, <1>2, <2>1, <2>2, <2>3 DEF Booked, Removing
<1>6. CASE Finish
  <2>1. eng.state = "finish" /\ eng'.state = "idle"
    BY <1>6 DEF Finish, IdleEng
  <2> QED
    BY <1>1, <1>2, <2>1 DEF Booked
<1> QED
  BY <1>3, <1>4, <1>5, <1>6

\* What a message's shares may be.
LEMMA AddedShares ==
  ASSUME EInv, eng.state \in {"add_lvl", "radd_lvl"}
  PROVE  /\ eng.msg \in Msgs /\ eng.msg.shares \in AddQtys /\ eng.msg.price \in Prices
         /\ eng.msg.shares \in 0 .. SharesMod - 1
         /\ eng.state = "add_lvl" => eng.msg.type = "add" /\ eng.msg.side \in Sides
         /\ eng.state = "radd_lvl" => eng.msg.type = "replace" /\ eng.rest.side \in Sides
         /\ eng.addr \in Addrs /\ eng.addr = AddrAt(band.base, eng.msg.price)
<1>1. /\ eng.msg \in Msgs \cup {NoMsg} /\ eng.addr \in Addrs /\ eng.rest \in Ords \cup {NoOrder}
      /\ NoMsg.type \notin {"add", "replace"}
  BY EngFields DEF EInv, EngInv, Modifies
<1>2. /\ eng.state = "add_lvl" => eng.msg.type = "add"
      /\ eng.state = "radd_lvl" => eng.msg.type = "replace" /\ eng.rest # NoOrder
      /\ eng.addr = LevelAddr(eng.msg.price)
  BY DEF EInv, EngInv, Registers, Removing
<1>3. eng.msg \in Msgs
  BY <1>1, <1>2
<1>4. eng.msg.shares \in AddQtys /\ eng.msg.price \in Prices
  BY <1>2, <1>3, MsgFields DEF Modifies
<1>5. eng.state = "add_lvl" => eng.msg.side \in Sides
  BY <1>2, <1>3, MsgFields
<1>6. eng.state = "radd_lvl" => eng.rest.side \in Sides
  BY <1>1, <1>2, OrdFields
<1> QED
  BY <1>1, <1>2, <1>3, <1>4, <1>5, <1>6, BookAssumption DEF LevelAddr, AddrAt

LEMMA DepthTypes ==
  ASSUME NEW d \in Depths, NEW s \in Sides, NEW x \in Addrs
  PROVE  /\ d[s].level[x].shares \in 0 .. SharesMod - 1 /\ d[s].level[x].count \in Int
         /\ d[s].level[x] \in Levels /\ d[s].cnt \in Int /\ d[s].tot \in Int
BY DEF Depths, Levels

LEMMA AddToIs ==
  ASSUME depth \in Depths, NEW s \in Sides, NEW x \in Addrs, NEW q \in 0 .. SharesMod - 1,
         AddTo(s, x, q), depth[s].level[x].shares + q < SharesMod
  PROVE  \E l \in Levels, c \in Int, t \in Int :
           /\ depth' = Change(depth, s, x, l, c, t)
           /\ l.shares = depth[s].level[x].shares + q
           /\ l.count = depth[s].level[x].count + 1
           /\ c = depth[s].cnt + 1 /\ t = depth[s].tot + q
<1>1. PICK l : l = [shares |-> (depth[s].level[x].shares + q) % SharesMod,
                    count |-> depth[s].level[x].count + 1]
  OBVIOUS
<1>2. PICK c, t : c = depth[s].cnt + 1 /\ t = depth[s].tot + q
  OBVIOUS
<1>3. depth' = Change(depth, s, x, l, c, t)
  BY <1>1, <1>2 DEF AddTo, Change
<1>4. PICK n \in 0 .. SharesMod - 1 : n = depth[s].level[x].shares + q
  BY DepthTypes, EngineConstants
<1>5. n % SharesMod = n
  BY EngineConstants
<1>6. l.shares = n /\ l.count = depth[s].level[x].count + 1 /\ l \in Levels
  BY <1>1, <1>4, <1>5, DepthTypes DEF Levels
<1>7. c \in Int /\ t \in Int
  BY <1>2, DepthTypes, EngineConstants
<1> QED
  BY <1>2, <1>3, <1>4, <1>6, <1>7

LEMMA BeforeTables ==
  ASSUME EInv
  PROVE  before \in Tables /\ LiveOrders \in Tables
BY LiveOrdersTable DEF EInv, EngInv, TypedEng

LEMMA AddLvlDepth ==
  ASSUME EInv, DepthInv, TInv', TableMoves(pulse.cmd), AddLvl, before' = before, NoCarry
  PROVE  DepthInv'
<1>1. /\ eng.state = "add_lvl" /\ eng'.state = "finish" /\ band' = band
      /\ AddTo(eng.msg.side, eng.addr, eng.msg.shares)
  BY DEF AddLvl, Goes, EInv, EngInv, TypedEng
<1>2. PICK s \in Sides, x \in Addrs, q \in 0 .. SharesMod - 1 :
        s = eng.msg.side /\ x = eng.addr /\ q = eng.msg.shares
  BY <1>1, AddedShares
<1>3. AddTo(s, x, q) /\ depth[s].level[x].shares + q < SharesMod
  BY <1>1, <1>2 DEF NoCarry
<1>4. PICK l \in Levels, c \in Int, t \in Int :
        /\ depth' = Change(depth, s, x, l, c, t)
        /\ l.shares = depth[s].level[x].shares + q
        /\ l.count = depth[s].level[x].count + 1
        /\ c = depth[s].cnt + 1 /\ t = depth[s].tot + q
  BY <1>3, AddToIs DEF DepthInv
<1>5. depth' \in Depths
  BY <1>4, ChangeIs DEF DepthInv
<1>6. LiveOrders' = LiveOrders /\ resp'.fails = resp.fails
  BY <1>1, NoRequestUnlessAsking, Calm DEF Requesting
<1>7. ASSUME ~resp.fails PROVE DepthIs(depth', band.base, LiveOrders)
  <2>1. eng.msg.ref \notin DOMAIN before /\ LiveOrders = Added
    BY <1>1, <1>7 DEF EInv, EngInv, Progress
  <2>2. PICK o : o = Order(eng.msg.side, eng.msg.price, eng.msg.shares)
    OBVIOUS
  <2>3. o \in Ords /\ o.side = s /\ o.shares = q /\ o.price = eng.msg.price
    BY <1>1, <1>2, <2>2, AddedShares, OrderType
  <2>4. x = AddrAt(band.base, o.price)
    BY <1>1, <1>2, <2>3, AddedShares
  <2>5. DepthIs(depth, band.base, before)
    BY <1>1, <1>7 DEF DepthInv, Booked, Removing
  <2>6. PICK r, os, d, base : r = eng.msg.ref /\ os = before /\ d = depth /\ base = band.base
    OBVIOUS
  <2>7. DepthIs(Change(d, o.side, x, l, c, t), base, Ref!Put(os, r, o))
    <3>1. os \in Tables /\ r \notin DOMAIN os /\ d \in Depths /\ DepthIs(d, base, os)
      BY <2>1, <2>5, <2>6, BeforeTables DEF DepthInv
    <3>2. /\ l.shares = d[o.side].level[x].shares + o.shares
          /\ l.count = d[o.side].level[x].count + 1
          /\ c = d[o.side].cnt + 1 /\ t = d[o.side].tot + o.shares
      BY <1>4, <2>3, <2>6
    <3> QED
      BY <2>3, <2>4, <2>6, <3>1, <3>2, DepthPlus
  <2>8. Change(d, o.side, x, l, c, t) = depth' /\ Ref!Put(os, r, o) = LiveOrders
    BY <1>4, <2>1, <2>2, <2>3, <2>6 DEF Added
  <2> QED
    BY <2>6, <2>7, <2>8
<1> QED
  BY <1>1, <1>5, <1>6, <1>7 DEF DepthInv, Booked

\* A removal leaves a table of orders.
LEMMA RemainingTable ==
  ASSUME EInv, eng.msg.type \in Modifies, eng.msg.ref \in DOMAIN before,
         eng.rest = before[eng.msg.ref]
  PROVE  /\ Remaining \in Tables /\ IsLess(before, Remaining, eng.msg.ref, Amount)
         /\ Amount \in 0 .. before[eng.msg.ref].shares
<1> DEFINE m == eng.msg
<1>1. /\ TypedEng /\ before \in Tables /\ eng.rest \in Ords
      /\ eng.rest.shares \in 0 .. SharesMod - 1
  BY BeforeTables, TableFacts, OrdFields DEF EInv, EngInv
<1>2. /\ Amount \in 0 .. eng.rest.shares
      /\ Amount = eng.rest.shares <=>
           m.type \in {"delete", "replace"} \/ eng.rest.shares <= m.shares
      /\ Amount # eng.rest.shares => Amount = m.shares
  BY <1>1, AmountIs
<1>3. PICK r : r = m.ref
  OBVIOUS
<1>4. PICK os : os = before
  OBVIOUS
<1>5. /\ os = [x \in DOMAIN os |-> os[x]] /\ DOMAIN os \subseteq Refs /\ r \in DOMAIN os
      /\ \A x \in DOMAIN os : os[x] \in Ords
  BY <1>1, <1>3, <1>4, BeforeIs
<1>6. CASE Amount = eng.rest.shares
  <2>1. Remaining = Ref!Drop(os, r)
    BY <1>2, <1>3, <1>4, <1>6 DEF Remaining, Left
  <2>2. /\ DOMAIN Remaining = DOMAIN os \ {r} /\ \A x \in DOMAIN os \ {r} : Remaining[x] = os[x]
        /\ Remaining \in [DOMAIN os \ {r} -> Ords]
    BY <1>5, <2>1 DEF Ref!Drop
  <2>3. Remaining \in Tables
    BY <1>5, <2>2 DEF Tables
  <2>4. IsLess(os, Remaining, r, Amount)
    BY <1>3, <1>4, <1>6, <2>2 DEF IsLess
  <2> QED
    BY <1>2, <1>3, <1>4, <2>3, <2>4 DEF IsLess
<1>7. CASE Amount # eng.rest.shares
  <2>1. PICK q : q = m.shares
    OBVIOUS
  <2>2. Remaining = [os EXCEPT ![r].shares = @ - q]
    BY <1>2, <1>3, <1>4, <1>7, <2>1 DEF Remaining, Left
  <2>3. PICK o \in Ords : o = os[r]
    BY <1>5
  <2>4. PICK n : n = o.shares - q
    OBVIOUS
  <2>5. n \in 0 .. SharesMod - 1 /\ n = o.shares - Amount
    <3>1. Amount \in Nat /\ eng.rest.shares \in Nat
      BY <1>1, <1>2, EngineConstants
    <3>2. o = eng.rest /\ q = Amount
      BY <1>2, <1>3, <1>4, <1>7, <2>1, <2>3
    <3> QED
      BY <1>1, <1>2, <2>4, <3>1, <3>2, EngineConstants
  <2>6. PICK v : v = [o EXCEPT !.shares = n]
    OBVIOUS
  <2>7. v \in Ords /\ v.side = o.side /\ v.price = o.price /\ v.shares = n
    BY <2>5, <2>6 DEF Ords
  <2>8. Remaining = [x \in DOMAIN os |-> IF x = r THEN v ELSE os[x]]
    <3>1. [os EXCEPT ![r].shares = @ - q] = [os EXCEPT ![r] = v]
      BY <1>5, <2>3, <2>4, <2>6
    <3> QED
      BY <1>5, <2>2, <3>1
  <2>9. /\ DOMAIN Remaining = DOMAIN os /\ \A x \in DOMAIN os \ {r} : Remaining[x] = os[x]
        /\ Remaining[r] = v /\ Remaining \in [DOMAIN os -> Ords]
    BY <1>5, <2>7, <2>8
  <2>10. Remaining \in Tables
    BY <1>5, <2>9 DEF Tables
  <2>11. PICK amt : amt = Amount
    OBVIOUS
  <2>12. IsLess(os, Remaining, r, amt)
    BY <1>3, <1>4, <1>7, <2>3, <2>5, <2>7, <2>9, <2>11 DEF IsLess
  <2> QED
    BY <1>2, <1>3, <1>4, <2>10, <2>11, <2>12
<1> QED
  BY <1>6, <1>7

LEMMA RaddLvlDepth ==
  ASSUME EInv, DepthInv, TInv', TableMoves(pulse.cmd), RaddLvl, before' = before, NoCarry
  PROVE  DepthInv'
<1>1. /\ eng.state = "radd_lvl" /\ eng'.state = "finish" /\ band' = band
      /\ AddTo(eng.rest.side, eng.addr, eng.msg.shares)
  BY DEF RaddLvl, Goes, EInv, EngInv, TypedEng
<1>2. PICK s \in Sides, x \in Addrs, q \in 0 .. SharesMod - 1 :
        s = eng.rest.side /\ x = eng.addr /\ q = eng.msg.shares
  BY <1>1, AddedShares
<1>3. AddTo(s, x, q) /\ depth[s].level[x].shares + q < SharesMod
  BY <1>1, <1>2 DEF NoCarry
<1>4. PICK l \in Levels, c \in Int, t \in Int :
        /\ depth' = Change(depth, s, x, l, c, t)
        /\ l.shares = depth[s].level[x].shares + q
        /\ l.count = depth[s].level[x].count + 1
        /\ c = depth[s].cnt + 1 /\ t = depth[s].tot + q
  BY <1>3, AddToIs DEF DepthInv
<1>5. depth' \in Depths
  BY <1>4, ChangeIs DEF DepthInv
<1>6. LiveOrders' = LiveOrders /\ resp'.fails = resp.fails
  BY <1>1, NoRequestUnlessAsking, Calm DEF Requesting
<1>7. ASSUME ~resp.fails PROVE DepthIs(depth', band.base, LiveOrders)
  <2>1. /\ eng.msg.nref \notin DOMAIN Remaining /\ LiveOrders = Readded
        /\ eng.msg.ref \in DOMAIN before /\ eng.rest = before[eng.msg.ref]
        /\ eng.msg.type \in Modifies
    BY <1>1, <1>7 DEF EInv, EngInv, Progress, Registers, Removing
  <2>2. PICK o : o = Order(eng.rest.side, eng.msg.price, eng.msg.shares)
    OBVIOUS
  <2>3. o \in Ords /\ o.side = s /\ o.shares = q /\ o.price = eng.msg.price
    BY <1>1, <1>2, <2>2, AddedShares, OrderType
  <2>4. x = AddrAt(band.base, o.price)
    BY <1>1, <1>2, <2>3, AddedShares
  <2>5. DepthIs(depth, band.base, Remaining)
    BY <1>1, <1>7 DEF DepthInv, Booked, Removing
  <2>6. PICK r, os, d, base :
          r = eng.msg.nref /\ os = Remaining /\ d = depth /\ base = band.base
    OBVIOUS
  <2>7. DepthIs(Change(d, o.side, x, l, c, t), base, Ref!Put(os, r, o))
    <3>1. os \in Tables /\ r \notin DOMAIN os /\ d \in Depths /\ DepthIs(d, base, os)
      BY <2>1, <2>5, <2>6, RemainingTable DEF DepthInv
    <3>2. /\ l.shares = d[o.side].level[x].shares + o.shares
          /\ l.count = d[o.side].level[x].count + 1
          /\ c = d[o.side].cnt + 1 /\ t = d[o.side].tot + o.shares
      BY <1>4, <2>3, <2>6
    <3> QED
      BY <2>3, <2>4, <2>6, <3>1, <3>2, DepthPlus
  <2>8. Change(d, o.side, x, l, c, t) = depth' /\ Ref!Put(os, r, o) = LiveOrders
    BY <1>4, <2>1, <2>2, <2>3, <2>6 DEF Readded
  <2> QED
    BY <2>6, <2>7, <2>8
<1> QED
  BY <1>1, <1>5, <1>6, <1>7 DEF DepthInv, Booked

\* The removal from a level takes no more than the level holds.
LEMMA LevelHolds ==
  ASSUME NEW d \in Depths, NEW base, NEW os \in Tables, NEW r \in DOMAIN os, DepthIs(d, base, os),
         NEW x \in Addrs, x = AddrAt(base, os[r].price)
  PROVE  os[r].shares <= d[os[r].side].level[x].shares
<1>1. os[r].side \in Sides /\ os[r].shares \in 0 .. SharesMod - 1
  BY TableFacts, OrdFields
<1>2. PICK at : at = At(base, os, os[r].side, x)
  OBVIOUS
<1>3. r \in at /\ IsFiniteSet(at)
  BY <1>2, PartsFinite DEF At
<1>4. Total(os, at) = Total(os, at \ {r}) + os[r].shares /\ Total(os, at \ {r}) \in Nat
  BY <1>1, <1>3, TotalWith
<1>5. d[os[r].side].level[x].shares = Total(os, at)
  BY <1>1, <1>2 DEF DepthIs
<1> QED
  BY <1>1, <1>4, <1>5, EngineConstants

LEMMA TakeFromIs ==
  ASSUME depth \in Depths, NEW s \in Sides, NEW x \in Addrs, NEW amt \in Nat, NEW gone \in BOOLEAN,
         TakeFrom(s, x, amt, gone), amt <= depth[s].level[x].shares
  PROVE  \E l \in Levels, c \in Int, t \in Int :
           /\ depth' = Change(depth, s, x, l, c, t)
           /\ l.shares = depth[s].level[x].shares - amt
           /\ l.count = IF gone THEN depth[s].level[x].count - 1 ELSE depth[s].level[x].count
           /\ c = IF gone THEN depth[s].cnt - 1 ELSE depth[s].cnt
           /\ t = depth[s].tot - amt
<1>1. PICK l : l = [shares |-> (depth[s].level[x].shares - amt) % SharesMod,
                    count |-> IF gone THEN depth[s].level[x].count - 1
                              ELSE depth[s].level[x].count]
  OBVIOUS
<1>2. PICK c, t : /\ c = IF gone THEN depth[s].cnt - 1 ELSE depth[s].cnt
                  /\ t = depth[s].tot - amt
  OBVIOUS
<1>3. depth' = Change(depth, s, x, l, c, t)
  BY <1>1, <1>2 DEF TakeFrom, Change
<1>4. PICK n \in 0 .. SharesMod - 1 : n = depth[s].level[x].shares - amt
  BY DepthTypes, EngineConstants
<1>5. n % SharesMod = n
  BY EngineConstants
<1>6. /\ l.shares = n /\ l \in Levels
      /\ l.count = IF gone THEN depth[s].level[x].count - 1 ELSE depth[s].level[x].count
  BY <1>1, <1>4, <1>5, DepthTypes DEF Levels
<1>7. c \in Int /\ t \in Int
  BY <1>2, DepthTypes
<1> QED
  BY <1>2, <1>3, <1>4, <1>6, <1>7

LEMMA ModLvlDepth ==
  ASSUME EInv, DepthInv, TInv', TableMoves(pulse.cmd), ModLvl, before' = before
  PROVE  DepthInv'
<1> DEFINE rem == eng.rest.shares - Amount
<1>1. /\ eng.state = "mod_lvl" /\ band' = band
      /\ TakeFrom(eng.rest.side, eng.addr, Amount, rem = 0)
      /\ eng'.state = "mod_tbl" /\ eng'.msg = eng.msg
  BY DEF ModLvl, EInv, EngInv, TypedEng
<1>2. ~eng.req /\ ~resp.fails
  BY <1>1, NoRequestUnlessAsking DEF Requesting, EInv, EngInv, Failing
<1>3. LiveOrders' = LiveOrders /\ resp'.fails = resp.fails
  BY <1>2, Calm
<1>4. /\ eng.msg.type \in Modifies /\ eng.msg.ref \in DOMAIN before
      /\ eng.rest = before[eng.msg.ref] /\ eng.addr = LevelAddr(eng.rest.price)
      /\ eng.addr \in Addrs
  BY <1>1, <1>2, EngFields DEF EInv, EngInv, Progress, Registers
<1>5. /\ Remaining \in Tables /\ IsLess(before, Remaining, eng.msg.ref, Amount)
      /\ Amount \in 0 .. before[eng.msg.ref].shares
  BY <1>4, RemainingTable
<1>6. DepthIs(depth, band.base, before)
  BY <1>1, <1>2 DEF DepthInv, Booked, Removing
<1>7. PICK r, os, d, base, amt, os2 :
        /\ r = eng.msg.ref /\ os = before /\ d = depth /\ base = band.base /\ amt = Amount
        /\ os2 = Remaining
  OBVIOUS
<1>8. PICK x : x = eng.addr
  OBVIOUS
<1>9. /\ os \in Tables /\ r \in DOMAIN os /\ d \in Depths /\ DepthIs(d, base, os)
      /\ IsLess(os, os2, r, amt) /\ amt \in 0 .. os[r].shares
      /\ x \in Addrs /\ x = AddrAt(base, os[r].price)
  BY <1>4, <1>5, <1>6, <1>7, <1>8, BeforeTables DEF DepthInv, AddrAt, LevelAddr
<1>10. os[r].side \in Sides /\ os[r].shares \in 0 .. SharesMod - 1
  BY <1>9, TableFacts, OrdFields
<1>11. amt \in Nat /\ amt <= d[os[r].side].level[x].shares
  BY <1>9, <1>10, LevelHolds, DepthTypes, EngineConstants
<1>12. PICK gone \in BOOLEAN : gone <=> amt = os[r].shares
  OBVIOUS
<1>13. PICK s \in Sides : s = os[r].side
  BY <1>10
<1>14. TakeFrom(s, x, amt, gone)
  <2>1. rem = 0 <=> gone
    BY <1>4, <1>7, <1>9, <1>10, <1>11, <1>12, EngineConstants, SMTT(30)
  <2>2. eng.rest.side = s
    BY <1>4, <1>7, <1>13
  <2> QED
    BY <1>1, <1>7, <1>8, <2>1, <2>2 DEF TakeFrom
<1>15. PICK l \in Levels, c \in Int, t \in Int :
         /\ depth' = Change(d, s, x, l, c, t)
         /\ l.shares = d[s].level[x].shares - amt
         /\ l.count = IF gone THEN d[s].level[x].count - 1 ELSE d[s].level[x].count
         /\ c = IF gone THEN d[s].cnt - 1 ELSE d[s].cnt
         /\ t = d[s].tot - amt
  <2>1. /\ depth = d /\ depth \in Depths /\ s \in Sides /\ x \in Addrs /\ amt \in Nat
        /\ amt <= depth[s].level[x].shares
    BY <1>7, <1>9, <1>11, <1>13
  <2>2. \E l \in Levels, c \in Int, t \in Int :
          /\ depth' = Change(depth, s, x, l, c, t)
          /\ l.shares = depth[s].level[x].shares - amt
          /\ l.count = IF gone THEN depth[s].level[x].count - 1
                       ELSE depth[s].level[x].count
          /\ c = IF gone THEN depth[s].cnt - 1 ELSE depth[s].cnt
          /\ t = depth[s].tot - amt
    BY <2>1, <1>14, TakeFromIs, Zenon
  <2> QED
    BY <2>1, <2>2, Zenon
<1>16. DepthIs(Change(d, os[r].side, x, l, c, t), base, os2)
  BY <1>9, <1>12, <1>13, <1>15, DepthMinus
<1>17. depth' \in Depths
  BY <1>7, <1>9, <1>15, ChangeIs, SMTT(30)
<1>18. Remaining' = Remaining
  BY <1>1 DEF Remaining
<1>19. Booked' = Remaining
  BY <1>1, <1>18 DEF Booked, Removing
<1> QED
  BY <1>1, <1>7, <1>13, <1>15, <1>16, <1>17, <1>19 DEF DepthInv

LEMMA DepthStep ==
  ASSUME EInv, DepthInv, NoCarry, [BookNext]_bookVars
  PROVE  DepthInv'
<1>1. resp.fails \in BOOLEAN /\ EInv' /\ resp'.fails \in BOOLEAN
  BY EngineStep DEF EInv, TInv, TypedTable
<1>2. ASSUME NEW m \in Msgs \cup {NoMsg}, Cycle(m) PROVE DepthInv'
  <2>1. TInv' /\ TableMoves(pulse.cmd)
    BY <1>2, BookTypes, TableStep DEF Cycle, EngineClock, Beneath
  <2>2. resp.fails => resp'.fails
    BY <1>1, <2>1, FailsStays
  <2>3. CASE m = NoMsg
    <3>1. Rest \/ Works
      BY <1>2, <2>3 DEF Cycle, EngineClock
    <3>2. eng.state = "idle" \/ before' = before
      BY <1>2, <2>3 DEF Cycle, Idle
    <3>3. Works => before' = before
      BY <3>2, Busy
    <3>4. CASE Rest \/ TellEmpty \/ EmptyWait \/ Finish
      <4>1. depth' = depth
        BY <3>4 DEF Rest, TellEmpty, EmptyWait, Finish, KeepsBook
      <4> QED
        BY <2>1, <2>2, <3>2, <3>4, <4>1, OthersKeep, DepthKept
    <3>5. CASE AddTbl \/ Lk \/ ModTbl \/ RaddTbl
      <4>1. depth' = depth /\ eng.state \in Requesting
        BY <3>5 DEF AddTbl, Lk, ModTbl, RaddTbl, Requests, KeepsBook, Requesting
      <4>2. before' = before
        BY <3>3, <3>5 DEF Works
      <4> QED
        BY <2>1, <2>2, <3>5, <4>1, <4>2, RequestingKeeps, DepthKept
    <3>6. CASE AddLvl
      BY <2>1, <3>3, <3>6, AddLvlDepth DEF Works
    <3>7. CASE ModLvl
      BY <2>1, <3>3, <3>7, ModLvlDepth DEF Works
    <3>8. CASE RaddLvl
      BY <2>1, <3>3, <3>8, RaddLvlDepth DEF Works
    <3> QED
      BY <3>1, <3>4, <3>5, <3>6, <3>7, <3>8 DEF Works
  <2>4. CASE m # NoMsg
    <3>1. m \in Msgs /\ Takes(m) /\ ~resp.fails /\ before' = LiveOrders
      BY <1>2, <2>4 DEF Cycle, EngineClock
    <3> QED
      BY <2>1, <2>2, <3>1, TakingKeeps, DepthKept
  <2> QED
    BY <2>3, <2>4
<1>3. ASSUME NEW base \in CfgBases, Configure(base) PROVE DepthInv'
  <2>1. TInv' /\ TableMoves(pulse.cmd)
    BY <1>3, BookTypes, TableStep DEF Configure, BandConfig, Beneath
  <2>2. /\ eng' = eng /\ depth' = depth /\ eng.state = "idle" /\ ~band.valid
    BY <1>3 DEF Configure, BandConfig, Idle
  <2>3. LiveOrders' = LiveOrders /\ resp'.fails = resp.fails
    BY <2>1, <2>2, NoRequestUnlessAsking, Calm DEF Requesting
  <2>4. Booked' = Booked /\ DOMAIN Booked = {}
    BY <2>2, <2>3 DEF Booked, EInv, EngInv, Registers, LiveOrders
  <2> QED
    BY <2>2, <2>3, <2>4, DepthKept
<1>4. CASE UNCHANGED bookVars
  <2>1. UNCHANGED <<mem, resp, eng, depth, band, before>>
    BY <1>4 DEF bookVars, engineVars, tableVars
  <2>2. LiveOrders' = LiveOrders
    BY <2>1, TableSame
  <2>3. Booked' = Booked
    BY <2>1, <2>2 DEF Booked, Remaining
  <2> QED
    BY <2>1, <2>3, DepthKept
<1> QED
  BY <1>2, <1>3, <1>4 DEF BookNext, Ticks


LEMMA DepthStarts ==
  ASSUME BookInit
  PROVE  DepthInv
<1>1. /\ depth = [side \in Sides |-> NoDepth] /\ eng = IdleEng /\ mem = [i \in Slots |-> Empty]
  BY DEF BookInit, EngineInit, TableInit
<1>2. LiveRefs = {}
  BY <1>1 DEF LiveRefs, Orders, Empty
<1>3. Booked = LiveOrders /\ DOMAIN LiveOrders = {}
  BY <1>1, <1>2 DEF Booked, IdleEng, LiveOrders
<1>4. NoLevel \in Levels /\ NoDepth \in [level : [Addrs -> Levels], cnt : Int, tot : Int]
  BY EngineConstants DEF NoLevel, NoDepth, Levels
<1>5. depth \in Depths
  BY <1>1, <1>4 DEF Depths, Levels
<1>6. \A side, x : At(band.base, Booked, side, x) = {} /\ On(Booked, side) = {}
  BY <1>3 DEF At, On
<1>7. Cardinality({}) = 0
  BY FS_EmptySet
<1>8. ASSUME NEW side \in Sides, NEW x \in Addrs
      PROVE  depth[side].level[x].shares = 0 /\ depth[side].level[x].count = 0
  BY <1>1 DEF NoDepth, NoLevel
<1>9. ASSUME NEW side \in Sides PROVE depth[side].cnt = 0 /\ depth[side].tot = 0
  BY <1>1 DEF NoDepth
<1>10. DepthIs(depth, band.base, Booked)
  BY <1>6, <1>7, <1>8, <1>9, TotalEmpty DEF DepthIs
<1> QED
  BY <1>5, <1>10 DEF DepthInv

\* In every cycle the level memories hold the orders the message under way has
\* brought them to.
THEOREM DepthInductive == BookSpec /\ []NoCarry => []DepthInv
<1>1. BookInit => DepthInv
  BY DepthStarts
<1>2. EInv /\ DepthInv /\ NoCarry /\ [BookNext]_bookVars => DepthInv'
  BY DepthStep
<1> QED
  BY <1>1, <1>2, Inductive, PTL DEF BookSpec

\* What the sums of a side are, in the words of the property.
LEMMA LevelsMatch ==
  ASSUME EInv, DepthInv
  PROVE  LevelsMatchTable
<1>1. SUFFICES ASSUME eng.state = "idle", ~resp.fails, NEW side \in Sides
      PROVE
      LET at(x) == {r \in LiveRefs : LiveOrders[r].side = side
                                     /\ LevelAddr(LiveOrders[r].price) = x}
          shares(rs) == MapThenSumSet(LAMBDA r : LiveOrders[r].shares, rs)
          all == UNION {at(x) : x \in Addrs}
      IN  /\ \A x \in Addrs :
               depth[side].level[x] = [shares |-> shares(at(x)),
                                       count |-> Cardinality(at(x))]
          /\ depth[side].cnt = Cardinality(all)
          /\ depth[side].tot = shares(all)
  BY DEF LevelsMatchTable, Idle
<1> DEFINE at(x) == {r \in LiveRefs : LiveOrders[r].side = side
                                     /\ LevelAddr(LiveOrders[r].price) = x}
           all == UNION {at(x) : x \in Addrs}
<1>2. /\ depth \in Depths /\ DepthIs(depth, band.base, LiveOrders)
      /\ LiveOrders \in Tables /\ DOMAIN LiveOrders = LiveRefs
  BY <1>1, BeforeTables DEF DepthInv, Booked, LiveOrders
<1>3. \A x : at(x) = At(band.base, LiveOrders, side, x)
  BY <1>2 DEF At, AddrAt, LevelAddr
<1>4. all = On(LiveOrders, side)
  <2>1. ASSUME NEW r \in LiveRefs PROVE LevelAddr(LiveOrders[r].price) \in Addrs
    <3>1. LiveOrders[r] \in Ords
      BY <1>2, TableFacts
    <3>2. LiveOrders[r].price \in 0 .. PriceMod - 1
      BY <3>1, OrdFields
    <3> QED
      BY <3>2, LevelAddrType DEF EInv, EngInv, TypedEng
  <2> QED
    BY <1>2, <2>1 DEF On
<1>5. \A r \in LiveRefs : LiveOrders[r].shares \in 0 .. SharesMod - 1
  BY <1>2, TableFacts
<1>6. PICK f : f = LiveOrders
  OBVIOUS
<1>7. /\ \A x : IsFiniteSet(at(x)) /\ (\A r \in at(x) : f[r].shares \in 0 .. SharesMod - 1)
      /\ IsFiniteSet(all) /\ \A r \in all : f[r].shares \in 0 .. SharesMod - 1
  <2>1. ASSUME NEW x PROVE at(x) \subseteq LiveRefs /\ IsFiniteSet(at(x))
    <3>1. IsFiniteSet(At(band.base, LiveOrders, side, x))
      BY <1>2, PartsFinite
    <3> QED
      BY <1>3, <3>1
  <2>2. all \subseteq LiveRefs /\ IsFiniteSet(all)
    <3>1. On(LiveOrders, side) \subseteq LiveRefs
      BY <1>2 DEF On
    <3>2. IsFiniteSet(On(LiveOrders, side))
      BY <1>2, PartsFinite, Zenon
    <3> QED
      BY <1>4, <3>1, <3>2, Zenon
  <2> QED
    BY <1>5, <1>6, <2>1, <2>2
<1> HIDE DEF at, all
<1> DEFINE shares(rs) == MapThenSumSet(LAMBDA r : LiveOrders[r].shares, rs)
<1>8. ASSUME NEW S, IsFiniteSet(S), \A r \in S : f[r].shares \in 0 .. SharesMod - 1
      PROVE  shares(S) = Total(f, S)
  <2>1. \A r \in S : LiveOrders[r].shares \in 0 .. SharesMod - 1
    BY <1>6, <1>8
  <2>2. shares(S) = Total(LiveOrders, S)
    BY <1>8, <2>1, SumIsTotal
  <2> QED
    BY <1>6, <2>2
<1> HIDE DEF shares
<1>9. (\A x : shares(at(x)) = Total(f, at(x))) /\ shares(all) = Total(f, all)
  BY <1>7, <1>8
<1>10. ASSUME NEW x \in Addrs
       PROVE  depth[side].level[x] = [shares |-> Total(f, at(x)), count |-> Cardinality(at(x))]
  <2>1. depth[side].level[x] \in Levels
    BY <1>2, DepthTypes
  <2>2. /\ depth[side].level[x].shares = Total(f, at(x))
        /\ depth[side].level[x].count = Cardinality(at(x))
    BY <1>2, <1>3, <1>6 DEF DepthIs
  <2> QED
    BY <2>1, <2>2 DEF Levels
<1>11. depth[side].cnt = Cardinality(all) /\ depth[side].tot = Total(f, all)
  BY <1>2, <1>4, <1>6 DEF DepthIs
<1> QED
  <2>1. /\ \A x \in Addrs :
              depth[side].level[x] = [shares |-> shares(at(x)), count |-> Cardinality(at(x))]
        /\ depth[side].cnt = Cardinality(all)
        /\ depth[side].tot = shares(all)
    BY <1>9, <1>10, <1>11
  <2> QED
    BY <2>1, Zenon DEF at, all, shares

\* The levels, the counts and the volumes of both sides are those of the orders in
\* the reference table between messages, as long as no addition carries out of a
\* level's register.
THEOREM LevelsMapped == BookSpec /\ []NoCarry => []LevelsMatchTable
<1>1. EInv /\ DepthInv => LevelsMatchTable
  BY LevelsMatch
<1> QED
  BY <1>1, Inductive, DepthInductive, PTL

-----------------------------------------------------------------------------
(* The trackers and the levels that hold shares. *)

Trackers == [scanning : BOOLEAN, valid : BOOLEAN, addr : Addrs, idx : Addrs]
BestRequests ==
  {NoRequest} \cup {AddAt(side, x) : side \in Sides, x \in Addrs}
  \cup {EmptiedAt(side, x) : side \in Sides, x \in Addrs}

Full(d, side) == {x \in Addrs : d[side].level[x].shares # 0}

\* The tracker t has the extreme level of those in full, ...
Extreme(side, t, full) ==
  /\ ~t.scanning
  /\ t.valid => t.addr \in full
  /\ \A x \in full : t.valid /\ ~Beats(side, x, t.addr)
\* ... or would have it but for level a, added or emptied, ...
ExtremeBut(side, t, full, a) ==
  /\ ~t.scanning
  /\ t.valid => t.addr \in full \cup {a}
  /\ \A x \in full \ {a} : t.valid /\ ~Beats(side, x, t.addr)
\* ... or is on its way inwards to it.
Scans(side, t, full) ==
  /\ t.scanning
  /\ \A x \in full : ~Beats(side, x, t.idx)

LEMMA TrackerFields ==
  ASSUME NEW t \in Trackers
  PROVE  /\ t.scanning \in BOOLEAN /\ t.valid \in BOOLEAN /\ t.addr \in Addrs
         /\ t.idx \in Addrs /\ t.addr \in Int /\ t.idx \in Int
BY EngineConstants DEF Trackers, Addrs

LEMMA RequestFields ==
  ASSUME NEW side, NEW x
  PROVE  /\ AddAt(side, x).op = "add" /\ AddAt(side, x).side = side
         /\ AddAt(side, x).addr = x
         /\ EmptiedAt(side, x).op = "empty" /\ EmptiedAt(side, x).side = side
         /\ EmptiedAt(side, x).addr = x
         /\ NoRequest.op = "none" /\ NoRequest.side = "none"
BY DEF AddAt, EmptiedAt, NoRequest

LEMMA InwardIs ==
  ASSUME NEW side \in Sides, NEW x \in Addrs
  PROVE  /\ Inward(side, x) \in Addrs
         /\ x # Boundary(side) =>
              Inward(side, x) = IF side = "bid" THEN x - 1 ELSE x + 1
         /\ x = Boundary(side) =>
              Inward(side, x) = IF side = "bid" THEN PriceLevels - 1 ELSE 0
<1>1. PriceLevels \in Nat \ {0} /\ x \in Int /\ 0 <= x /\ x < PriceLevels
  BY EngineConstants DEF Addrs
<1>2. PICK n : n = IF side = "bid" THEN x - 1 ELSE x + 1
  OBVIOUS
<1>3. n \in Int /\ Inward(side, x) = n % PriceLevels
  BY <1>1, <1>2 DEF Inward
<1>4. n % PriceLevels \in 0 .. PriceLevels - 1
  BY <1>1, <1>3
<1>5. ASSUME x # Boundary(side) PROVE n % PriceLevels = n
  <2>1. n \in 0 .. PriceLevels - 1
    BY <1>1, <1>2, <1>5 DEF Boundary, Sides
  <2> QED
    BY <1>1, <2>1
<1>6. ASSUME x = Boundary(side), side = "bid" PROVE n % PriceLevels = PriceLevels - 1
  <2>1. n = -1
    BY <1>1, <1>2, <1>6 DEF Boundary
  <2>2. (-1) % PriceLevels = PriceLevels - 1
    BY <1>1
  <2> QED
    BY <2>1, <2>2
<1>7. ASSUME x = Boundary(side), side # "bid" PROVE n % PriceLevels = 0
  <2>1. n = PriceLevels
    BY <1>1, <1>2, <1>7 DEF Boundary
  <2> QED
    BY <1>1, <2>1
<1> QED
  BY <1>2, <1>3, <1>4, <1>5, <1>6, <1>7 DEF Addrs

\* An add brings a tracker up to its level.
LEMMA AddedMoves ==
  ASSUME NEW side \in Sides, best[side] \in Trackers, NEW full, full \subseteq Addrs,
         NEW a \in full, NEW nonempty, ExtremeBut(side, best[side], full, a)
  PROVE  /\ TrackerIdle(side, AddAt(side, a), nonempty) \in Trackers
         /\ Extreme(side, TrackerIdle(side, AddAt(side, a), nonempty), full)
<1>1. PICK t \in Trackers : t = best[side]
  OBVIOUS
<1>2. PICK u : u = [t EXCEPT !.valid = TRUE, !.addr = a]
  OBVIOUS
<1>3. TrackerIdle(side, AddAt(side, a), nonempty)
        = IF ~t.valid \/ Beats(side, a, t.addr) THEN u ELSE t
  <2>1. PICK req : req = AddAt(side, a)
    OBVIOUS
  <2>2. req.side = side /\ req.op = "add" /\ req.addr = a
    BY <2>1, RequestFields
  <2>3. u = [t EXCEPT !.valid = TRUE, !.addr = req.addr]
    BY <1>2, <2>2
  <2>4. TrackerIdle(side, req, nonempty) = IF ~t.valid \/ Beats(side, a, t.addr) THEN u ELSE t
    BY <1>1, <2>2, <2>3, Zenon DEF TrackerIdle
  <2> QED
    BY <2>1, <2>4
<1>4. a \in Addrs /\ a \in Int /\ \A x \in full : x \in Int
  BY EngineConstants DEF Addrs
<1>5. u \in Trackers /\ u.scanning = t.scanning /\ u.valid = TRUE /\ u.addr = a
  BY <1>2, <1>4 DEF Trackers
<1>6. ~t.scanning /\ (t.valid => t.addr \in full)
      /\ \A x \in full : x = a \/ (t.valid /\ ~Beats(side, x, t.addr))
  BY <1>1 DEF ExtremeBut
<1>7. CASE ~t.valid \/ Beats(side, a, t.addr)
  <2>1. \A x \in full : ~Beats(side, x, a)
    BY <1>4, <1>6, <1>7, TrackerFields DEF Beats
  <2> QED
    BY <1>3, <1>5, <1>6, <1>7, <2>1 DEF Extreme
<1>8. CASE ~(~t.valid \/ Beats(side, a, t.addr))
  BY <1>3, <1>6, <1>8, TrackerFields DEF Extreme
<1> QED
  BY <1>7, <1>8

\* The best level emptied starts a scan, unless the side is empty.
LEMMA EmptiedMoves ==
  ASSUME NEW side \in Sides, best[side] \in Trackers, NEW full, full \subseteq Addrs,
         NEW a \in Addrs, a \notin full, NEW nonempty \in BOOLEAN, ~nonempty => full = {},
         ExtremeBut(side, best[side], full, a)
  PROVE  /\ TrackerIdle(side, EmptiedAt(side, a), nonempty) \in Trackers
         /\ IF best[side].valid /\ a = best[side].addr /\ nonempty
            THEN Scans(side, TrackerIdle(side, EmptiedAt(side, a), nonempty), full)
            ELSE Extreme(side, TrackerIdle(side, EmptiedAt(side, a), nonempty), full)
<1>1. PICK t \in Trackers : t = best[side]
  OBVIOUS
<1>2. PICK u, v : /\ u = [t EXCEPT !.valid = FALSE, !.addr = 0]
                  /\ v = [t EXCEPT !.scanning = TRUE, !.idx = Inward(side, t.addr)]
  OBVIOUS
<1>3. TrackerIdle(side, EmptiedAt(side, a), nonempty)
        = IF ~t.valid \/ a # t.addr THEN t ELSE IF ~nonempty THEN u ELSE v
  BY <1>1, <1>2, RequestFields DEF TrackerIdle
<1>4. 0 \in Addrs /\ Inward(side, t.addr) \in Addrs
  BY EngineConstants, InwardIs, TrackerFields DEF Addrs
<1>5. /\ u \in Trackers /\ u.scanning = t.scanning /\ u.valid = FALSE
      /\ v \in Trackers /\ v.scanning = TRUE /\ v.idx = Inward(side, t.addr)
  BY <1>2, <1>4 DEF Trackers
<1>6. /\ ~t.scanning /\ (t.valid => t.addr \in full \cup {a})
      /\ \A x \in full : t.valid /\ ~Beats(side, x, t.addr)
  BY <1>1 DEF ExtremeBut
<1>7. CASE ~t.valid \/ a # t.addr
  BY <1>1, <1>3, <1>6, <1>7 DEF Extreme
<1>8. CASE ~(~t.valid \/ a # t.addr) /\ ~nonempty
  BY <1>1, <1>3, <1>5, <1>6, <1>8 DEF Extreme
<1>9. CASE ~(~t.valid \/ a # t.addr) /\ nonempty
  <2>1. ASSUME NEW x \in full PROVE ~Beats(side, x, v.idx)
    <3>1. x \in Addrs /\ x \in Int /\ 0 <= x /\ x <= PriceLevels - 1 /\ x # t.addr
          /\ ~Beats(side, x, t.addr) /\ PriceLevels \in Nat
      BY <1>6, <1>9, EngineConstants DEF Addrs
    <3>2. t.addr \in Addrs /\ t.addr \in Int
      BY TrackerFields
    <3>3. CASE t.addr = Boundary(side)
      BY <1>5, <3>1, <3>2, <3>3, InwardIs DEF Beats
    <3>4. CASE t.addr # Boundary(side)
      BY <1>5, <3>1, <3>2, <3>4, InwardIs DEF Beats
    <3> QED
      BY <3>3, <3>4
  <2> QED
    BY <1>1, <1>3, <1>5, <1>9, <2>1 DEF Scans
<1> QED
  BY <1>7, <1>8, <1>9

\* A scan ends at the extreme level, or at the boundary of an empty side.
LEMMA ScanMoves ==
  ASSUME NEW side \in Sides, best[side] \in Trackers, NEW full, full \subseteq Addrs,
         NEW shares, shares # 0 <=> best[side].idx \in full,
         Scans(side, best[side], full)
  PROVE  /\ TrackerScan(side, shares) \in Trackers
         /\ \/ Scans(side, TrackerScan(side, shares), full)
            \/ Extreme(side, TrackerScan(side, shares), full)
<1>1. PICK t \in Trackers : t = best[side]
  OBVIOUS
<1>2. PICK done, i : /\ done = [t EXCEPT !.scanning = FALSE, !.idx = 0]
                     /\ i = Inward(side, t.idx)
  OBVIOUS
<1>3. PICK u, v, w : /\ u = [done EXCEPT !.valid = TRUE, !.addr = t.idx]
                     /\ v = [done EXCEPT !.valid = FALSE, !.addr = 0]
                     /\ w = [t EXCEPT !.idx = i]
  OBVIOUS
<1>4. TrackerScan(side, shares)
        = IF shares # 0 THEN u ELSE IF t.idx = Boundary(side) THEN v ELSE w
  <2>1. [t EXCEPT !.idx = Inward(side, @)] = w
    BY <1>2, <1>3 DEF Trackers
  <2> QED
    BY <1>1, <1>2, <1>3, <2>1 DEF TrackerScan
<1>5. 0 \in Addrs /\ i \in Addrs /\ t.idx \in Addrs
  BY <1>2, EngineConstants, InwardIs, TrackerFields DEF Addrs
<1>6. done \in Trackers /\ done.scanning = FALSE
  BY <1>2, <1>5 DEF Trackers
<1>7. /\ u \in Trackers /\ u.scanning = FALSE /\ u.valid = TRUE /\ u.addr = t.idx
      /\ v \in Trackers /\ v.scanning = FALSE /\ v.valid = FALSE
      /\ w \in Trackers /\ w.scanning = t.scanning /\ w.idx = i
  BY <1>3, <1>5, <1>6 DEF Trackers
<1>8. t.scanning /\ \A x \in full : ~Beats(side, x, t.idx)
  BY <1>1 DEF Scans
<1>9. CASE shares # 0
  <2>1. t.idx \in full
    BY <1>1, <1>9
  <2> QED
    BY <1>4, <1>7, <1>8, <1>9, <2>1 DEF Extreme
<1>10. CASE shares = 0 /\ t.idx = Boundary(side)
  <2>1. ASSUME NEW x \in full PROVE FALSE
    <3>1. x \in Addrs /\ x # t.idx /\ ~Beats(side, x, t.idx) /\ x \in Int /\ PriceLevels \in Nat
          /\ 0 <= x /\ x <= PriceLevels - 1
      BY <1>1, <1>8, <1>10, EngineConstants DEF Addrs
    <3> QED
      BY <1>10, <3>1 DEF Beats, Boundary
  <2> QED
    BY <1>4, <1>7, <1>10, <2>1 DEF Extreme
<1>11. CASE shares = 0 /\ t.idx # Boundary(side)
  <2>1. ASSUME NEW x \in full PROVE ~Beats(side, x, i)
    <3>1. x \in Addrs /\ x # t.idx /\ ~Beats(side, x, t.idx) /\ x \in Int
      BY <1>1, <1>8, <1>11, EngineConstants DEF Addrs
    <3> QED
      BY <1>2, <1>11, <3>1, InwardIs, TrackerFields DEF Beats
  <2> QED
    BY <1>4, <1>7, <1>8, <1>11, <2>1 DEF Scans
<1> QED
  BY <1>9, <1>10, <1>11

-----------------------------------------------------------------------------
(* The trackers follow the levels: a side whose level the message has emptied *)
(* waits for its tracker, all others have their extreme level.                *)

Emptying == {"mod_tbl", "empty", "empty_wait"}

Settled(side) == Extreme(side, best[side], Full(depth, side))
\* The request to the tracker is still to come.
Told ==
  IF eng.emptied
  THEN /\ eng.addr \notin Full(depth, eng.rest.side)
       /\ ExtremeBut(eng.rest.side, best[eng.rest.side], Full(depth, eng.rest.side), eng.addr)
  ELSE Settled(eng.rest.side)
Scanned ==
  \/ Settled(eng.rest.side) /\ (eng.seen \/ ~eng.expect)
  \/ Scans(eng.rest.side, best[eng.rest.side], Full(depth, eng.rest.side)) /\ eng.expect

Elsewhere(side) ==
  IF pulse.bt.op = "add" /\ pulse.bt.side = side
  THEN /\ pulse.bt.addr \in Full(depth, side)
       /\ ExtremeBut(side, best[side], Full(depth, side), pulse.bt.addr)
  ELSE Settled(side)

BestInv ==
  /\ best \in [Sides -> Trackers] /\ pulse.bt \in BestRequests
  /\ \A side \in Sides :
       eng.state \notin Emptying \/ side # eng.rest.side => Elsewhere(side)
  /\ pulse.bt.op = "add" => eng.state = "finish"
  /\ pulse.bt.op = "empty" =>
       /\ eng.state = "empty_wait" /\ eng.emptied /\ ~eng.seen
       /\ pulse.bt = EmptiedAt(eng.rest.side, eng.addr)
       /\ eng.expect <=> ExpectsScan
  /\ eng.state \in {"mod_tbl", "empty"} \/ pulse.bt.op = "empty" => Told
  /\ eng.state = "empty_wait" /\ pulse.bt.op = "none" => Scanned

TrackersMove ==
  TrackerClock(pulse.bt,
               [side \in Sides |-> [x \in Addrs |-> depth[side].level[x].shares]],
               [side \in Sides |-> depth[side].cnt # 0])

LEMMA RequestKinds ==
  ASSUME NEW req \in BestRequests
  PROVE  \/ req = NoRequest /\ req.op = "none" /\ req.side \notin Sides
         \/ /\ req.op = "add" /\ req.side \in Sides /\ req.addr \in Addrs
            /\ req = AddAt(req.side, req.addr)
         \/ /\ req.op = "empty" /\ req.side \in Sides /\ req.addr \in Addrs
            /\ req = EmptiedAt(req.side, req.addr)
BY RequestFields DEF BestRequests, Sides

LEMMA TrackersAre ==
  ASSUME TrackersMove, best \in [Sides -> Trackers]
  PROVE  /\ (\A side \in Sides : best'[side] \in Trackers) => best' \in [Sides -> Trackers]
         /\ \A side \in Sides :
              best'[side] = IF best[side].scanning
                            THEN TrackerScan(side, depth[side].level[best[side].idx].shares)
                            ELSE TrackerIdle(side, pulse.bt, depth[side].cnt # 0)
<1>1. ASSUME NEW side \in Sides
      PROVE best'[side] = IF best[side].scanning
                          THEN TrackerScan(side, depth[side].level[best[side].idx].shares)
                          ELSE TrackerIdle(side, pulse.bt, depth[side].cnt # 0)
  <2>1. best[side].idx \in Addrs
    BY TrackerFields
  <2> QED
    BY <2>1 DEF TrackersMove, TrackerClock
<1>2. best' = [side \in Sides |-> best'[side]]
  BY DEF TrackersMove, TrackerClock
<1> QED
  BY <1>1, <1>2

LEMMA OwnSide ==
  ASSUME EInv, eng.state \in Emptying \cup {"mod_lvl"}
  PROVE  /\ eng.rest \in Ords /\ eng.rest.side \in Sides /\ eng.addr \in Addrs
         /\ ~resp.fails /\ eng.emptied \in BOOLEAN /\ eng.seen \in BOOLEAN
         /\ eng.expect \in BOOLEAN
<1>1. eng.rest \in Ords /\ eng.addr \in Addrs
  BY DEF EInv, EngInv, TypedEng, Registers, Removing, Emptying
<1>2. ~resp.fails
  BY DEF EInv, EngInv, Failing, Emptying
<1> QED
  BY <1>1, <1>2, OrdFields DEF EInv, EngInv, TypedEng

\* No request to a tracker at rest, no change.
LEMMA Undisturbed ==
  ASSUME TrackersMove, best \in [Sides -> Trackers], NEW side \in Sides,
         ~best[side].scanning, pulse.bt.side # side
  PROVE  best'[side] = best[side]
<1>1. best'[side] = TrackerIdle(side, pulse.bt, depth[side].cnt # 0)
  BY TrackersAre
<1> QED
  BY <1>1 DEF TrackerIdle

\* The sides the message has not emptied a level of are settled after a clock.
LEMMA OthersSettle ==
  ASSUME TrackersMove, BestInv, NEW side \in Sides,
         eng.state \notin Emptying \/ side # eng.rest.side
  PROVE  /\ best'[side] \in Trackers /\ Extreme(side, best'[side], Full(depth, side))
         /\ pulse.bt.op # "add" => best'[side] = best[side]
         /\ ~best[side].scanning
<1>1. best[side] \in Trackers /\ ~best[side].scanning
  BY DEF BestInv, Elsewhere, Settled, Extreme, ExtremeBut
<1>2. best'[side] = TrackerIdle(side, pulse.bt, depth[side].cnt # 0)
  BY <1>1, TrackersAre DEF BestInv
<1>3. CASE pulse.bt.op = "add" /\ pulse.bt.side = side
  <2>1. pulse.bt = AddAt(side, pulse.bt.addr)
    BY <1>3, RequestKinds DEF BestInv
  <2>2. /\ pulse.bt.addr \in Full(depth, side)
        /\ ExtremeBut(side, best[side], Full(depth, side), pulse.bt.addr)
    BY <1>3 DEF BestInv, Elsewhere
  <2>3. Full(depth, side) \subseteq Addrs
    BY DEF Full
  <2>4. PICK a, req : a = pulse.bt.addr /\ req = pulse.bt
    OBVIOUS
  <2>5. PICK ne : ne = (depth[side].cnt # 0)
    OBVIOUS
  <2>6. PICK full : full = Full(depth, side)
    OBVIOUS
  <2>7. /\ TrackerIdle(side, AddAt(side, a), ne) \in Trackers
        /\ Extreme(side, TrackerIdle(side, AddAt(side, a), ne), full)
    BY <1>1, <2>2, <2>3, <2>4, <2>6, AddedMoves
  <2>8. best'[side] = TrackerIdle(side, AddAt(side, a), ne)
    BY <1>2, <2>1, <2>4, <2>5
  <2> QED
    BY <1>1, <1>3, <2>6, <2>7, <2>8
<1>4. CASE ~(pulse.bt.op = "add" /\ pulse.bt.side = side)
  <2>1. pulse.bt.side # side
    BY <1>4, RequestKinds, RequestFields DEF BestInv, Emptying
  <2> QED
    BY <1>1, <1>4, <2>1, Undisturbed DEF BestInv, Elsewhere, Settled
<1> QED
  BY <1>3, <1>4

\* A side without orders has no level with shares.
LEMMA NoneFull ==
  ASSUME EInv, DepthInv, eng.state \in Emptying, NEW side \in Sides, depth[side].cnt = 0
  PROVE  Full(depth, side) = {}
<1>1. ~resp.fails /\ Booked = Remaining
  BY OwnSide DEF Booked, Removing, Emptying
<1>2. /\ eng.msg.type \in Modifies /\ eng.msg.ref \in DOMAIN before
      /\ eng.rest = before[eng.msg.ref]
  BY <1>1 DEF EInv, EngInv, Progress, Registers, Emptying, Removing
<1>3. Remaining \in Tables
  BY <1>2, RemainingTable
<1>4. PICK os, base : os = Remaining /\ base = band.base
  OBVIOUS
<1>5. DepthIs(depth, base, os) /\ os \in Tables
  BY <1>1, <1>3, <1>4 DEF DepthInv
<1>6. On(os, side) = {}
  <2>1. Cardinality(On(os, side)) = 0 /\ IsFiniteSet(On(os, side))
    BY <1>5, PartsFinite DEF DepthIs
  <2> QED
    BY <2>1, FS_EmptySet
<1>7. ASSUME NEW x \in Addrs PROVE depth[side].level[x].shares = 0
  <2>1. At(base, os, side, x) = {}
    BY <1>6 DEF At, On
  <2>2. depth[side].level[x].shares = Total(os, At(base, os, side, x))
    BY <1>5 DEF DepthIs
  <2> QED
    BY <2>1, <2>2, TotalEmpty
<1> QED
  BY <1>7 DEF Full

\* The side a level of which has been emptied: what its tracker does.
LEMMA OwnMoves ==
  ASSUME TrackersMove, BestInv, EInv, DepthInv, eng.state \in Emptying,
         NEW side, side = eng.rest.side
  PROVE  /\ best'[side] \in Trackers
         /\ eng.state # "empty_wait" => best'[side] = best[side]
         /\ pulse.bt.op = "empty" => ~best[side].scanning
         /\ pulse.bt.op = "empty" =>
              IF ExpectsScan THEN Scans(side, best'[side], Full(depth, side))
              ELSE Extreme(side, best'[side], Full(depth, side))
         /\ eng.state = "empty_wait" /\ pulse.bt.op # "empty" =>
              /\ Settled(side) => best'[side] = best[side]
              /\ Scans(side, best[side], Full(depth, side)) =>
                   \/ Scans(side, best'[side], Full(depth, side))
                   \/ Extreme(side, best'[side], Full(depth, side))
<1>1. /\ side \in Sides /\ best[side] \in Trackers /\ pulse.bt.op # "add"
      /\ pulse.bt \in BestRequests /\ best \in [Sides -> Trackers]
  BY OwnSide DEF BestInv, Emptying
<1>2. PICK full : full = Full(depth, side)
  OBVIOUS
<1>3. full \subseteq Addrs /\ \A x \in Addrs : x \in full <=> depth[side].level[x].shares # 0
  BY <1>2 DEF Full
<1>4. CASE eng.state # "empty_wait"
  <2>1. pulse.bt.op = "none" /\ pulse.bt.side # side
    BY <1>1, <1>4, RequestKinds DEF BestInv
  <2>2. ~best[side].scanning
    BY <1>4 DEF BestInv, Told, Settled, Extreme, ExtremeBut, Emptying
  <2>3. best'[side] = best[side]
    BY <1>1, <2>1, <2>2, Undisturbed
  <2> QED
    BY <1>1, <1>4, <2>1, <2>3
<1>5. CASE pulse.bt.op = "empty"
  <2>1. PICK a, ne : a = eng.addr /\ ne = (depth[side].cnt # 0)
    OBVIOUS
  <2>2. /\ pulse.bt = EmptiedAt(side, a) /\ a \notin full /\ a \in Addrs /\ eng.emptied
        /\ ExtremeBut(side, best[side], full, a)
    BY <1>2, <1>5, <2>1, OwnSide DEF BestInv, Told
  <2>3. ~best[side].scanning
    BY <2>2 DEF ExtremeBut
  <2>4. best'[side] = TrackerIdle(side, EmptiedAt(side, a), ne)
    BY <1>1, <2>1, <2>2, <2>3, TrackersAre
  <2>5. ne \in BOOLEAN /\ (~ne => full = {})
    BY <1>1, <1>2, <2>1, NoneFull
  <2>6. ExpectsScan <=> best[side].valid /\ a = best[side].addr /\ ne
    BY <2>1, <2>2 DEF ExpectsScan
  <2>7. /\ best'[side] \in Trackers
        /\ IF best[side].valid /\ a = best[side].addr /\ ne
           THEN Scans(side, best'[side], full) ELSE Extreme(side, best'[side], full)
    BY <1>1, <1>3, <2>2, <2>4, <2>5, EmptiedMoves
  <2> QED
    BY <1>2, <1>5, <2>3, <2>6, <2>7 DEF BestInv
<1>6. CASE eng.state = "empty_wait" /\ pulse.bt.op # "empty"
  <2>1. pulse.bt.op = "none" /\ pulse.bt.side # side /\ Scanned
    BY <1>1, <1>6, RequestKinds DEF BestInv
  <2>2. CASE Settled(side)
    <3>1. ~best[side].scanning
      BY <2>2 DEF Settled, Extreme
    <3>2. best'[side] = best[side]
      BY <1>1, <2>1, <3>1, Undisturbed
    <3> QED
      BY <1>1, <1>6, <3>1, <3>2 DEF Scans
  <2>3. CASE Scans(side, best[side], full)
    <3>1. best[side].scanning /\ best[side].idx \in Addrs
      BY <1>1, <2>3, TrackerFields DEF Scans
    <3>2. PICK sh : sh = depth[side].level[best[side].idx].shares
      OBVIOUS
    <3>3. best'[side] = TrackerScan(side, sh)
      BY <1>1, <3>1, <3>2, TrackersAre
    <3>4. sh # 0 <=> best[side].idx \in full
      BY <1>3, <3>1, <3>2
    <3>5. /\ best'[side] \in Trackers
          /\ Scans(side, best'[side], full) \/ Extreme(side, best'[side], full)
      BY <1>1, <1>3, <2>3, <3>3, <3>4, ScanMoves
    <3> QED
      BY <1>2, <1>6, <3>1, <3>5 DEF Settled, Extreme
  <2> QED
    BY <1>2, <2>1, <2>2, <2>3 DEF Scanned
<1> QED
  BY <1>4, <1>5, <1>6

-----------------------------------------------------------------------------
(* The engine's steps keep the trackers in hand. *)

LEMMA TrackersTyped ==
  ASSUME TrackersMove, BestInv, EInv, DepthInv
  PROVE  best' \in [Sides -> Trackers]
<1>1. ASSUME NEW side \in Sides PROVE best'[side] \in Trackers
  BY OthersSettle, OwnMoves
<1> QED
  BY <1>1, TrackersAre DEF BestInv

\* A step after which no request is under way and no level awaits its tracker.
LEMMA QuietBest ==
  ASSUME TrackersMove, BestInv, EInv, DepthInv, depth' = depth,
         pulse'.bt = NoRequest, eng'.state \notin Emptying,
         \A side \in Sides : eng.state \in Emptying /\ side = eng.rest.side =>
                               Extreme(side, best'[side], Full(depth, side))
  PROVE  BestInv'
<1>1. best' \in [Sides -> Trackers] /\ NoRequest \in BestRequests
  BY TrackersTyped DEF BestRequests
<1>2. pulse'.bt.op = "none"
  BY RequestFields
<1>3. ASSUME NEW side \in Sides PROVE Extreme(side, best'[side], Full(depth', side))
  BY OthersSettle
<1> QED
  BY <1>1, <1>2, <1>3 DEF BestInv, Elsewhere, Settled, Emptying

\* Shares added to a level.
LEMMA AddingBest ==
  ASSUME TrackersMove, BestInv, EInv, DepthInv, NEW s \in Sides, NEW x \in Addrs,
         NEW q \in 1 .. SharesMod - 1, AddTo(s, x, q),
         depth[s].level[x].shares + q < SharesMod,
         eng.state \in {"add_lvl", "radd_lvl"}, eng'.state = "finish",
         pulse'.bt = AddAt(s, x)
  PROVE  BestInv'
<1>1. best' \in [Sides -> Trackers] /\ pulse'.bt \in BestRequests
  BY TrackersTyped DEF BestRequests
<1>2. pulse'.bt.op = "add" /\ pulse'.bt.side = s /\ pulse'.bt.addr = x
  BY RequestFields
<1>3. \A side \in Sides : Extreme(side, best'[side], Full(depth, side))
  BY OthersSettle DEF Emptying
<1>4. PICK l \in Levels, c \in Int, t \in Int :
        /\ depth' = Change(depth, s, x, l, c, t)
        /\ l.shares = depth[s].level[x].shares + q
  <2>1. q \in 0 .. SharesMod - 1
    BY EngineConstants
  <2> QED
    BY <2>1, AddToIs DEF DepthInv
<1>5. \A side \in Sides, y \in Addrs :
        depth'[side].level[y] = IF side = s /\ y = x THEN l ELSE depth[side].level[y]
  BY <1>4, ChangeIs DEF DepthInv
<1>6. l.shares # 0
  BY <1>4, DepthTypes, EngineConstants DEF DepthInv
<1>7. /\ Full(depth', s) = Full(depth, s) \cup {x}
      /\ \A side \in Sides : side # s => Full(depth', side) = Full(depth, side)
  BY <1>5, <1>6 DEF Full
<1>8. ExtremeBut(s, best'[s], Full(depth', s), x)
  BY <1>3, <1>7 DEF Extreme, ExtremeBut
<1>9. \A side \in Sides : side # s => Extreme(side, best'[side], Full(depth', side))
  BY <1>3, <1>7
<1>10. x \in Full(depth', s)
  BY <1>7
<1>11. \A side \in Sides : Elsewhere(side)'
  BY <1>2, <1>8, <1>9, <1>10 DEF Elsewhere, Settled
<1> QED
  BY <1>1, <1>2, <1>11 DEF BestInv, Emptying

\* A step into a state that awaits the tracker of the message's side.
LEMMA AwaitingBest ==
  ASSUME best' \in [Sides -> Trackers], pulse'.bt \in BestRequests,
         pulse'.bt.op # "add", eng'.state \in Emptying,
         \A side \in Sides : side # eng'.rest.side =>
                               Extreme(side, best'[side], Full(depth', side)),
         pulse'.bt.op = "empty" =>
           /\ eng'.state = "empty_wait" /\ eng'.emptied /\ ~eng'.seen
           /\ pulse'.bt = EmptiedAt(eng'.rest.side, eng'.addr)
           /\ eng'.expect <=> ExpectsScan',
         eng'.state \in {"mod_tbl", "empty"} \/ pulse'.bt.op = "empty" => Told',
         eng'.state = "empty_wait" /\ pulse'.bt.op = "none" => Scanned'
  PROVE  BestInv'
<1>1. ASSUME NEW side \in Sides, side # eng'.rest.side PROVE Elsewhere(side)'
  BY <1>1 DEF Elsewhere, Settled
<1> QED
  BY <1>1 DEF BestInv

\* Shares taken off a level: emptied says whether it holds none now.
LEMMA ModLvlBest ==
  ASSUME TrackersMove, BestInv, EInv, DepthInv, ModLvl
  PROVE  BestInv'
<1> DEFINE rem == eng.rest.shares - Amount
           left == (depth[eng.rest.side].level[eng.addr].shares - Amount) % SharesMod
<1>1. /\ eng.state = "mod_lvl" /\ TakeFrom(eng.rest.side, eng.addr, Amount, rem = 0)
      /\ eng' = [eng EXCEPT !.state = "mod_tbl", !.rem = rem, !.emptied = (left = 0)]
      /\ pulse'.bt = NoRequest
  <2>1. [NoPulse EXCEPT !.trade = TradeOf].bt = NoRequest
    BY DEF NoPulse
  <2> QED
    BY <2>1 DEF ModLvl
<1>2. /\ eng'.state = "mod_tbl" /\ eng'.rest = eng.rest /\ eng'.addr = eng.addr
      /\ eng'.emptied = (left = 0)
  BY <1>1 DEF EInv, EngInv, TypedEng
<1>3. /\ best' \in [Sides -> Trackers] /\ NoRequest \in BestRequests
      /\ pulse'.bt.op = "none"
  BY <1>1, TrackersTyped, RequestFields DEF BestRequests
<1>4. \A side \in Sides : Extreme(side, best'[side], Full(depth, side))
  BY <1>1, OthersSettle DEF Emptying
<1>5. /\ eng.msg.type \in Modifies /\ eng.msg.ref \in DOMAIN before
      /\ eng.rest = before[eng.msg.ref] /\ eng.addr = LevelAddr(eng.rest.price)
      /\ ~resp.fails /\ eng.rest.side \in Sides /\ eng.addr \in Addrs
  BY <1>1, OwnSide DEF EInv, EngInv, Progress, Registers
<1> PICK amt : amt = Amount
  OBVIOUS
<1>6. PICK s \in Sides, x \in Addrs : s = eng.rest.side /\ x = eng.addr /\ amt = Amount
  BY <1>5
<1>7. amt \in Nat /\ amt <= depth[s].level[x].shares
  <2>1. amt \in 0 .. before[eng.msg.ref].shares
    BY <1>5, <1>6, RemainingTable
  <2>2. DepthIs(depth, band.base, before)
    BY <1>1, <1>5 DEF DepthInv, Booked, Removing
  <2>3. PICK os, r, base : os = before /\ r = eng.msg.ref /\ base = band.base
    OBVIOUS
  <2>4. /\ os \in Tables /\ r \in DOMAIN os /\ DepthIs(depth, base, os)
        /\ x = AddrAt(base, os[r].price) /\ s = os[r].side /\ amt \in 0 .. os[r].shares
    BY <1>5, <1>6, <2>1, <2>2, <2>3, BeforeTables DEF AddrAt, LevelAddr
  <2>5. os[r].shares \in 0 .. SharesMod - 1
    BY <2>4, TableFacts
  <2>6. os[r].shares <= depth[s].level[x].shares
    BY <2>4, LevelHolds DEF DepthInv
  <2> QED
    BY <2>4, <2>5, <2>6, DepthTypes, EngineConstants DEF DepthInv
<1>8. PICK gone \in BOOLEAN : gone = (rem = 0)
  OBVIOUS
<1>9. PICK l \in Levels, c \in Int, t \in Int :
        /\ depth' = Change(depth, s, x, l, c, t)
        /\ l.shares = depth[s].level[x].shares - amt
  <2>1. TakeFrom(s, x, amt, gone)
    BY <1>1, <1>6, <1>8
  <2> QED
    BY <1>7, <2>1, TakeFromIs DEF DepthInv
<1>10. \A side \in Sides, y \in Addrs :
         depth'[side].level[y] = IF side = s /\ y = x THEN l ELSE depth[side].level[y]
  BY <1>9, ChangeIs DEF DepthInv
<1>11. l.shares = left
  <2>1. PICK n \in 0 .. SharesMod - 1 : n = depth[s].level[x].shares - amt
    BY <1>7, DepthTypes, EngineConstants DEF DepthInv
  <2>2. n % SharesMod = n
    BY EngineConstants
  <2> QED
    BY <1>6, <1>9, <2>1, <2>2
<1>12. \A side \in Sides : side # s => Full(depth', side) = Full(depth, side)
  BY <1>10 DEF Full
<1>13. CASE left = 0
  <2>1. Full(depth', s) = Full(depth, s) \ {x}
    BY <1>10, <1>11, <1>13 DEF Full
  <2>2. ExtremeBut(s, best'[s], Full(depth', s), x) /\ x \notin Full(depth', s)
    BY <1>4, <2>1 DEF Extreme, ExtremeBut
  <2>3. Told'
    BY <1>2, <1>6, <1>13, <2>2 DEF Told
  <2> QED
    BY <1>1, <1>2, <1>3, <1>4, <1>6, <1>12, <2>3, AwaitingBest DEF Emptying
<1>14. CASE left # 0
  <2>1. Full(depth', s) = Full(depth, s)
    <3>1. depth[s].level[x].shares # 0
      <4>1. PICK n \in Nat : n = depth[s].level[x].shares
        BY <1>7, DepthTypes, EngineConstants DEF DepthInv
      <4>2. n - amt # 0
        BY <1>9, <1>11, <1>14, <4>1, Zenon
      <4> QED
        BY <1>7, <4>1, <4>2
    <3> QED
      BY <1>10, <1>11, <1>14, <3>1 DEF Full
  <2>2. \A side \in Sides : Settled(side)'
    BY <1>4, <1>12, <2>1 DEF Settled
  <2>3. Told'
    BY <1>2, <1>5, <1>14, <2>2 DEF Told
  <2> QED
    BY <1>1, <1>2, <1>3, <2>2, <2>3, AwaitingBest DEF Emptying, Settled
<1> QED
  BY <1>13, <1>14

\* The table is written, and the tracker told.
LEMMA ModTblBest ==
  ASSUME TrackersMove, BestInv, EInv, DepthInv, ModTbl
  PROVE  BestInv'
<1>1. /\ eng.state = "mod_tbl" /\ depth' = depth /\ eng'.state \in {"mod_tbl", "empty"}
      /\ eng'.rest = eng.rest /\ eng'.addr = eng.addr /\ eng'.emptied = eng.emptied
  BY DEF ModTbl, Requests, KeepsBook, EInv, EngInv, TypedEng
<1>2. pulse'.bt = NoRequest
  BY DEF ModTbl, Requests, NoPulse
<1>3. /\ best' \in [Sides -> Trackers] /\ NoRequest \in BestRequests
      /\ pulse'.bt.op = "none" /\ pulse.bt.op # "add"
  BY <1>1, <1>2, TrackersTyped, RequestFields DEF BestRequests, BestInv
<1>4. eng.rest.side \in Sides
  BY <1>1, OwnSide DEF Emptying
<1>5. best'[eng.rest.side] = best[eng.rest.side]
  BY <1>1, OwnMoves DEF Emptying
<1>6. Told'
  BY <1>1, <1>5 DEF Told, Settled, BestInv
<1>7. \A side \in Sides : side # eng.rest.side => Extreme(side, best'[side], Full(depth, side))
  BY OthersSettle
<1> QED
  BY <1>1, <1>2, <1>3, <1>6, <1>7, AwaitingBest DEF Emptying

LEMMA TellEmptyBest ==
  ASSUME TrackersMove, BestInv, EInv, DepthInv, TellEmpty
  PROVE  BestInv'
<1>1. /\ eng.state = "empty" /\ depth' = depth /\ eng'.state = "empty_wait"
      /\ eng'.rest = eng.rest /\ eng'.addr = eng.addr /\ eng'.emptied = eng.emptied
      /\ eng'.expect = ExpectsScan /\ eng'.seen = FALSE
  BY DEF TellEmpty, KeepsBook, EInv, EngInv, TypedEng
<1>2. pulse'.bt = IF eng.emptied THEN EmptiedAt(eng.rest.side, eng.addr) ELSE NoRequest
  BY DEF TellEmpty, NoPulse
<1>3. eng.rest.side \in Sides /\ eng.addr \in Addrs /\ pulse.bt.op # "add"
  BY <1>1, OwnSide DEF Emptying, BestInv
<1>4. best' \in [Sides -> Trackers] /\ pulse'.bt \in BestRequests
  BY <1>2, <1>3, TrackersTyped DEF BestRequests
<1>5. best'[eng.rest.side] = best[eng.rest.side]
  BY <1>1, OwnMoves DEF Emptying
<1>6. \A side \in Sides : side # eng.rest.side => Extreme(side, best'[side], Full(depth, side))
  BY OthersSettle
<1>7. Told
  BY <1>1 DEF BestInv
<1>8. Told'
  BY <1>1, <1>5, <1>7 DEF Told, Settled
<1>9. CASE eng.emptied
  <2>1. pulse'.bt = EmptiedAt(eng.rest.side, eng.addr) /\ pulse'.bt.op = "empty"
    BY <1>2, <1>9, RequestFields
  <2>2. ExpectsScan' = ExpectsScan
    BY <1>1, <1>5 DEF ExpectsScan
  <2> QED
    BY <1>1, <1>4, <1>6, <1>8, <1>9, <2>1, <2>2, AwaitingBest DEF Emptying
<1>10. CASE ~eng.emptied
  <2>1. pulse'.bt.op = "none"
    BY <1>2, <1>10, RequestFields
  <2>2. Settled(eng.rest.side) /\ ~ExpectsScan
    BY <1>7, <1>10 DEF Told, ExpectsScan
  <2>3. Scanned'
    BY <1>1, <1>5, <2>2 DEF Scanned, Settled
  <2> QED
    BY <1>1, <1>4, <1>6, <2>1, <2>3, AwaitingBest DEF Emptying
<1> QED
  BY <1>9, <1>10

\* The engine leaves S_EMPTY_WAIT when no scan is expected, or after it.
LEMMA EmptyWaitBest ==
  ASSUME TrackersMove, BestInv, EInv, DepthInv, EmptyWait
  PROVE  BestInv'
<1>1. /\ eng.state = "empty_wait" /\ depth' = depth /\ pulse'.bt = NoRequest
      /\ eng' = IF ~ScanOver THEN [eng EXCEPT !.seen = @ \/ AnyScanning]
                ELSE [eng EXCEPT !.state = IF ReAdds THEN "radd_tbl" ELSE "finish"]
  BY DEF EmptyWait, KeepsBook, Quietly, NoPulse
<1>2. PICK s \in Sides : s = eng.rest.side
  BY <1>1, OwnSide DEF Emptying
<1>3. pulse'.bt.op = "none" /\ pulse.bt.op # "add" /\ NoRequest \in BestRequests
  BY <1>1, RequestFields DEF BestRequests, BestInv
<1>4. \A side \in Sides : side # s => ~best[side].scanning
  BY <1>2, OthersSettle
<1>5. AnyScanning <=> best[s].scanning
  BY <1>4 DEF AnyScanning
<1>6. ASSUME ScanOver, Extreme(s, best'[s], Full(depth, s)) PROVE BestInv'
  <2>1. eng'.state \notin Emptying
    BY <1>1, <1>6 DEF Emptying, EInv, EngInv, TypedEng
  <2> QED
    BY <1>1, <1>2, <1>6, <2>1, QuietBest
<1>7. ASSUME ~ScanOver, eng.expect,
             \/ Scans(s, best'[s], Full(depth, s))
             \/ Extreme(s, best'[s], Full(depth, s)) /\ best[s].scanning
      PROVE  BestInv'
  <2>1. /\ eng'.state = "empty_wait" /\ eng'.rest = eng.rest /\ eng'.expect = eng.expect
        /\ AnyScanning => eng'.seen
    BY <1>1, <1>7 DEF EInv, EngInv, TypedEng
  <2>2. Scanned'
    BY <1>1, <1>2, <1>5, <1>7, <2>1 DEF Scanned, Settled
  <2>3. \A side \in Sides : side # s => Extreme(side, best'[side], Full(depth, side))
    BY <1>2, OthersSettle
  <2> QED
    BY <1>1, <1>2, <1>3, <2>1, <2>2, <2>3, TrackersTyped, AwaitingBest DEF Emptying
<1>8. CASE pulse.bt.op = "empty"
  <2>1. ~eng.seen /\ (eng.expect <=> ExpectsScan) /\ ~best[s].scanning
    BY <1>1, <1>2, <1>8, OwnMoves DEF BestInv, Emptying
  <2>2. IF ExpectsScan THEN Scans(s, best'[s], Full(depth, s))
        ELSE Extreme(s, best'[s], Full(depth, s))
    BY <1>1, <1>2, <1>8, OwnMoves DEF Emptying
  <2> QED
    BY <1>6, <1>7, <2>1, <2>2 DEF ScanOver
<1>9. CASE pulse.bt.op # "empty"
  <2>1. Scanned
    BY <1>1, <1>3, <1>9, RequestKinds DEF BestInv
  <2>2. CASE Settled(s) /\ (eng.seen \/ ~eng.expect)
    <3>1. best'[s] = best[s] /\ ~AnyScanning
      BY <1>1, <1>2, <1>5, <1>9, <2>2, OwnMoves DEF Emptying, Settled, Extreme
    <3> QED
      BY <1>6, <2>2, <3>1 DEF ScanOver, Settled
  <2>3. CASE Scans(s, best[s], Full(depth, s)) /\ eng.expect
    <3>1. \/ Scans(s, best'[s], Full(depth, s))
          \/ Extreme(s, best'[s], Full(depth, s))
      BY <1>1, <1>2, <1>9, <2>3, OwnMoves DEF Emptying
    <3>2. best[s].scanning /\ ~ScanOver
      BY <1>5, <2>3 DEF Scans, ScanOver
    <3> QED
      BY <1>7, <2>3, <3>1, <3>2
  <2> QED
    BY <1>2, <2>1, <2>2, <2>3 DEF Scanned
<1> QED
  BY <1>8, <1>9

LEMMA BestStep ==
  ASSUME 0 \notin AddQtys, EInv, DepthInv, BestInv, NoCarry, [BookNext]_bookVars
  PROVE  BestInv'
<1>1. ASSUME TrackersMove, AddLvl \/ RaddLvl PROVE BestInv'
  <2>1. PICK s, x, q :
          /\ s = IF eng.state = "add_lvl" THEN eng.msg.side ELSE eng.rest.side
          /\ x = eng.addr /\ q = eng.msg.shares
    OBVIOUS
  <2>2. eng.state \in {"add_lvl", "radd_lvl"} /\ AddTo(s, x, q)
    BY <1>1, <2>1 DEF AddLvl, RaddLvl
  <2>3. s \in Sides /\ x \in Addrs /\ q \in AddQtys /\ q \in 0 .. SharesMod - 1
    BY <2>1, <2>2, AddedShares
  <2>4. q \in 1 .. SharesMod - 1
    BY <2>3, EngineConstants
  <2>5. depth[s].level[x].shares + q < SharesMod
    BY <2>1, <2>2 DEF NoCarry
  <2>6. eng'.state = "finish"
    BY <1>1 DEF AddLvl, RaddLvl, Goes, EInv, EngInv, TypedEng
  <2>7. pulse'.bt = AddAt(s, x)
    BY <1>1, <2>1 DEF AddLvl, RaddLvl, NoPulse
  <2> QED
    BY <1>1, <2>2, <2>3, <2>4, <2>5, <2>6, <2>7, AddingBest
<1>2. ASSUME TrackersMove, AddTbl \/ Lk \/ RaddTbl \/ Finish \/ Rest PROVE BestInv'
  <2>1. eng.state \notin Emptying /\ depth' = depth
    BY <1>2 DEF AddTbl, Lk, RaddTbl, Finish, Rest, Requests, KeepsBook, Emptying
  <2>2. eng'.state \notin Emptying
    <3>1. CASE AddTbl
      BY <3>1 DEF AddTbl, Requests, Emptying, EInv, EngInv, TypedEng
    <3>2. CASE Lk
      BY <3>2 DEF Lk, Requests, Emptying, EInv, EngInv, TypedEng
    <3>3. CASE RaddTbl
      BY <3>3 DEF RaddTbl, Requests, Emptying, EInv, EngInv, TypedEng
    <3>4. CASE Finish \/ Rest
      BY <3>4 DEF Finish, Rest, Emptying, IdleEng
    <3> QED
      BY <1>2, <3>1, <3>2, <3>3, <3>4
  <2>3. pulse'.bt = NoRequest
    <3>1. CASE AddTbl
      BY <3>1 DEF AddTbl, Requests, NoPulse
    <3>2. CASE Lk
      BY <3>2 DEF Lk, Requests, NoPulse
    <3>3. CASE RaddTbl
      BY <3>3 DEF RaddTbl, Requests, NoPulse
    <3>4. CASE Finish \/ Rest
      BY <3>4 DEF Finish, Rest, Quietly, NoPulse
    <3> QED
      BY <1>2, <3>1, <3>2, <3>3, <3>4
  <2> QED
    BY <1>2, <2>1, <2>2, <2>3, QuietBest
<1>3. ASSUME TrackersMove, NEW m \in Msgs, Takes(m) PROVE BestInv'
  <2>1. eng.state \notin Emptying /\ depth' = depth
    BY <1>3 DEF Takes, TakeAdd, TakeModify, TakeOther, KeepsBook, Emptying
  <2>2. eng'.state \notin Emptying
    BY <1>3 DEF Takes, TakeAdd, TakeModify, TakeOther, IdleEng, Emptying
  <2>3. pulse'.bt = NoRequest
    BY <1>3 DEF Takes, TakeAdd, TakeModify, TakeOther, Quietly, NoPulse
  <2> QED
    BY <1>3, <2>1, <2>2, <2>3, QuietBest
<1>4. ASSUME NEW m \in Msgs \cup {NoMsg}, Cycle(m) PROVE BestInv'
  <2>1. TrackersMove /\ IF m = NoMsg THEN Rest \/ Works ELSE Takes(m)
    BY <1>4 DEF Cycle, EngineClock, Beneath, TrackersMove
  <2> QED
    BY <1>1, <1>2, <1>3, <2>1, ModLvlBest, ModTblBest, TellEmptyBest, EmptyWaitBest DEF Works
<1>5. ASSUME NEW base \in CfgBases, Configure(base) PROVE BestInv'
  <2>1. /\ TrackersMove /\ eng' = eng /\ eng.state = "idle" /\ depth' = depth
        /\ pulse' = pulse /\ pulse = NoPulse
    BY <1>5 DEF Configure, Idle, BandConfig, Beneath, TrackersMove
  <2> QED
    BY <2>1, QuietBest DEF Emptying, NoPulse
<1>6. CASE UNCHANGED bookVars
  BY <1>6 DEF bookVars, engineVars, BestInv, Elsewhere, Settled, Told, Scanned, ExpectsScan
<1> QED
  BY <1>4, <1>5, <1>6 DEF BookNext, Ticks

LEMMA BestStarts ==
  ASSUME BookInit
  PROVE  BestInv
<1>1. /\ best = [side \in Sides |->
                   [scanning |-> FALSE, valid |-> FALSE, addr |-> 0, idx |-> 0]]
      /\ depth = [side \in Sides |-> NoDepth] /\ eng.state = "idle" /\ pulse.bt = NoRequest
  BY DEF BookInit, EngineInit, TrackerInit, IdleEng, NoPulse
<1>2. 0 \in Addrs
  BY EngineConstants DEF Addrs
<1>3. best \in [Sides -> Trackers] /\ pulse.bt \in BestRequests /\ pulse.bt.op = "none"
  BY <1>1, <1>2, RequestFields DEF Trackers, BestRequests
<1>4. ASSUME NEW side \in Sides PROVE Full(depth, side) = {}
  BY <1>1 DEF Full, NoDepth, NoLevel
<1>5. \A side \in Sides : Settled(side)
  BY <1>1, <1>4 DEF Settled, Extreme
<1> QED
  BY <1>1, <1>3, <1>5 DEF BestInv, Elsewhere

LEMMA BestExtreme ==
  ASSUME BestInv
  PROVE  BestIsExtreme
<1>1. SUFFICES ASSUME eng.state = "idle", NEW side \in Sides
      PROVE  LET full == {x \in Addrs : depth[side].level[x].shares # 0}
             IN  /\ ~best[side].scanning
                 /\ best[side].valid <=> full # {}
                 /\ best[side].valid =>
                      /\ best[side].addr \in full
                      /\ \A x \in full : ~Beats(side, x, best[side].addr)
  BY DEF BestIsExtreme, Idle
<1>2. Settled(side)
  BY <1>1 DEF BestInv, Elsewhere, Emptying
<1> QED
  BY <1>2 DEF Settled, Extreme, Full

LEMMA BookTypeOK ==
  ASSUME EInv, DepthInv, BestInv
  PROVE  RtlTypeOK
<1>1. \A i \in Slots : mem[i] \in {Empty, Tomb} \/ mem[i].ref \in Refs
  <2>1. \A e \in Entries : e.ref \in Refs
    BY EntryFields DEF Entries
  <2> QED
    BY <2>1 DEF EInv, TInv, TypedTable, TypedMem
<1>2. /\ probe.idx \in Slots /\ probe.n \in 0 .. MaxProbe /\ probe.tomb \in Slots \cup {NoTomb}
      /\ resp.done \in BOOLEAN /\ resp.found \in BOOLEAN /\ resp.fails \in BOOLEAN
  BY DEF EInv, TInv, TypedTable
<1>3. ASSUME NEW side \in Sides
      PROVE  /\ best[side].addr \in Addrs /\ best[side].idx \in Addrs
             /\ \A x \in Addrs : depth[side].level[x].shares \in 0 .. SharesMod - 1
  BY TrackerFields, DepthTypes DEF BestInv, DepthInv
<1>4. eng.addr \in Addrs /\ eng.rem \in Nat /\ band.valid \in BOOLEAN
      /\ band.base \in 0 .. PriceMod - 1
  BY EngineConstants DEF EInv, EngInv, TypedEng
<1> QED
  BY <1>1, <1>2, <1>3, <1>4 DEF RtlTypeOK

\* Between messages the memories are consistent: the table is a map, the levels are
\* those of its orders and each tracker has the extreme level of its side, whatever
\* the order of adds, removals, emptied levels and scans was.  Orders have shares,
\* and no addition carries out of a level's register.
THEOREM ConsistentBook ==
  ASSUME 0 \notin AddQtys
  PROVE  BookSpec /\ []NoCarry => []BookConsistent
<1>1. BookInit => BestInv
  BY BestStarts
<1>2. EInv /\ DepthInv /\ BestInv /\ NoCarry /\ [BookNext]_bookVars => BestInv'
  BY BestStep
<1>3. EInv /\ DepthInv /\ BestInv => BookConsistent
  BY LevelsMatch, BestExtreme, BookTypeOK DEF BookConsistent, EInv, TInv
<1> QED
  BY <1>1, <1>2, <1>3, Inductive, DepthInductive, PTL DEF BookSpec

-----------------------------------------------------------------------------
(* The oracle's book and the orders it has. *)

PriceAt(os, side, p) == {r \in DOMAIN os : os[r].side = side /\ os[r].price = p}

\* A record of orders, levels and volumes.
Shaped(b, os) ==
  \E lv, tt : /\ lv = [side \in Sides |-> lv[side]] /\ tt = [side \in Sides |-> tt[side]]
             /\ b = [orders |-> os, level |-> lv, tot |-> tt]

\* The oracle b has the orders os: a level for each price at which one rests.
OracleIs(b, os) ==
  /\ Shaped(b, os)
  /\ \A side \in Sides :
       /\ b.tot[side] = Total(os, On(os, side))
       /\ \A p : p \in DOMAIN b.level[side] <=> PriceAt(os, side, p) # {}
       /\ \A p \in DOMAIN b.level[side] :
            b.level[side][p] = [shares |-> Total(os, PriceAt(os, side, p)),
                                count |-> Cardinality(PriceAt(os, side, p))]

LEMMA PricesFinite ==
  ASSUME NEW os \in Tables, NEW side, NEW p
  PROVE  /\ IsFiniteSet(PriceAt(os, side, p)) /\ PriceAt(os, side, p) \subseteq DOMAIN os
         /\ Cardinality(PriceAt(os, side, p)) \in Nat
         /\ Total(os, PriceAt(os, side, p)) \in Nat
<1>1. PriceAt(os, side, p) \in SUBSET (DOMAIN os)
  BY DEF PriceAt
<1>2. IsFiniteSet(PriceAt(os, side, p))
  BY <1>1, TableFacts, FS_Subset
<1> QED
  BY <1>1, <1>2, FS_CardinalityType, UnitsFinite

\* What the oracle reads of a level, there or not.
LEMMA LevelOfIs ==
  ASSUME NEW b, NEW os, OracleIs(b, os), NEW side \in Sides, NEW p
  PROVE  Ref!LevelOf(b, side, p) = [shares |-> Total(os, PriceAt(os, side, p)),
                                    count |-> Cardinality(PriceAt(os, side, p))]
<1>1. CASE p \in DOMAIN b.level[side]
  BY <1>1 DEF OracleIs, Ref!LevelOf
<1>2. CASE p \notin DOMAIN b.level[side]
  <2>1. PriceAt(os, side, p) = {}
    BY <1>2 DEF OracleIs
  <2> QED
    BY <1>2, <2>1, TotalEmpty, FS_EmptySet DEF Ref!LevelOf
<1> QED
  BY <1>1, <1>2

\* The oracle with one side written.
SideChange(b, os2, s, lv, t) ==
  [b EXCEPT !.orders = os2, !.level[s] = lv, !.tot[s] = t]

LEMMA SideChangeIs ==
  ASSUME NEW b, NEW os, OracleIs(b, os), NEW os2, NEW s \in Sides, NEW lv, NEW t,
         NEW c, c = SideChange(b, os2, s, lv, t)
  PROVE  /\ Shaped(c, os2)
         /\ c.orders = os2
         /\ \A side \in Sides :
              /\ c.level[side] = IF side = s THEN lv ELSE b.level[side]
              /\ c.tot[side] = IF side = s THEN t ELSE b.tot[side]
<1>1. PICK lvs, tts :
        /\ lvs = [side \in Sides |-> lvs[side]] /\ tts = [side \in Sides |-> tts[side]]
        /\ b = [orders |-> os, level |-> lvs, tot |-> tts]
  BY DEF OracleIs, Shaped
<1>2. PICK lv2 : lv2 = [lvs EXCEPT ![s] = lv]
  OBVIOUS
<1>3. PICK tt2 : tt2 = [tts EXCEPT ![s] = t]
  OBVIOUS
<1>4. PICK u : u = [orders |-> os2, level |-> lvs, tot |-> tts]
  OBVIOUS
<1>5. PICK v : v = [orders |-> os2, level |-> lv2, tot |-> tts]
  OBVIOUS
<1>6. PICK w : w = [orders |-> os2, level |-> lv2, tot |-> tt2]
  OBVIOUS
<1>7. [b EXCEPT !.orders = os2] = u
  BY <1>1, <1>4
<1>8. [u EXCEPT !.level[s] = lv] = v
  BY <1>2, <1>4, <1>5
<1>9. [v EXCEPT !.tot[s] = t] = w
  BY <1>3, <1>5, <1>6
<1>10. SideChange(b, os2, s, lv, t) = [[[b EXCEPT !.orders = os2] EXCEPT !.level[s] = lv] EXCEPT !.tot[s] = t]
  BY <1>1 DEF SideChange
<1>11. c = w
  BY <1>7, <1>8, <1>9, <1>10
<1>12. /\ lv2 = [side \in Sides |-> lv2[side]] /\ tt2 = [side \in Sides |-> tt2[side]]
       /\ \A side \in Sides :
            /\ lv2[side] = IF side = s THEN lv ELSE lvs[side]
            /\ tt2[side] = IF side = s THEN t ELSE tts[side]
  BY <1>1, <1>2, <1>3
<1>13. Shaped(c, os2)
  <2>1. lv2 = [side \in Sides |-> lv2[side]] /\ tt2 = [side \in Sides |-> tt2[side]]
        /\ c = [orders |-> os2, level |-> lv2, tot |-> tt2]
    BY <1>6, <1>11, <1>12
  <2> QED
    BY <2>1, Zenon DEF Shaped
<1>14. c.orders = os2 /\ c.level = lv2 /\ c.tot = tt2 /\ b.level = lvs /\ b.tot = tts
  BY <1>1, <1>6, <1>11
<1> QED
  BY <1>12, <1>13, <1>14

LEMMA PricePlus ==
  ASSUME NEW os \in Tables, NEW r, r \notin DOMAIN os, NEW o \in Ords, NEW side, NEW p
  PROVE  PriceAt(Ref!Put(os, r, o), side, p) =
           IF side = o.side /\ p = o.price THEN PriceAt(os, side, p) \cup {r}
           ELSE PriceAt(os, side, p)
<1>1. PICK os2 : os2 = Ref!Put(os, r, o)
  OBVIOUS
<1>2. /\ DOMAIN os2 = DOMAIN os \cup {r} /\ os2[r] = o
      /\ \A q \in DOMAIN os : os2[q] = os[q]
  BY <1>1 DEF Ref!Put
<1> QED
  BY <1>1, <1>2 DEF PriceAt

LEMMA RefAddIs ==
  ASSUME NEW os \in Tables, NEW b, OracleIs(b, os), NEW r, r \notin DOMAIN os, NEW o \in Ords
  PROVE  OracleIs(Ref!RefAdd(b, r, o.side, o.price, o.shares), Ref!Put(os, r, o))
<1>1. PICK s \in Sides, p \in 0 .. PriceMod - 1, q \in 0 .. SharesMod - 1 :
        /\ s = o.side /\ p = o.price /\ q = o.shares
        /\ o = [side |-> s, price |-> p, shares |-> q]
  BY OrdFields DEF Ords
<1>2. PICK at : at = PriceAt(os, s, p)
  OBVIOUS
<1>3. PICK l : l = [shares |-> Total(os, at) + q, count |-> Cardinality(at) + 1]
  OBVIOUS
<1>4. PICK lv : lv = Ref!Put(b.level[s], p, l)
  OBVIOUS
<1>5. PICK t : t = b.tot[s] + q
  OBVIOUS
<1>6. PICK os2 : os2 = Ref!Put(os, r, o)
  OBVIOUS
<1>7. PICK c : c = Ref!RefAdd(b, r, s, p, q)
  OBVIOUS
<1>8. c = SideChange(b, os2, s, lv, t)
  <2>1. PICK lvl : lvl = Ref!LevelOf(b, s, p)
    OBVIOUS
  <2>2. lvl.shares = Total(os, at) /\ lvl.count = Cardinality(at)
    BY <1>2, <2>1, LevelOfIs
  <2>3. l = [shares |-> lvl.shares + q, count |-> lvl.count + 1]
    BY <1>3, <2>2
  <2>4. PICK lvs, tts :
          /\ lvs = [side \in Sides |-> lvs[side]] /\ tts = [side \in Sides |-> tts[side]]
          /\ b = [orders |-> os, level |-> lvs, tot |-> tts]
    BY DEF OracleIs, Shaped
  <2>5. [b EXCEPT !.orders = Ref!Put(@, r, [side |-> s, price |-> p, shares |-> q]),
                  !.level[s] = Ref!Put(@, p, [shares |-> lvl.shares + q, count |-> lvl.count + 1]),
                  !.tot[s] = @ + q]
          = [b EXCEPT !.orders = os2, !.level[s] = lv, !.tot[s] = t]
    <3>1. os2 = Ref!Put(b.orders, r, [side |-> s, price |-> p, shares |-> q])
      BY <1>1, <1>6, <2>4
    <3>2. lv = Ref!Put(b.level[s], p, [shares |-> lvl.shares + q, count |-> lvl.count + 1])
      BY <1>4, <2>3
    <3> QED
      BY <1>5, <2>4, <3>1, <3>2
  <2> QED
    BY <1>7, <2>1, <2>5 DEF Ref!RefAdd, SideChange
<1>9. /\ Shaped(c, os2)
      /\ \A side \in Sides :
           /\ c.level[side] = IF side = s THEN lv ELSE b.level[side]
           /\ c.tot[side] = IF side = s THEN t ELSE b.tot[side]
  BY <1>8, SideChangeIs
<1>10. ASSUME NEW side \in Sides PROVE c.tot[side] = Total(os2, On(os2, side))
  <2>1. PICK on : on = On(os, side)
    OBVIOUS
  <2>2. On(os2, side) = IF side = s THEN on \cup {r} ELSE on
    <3>1. On(Ref!Put(os, r, o), side) = IF side = o.side THEN On(os, side) \cup {r} ELSE On(os, side)
      BY PartsPlus
    <3> QED
      BY <1>1, <1>6, <2>1, <3>1
  <2>3. IsFiniteSet(on) /\ on \subseteq DOMAIN os
    BY <2>1, PartsFinite, PartsPlus
  <2>4. Total(os2, on) = Total(os, on) /\ Total(os2, on \cup {r}) = Total(os, on) + q
    BY <1>1, <1>6, <2>3, SetPlus
  <2>5. b.tot[side] = Total(os, on)
    BY <2>1 DEF OracleIs
  <2> QED
    BY <1>5, <1>9, <2>2, <2>4, <2>5
<1>11. ASSUME NEW side \in Sides, NEW x
       PROVE  /\ x \in DOMAIN c.level[side] <=> PriceAt(os2, side, x) # {}
              /\ x \in DOMAIN c.level[side] =>
                   c.level[side][x] = [shares |-> Total(os2, PriceAt(os2, side, x)),
                                       count |-> Cardinality(PriceAt(os2, side, x))]
  <2>1. PICK old : old = PriceAt(os, side, x)
    OBVIOUS
  <2>2. PriceAt(os2, side, x) = IF side = s /\ x = p THEN old \cup {r} ELSE old
    <3>1. PriceAt(Ref!Put(os, r, o), side, x) =
            IF side = o.side /\ x = o.price THEN PriceAt(os, side, x) \cup {r}
            ELSE PriceAt(os, side, x)
      BY PricePlus
    <3> QED
      BY <1>1, <1>6, <2>1, <3>1
  <2>3. IsFiniteSet(old) /\ old \subseteq DOMAIN os
    BY <2>1, PricesFinite
  <2>4. /\ Total(os2, old) = Total(os, old) /\ Total(os2, old \cup {r}) = Total(os, old) + q
        /\ Cardinality(old \cup {r}) = Cardinality(old) + 1
    BY <1>1, <1>6, <2>3, SetPlus
  <2>5. /\ x \in DOMAIN b.level[side] <=> old # {}
        /\ x \in DOMAIN b.level[side] =>
             b.level[side][x] = [shares |-> Total(os, old), count |-> Cardinality(old)]
    BY <2>1 DEF OracleIs
  <2>6. CASE side = s /\ x = p
    <3>1. old = at
      BY <1>2, <2>1, <2>6
    <3>2. p \in DOMAIN lv /\ lv[p] = l
      BY <1>4 DEF Ref!Put
    <3>3. l = [shares |-> Total(os2, old \cup {r}), count |-> Cardinality(old \cup {r})]
      BY <1>3, <2>4, <3>1
    <3> QED
      BY <1>9, <2>2, <2>6, <3>2, <3>3
  <2>7. CASE side = s /\ x # p
    <3>1. (x \in DOMAIN lv <=> x \in DOMAIN b.level[s]) /\ (x \in DOMAIN lv => lv[x] = b.level[s][x])
      BY <1>4, <2>7 DEF Ref!Put
    <3> QED
      BY <1>9, <2>2, <2>4, <2>5, <2>7, <3>1
  <2>8. CASE side # s
    BY <1>9, <2>2, <2>4, <2>5, <2>8
  <2> QED
    BY <2>6, <2>7, <2>8
<1>12. OracleIs(c, os2)
  BY <1>9, <1>10, <1>11 DEF OracleIs
<1> QED
  BY <1>1, <1>6, <1>7, <1>12

\* Shares amt taken off the order at r, which is dropped with its last.
Cut(os, r, amt) ==
  IF amt = os[r].shares THEN Ref!Drop(os, r)
  ELSE Ref!Put(os, r, [os[r] EXCEPT !.shares = @ - amt])

Positive(os) == \A r \in DOMAIN os : os[r].shares # 0

LEMMA CutIs ==
  ASSUME NEW os \in Tables, NEW r \in DOMAIN os, NEW amt \in 0 .. os[r].shares
  PROVE  /\ Cut(os, r, amt) \in Tables /\ IsLess(os, Cut(os, r, amt), r, amt)
         /\ Positive(os) => Positive(Cut(os, r, amt))
<1>1. PICK o \in Ords : o = os[r]
  BY TableFacts
<1>2. PICK has \in 0 .. SharesMod - 1 : has = o.shares
  BY OrdFields
<1>3. /\ os = [q \in DOMAIN os |-> os[q]] /\ DOMAIN os \subseteq Refs
      /\ \A q \in DOMAIN os : os[q] \in Ords
  BY TableFacts
<1>4. PICK os2 : os2 = Cut(os, r, amt)
  OBVIOUS
<1>5. CASE amt = has
  <2>1. os2 = Ref!Drop(os, r)
    BY <1>1, <1>2, <1>4, <1>5 DEF Cut
  <2>2. /\ DOMAIN os2 = DOMAIN os \ {r} /\ \A q \in DOMAIN os \ {r} : os2[q] = os[q]
        /\ os2 \in [DOMAIN os \ {r} -> Ords]
    BY <1>3, <2>1 DEF Ref!Drop
  <2>3. os2 \in Tables
    BY <1>3, <2>2 DEF Tables
  <2>4. IsLess(os, os2, r, amt)
    BY <1>1, <1>2, <1>5, <2>2 DEF IsLess
  <2>5. Positive(os) => Positive(os2)
    BY <2>2 DEF Positive
  <2> QED
    BY <1>4, <2>3, <2>4, <2>5
<1>6. CASE amt # has
  <2>1. PICK n : n = has - amt
    OBVIOUS
  <2>2. n \in 0 .. SharesMod - 1 /\ n # 0
    BY <1>1, <1>2, <1>6, <2>1, EngineConstants
  <2>3. PICK v : v = [o EXCEPT !.shares = n]
    OBVIOUS
  <2>4. v \in Ords /\ v.side = o.side /\ v.price = o.price /\ v.shares = n
    BY <2>2, <2>3 DEF Ords
  <2>5. os2 = Ref!Put(os, r, v)
    <3>1. [o EXCEPT !.shares = @ - amt] = v
      BY <1>2, <2>1, <2>3 DEF Ords
    <3> QED
      BY <1>1, <1>2, <1>4, <1>6, <3>1 DEF Cut
  <2>6. /\ DOMAIN os2 = DOMAIN os /\ \A q \in DOMAIN os \ {r} : os2[q] = os[q]
        /\ os2[r] = v /\ os2 \in [DOMAIN os -> Ords]
    BY <1>3, <2>4, <2>5 DEF Ref!Put
  <2>7. os2 \in Tables
    BY <1>3, <2>6 DEF Tables
  <2>8. IsLess(os, os2, r, amt)
    BY <1>1, <1>2, <1>6, <2>1, <2>4, <2>6 DEF IsLess
  <2>9. Positive(os) => Positive(os2)
    BY <2>2, <2>4, <2>6 DEF Positive
  <2> QED
    BY <1>4, <2>7, <2>8, <2>9
<1> QED
  BY <1>5, <1>6

LEMMA PriceLess ==
  ASSUME NEW os \in Tables, NEW r \in DOMAIN os, NEW amt \in 0 .. os[r].shares,
         NEW os2, IsLess(os, os2, r, amt), NEW side, NEW p
  PROVE  /\ PriceAt(os2, side, p) =
              IF amt = os[r].shares THEN PriceAt(os, side, p) \ {r} ELSE PriceAt(os, side, p)
         /\ r \in PriceAt(os, side, p) <=> side = os[r].side /\ p = os[r].price
<1>1. /\ DOMAIN os2 = IF amt = os[r].shares THEN DOMAIN os \ {r} ELSE DOMAIN os
      /\ \A q \in DOMAIN os2 : os2[q].side = os[q].side /\ os2[q].price = os[q].price
  BY DEF IsLess
<1> QED
  BY <1>1 DEF PriceAt

\* Orders without shares are none.
LEMMA NoShares ==
  ASSUME NEW os \in Tables, Positive(os), NEW rs, IsFiniteSet(rs), rs \subseteq DOMAIN os
  PROVE  Total(os, rs) = 0 <=> rs = {}
<1>1. ASSUME NEW r \in rs PROVE Total(os, rs) # 0
  <2>1. PICK n \in 0 .. SharesMod - 1 : n = os[r].shares /\ n # 0
    BY TableFacts DEF Positive
  <2>2. Total(os, rs) = Total(os, rs \ {r}) + os[r].shares /\ Total(os, rs \ {r}) \in Nat
    BY <2>1, TotalWith
  <2> QED
    BY <2>1, <2>2, EngineConstants
<1> QED
  BY <1>1, TotalEmpty

LEMMA RefTakeIs ==
  ASSUME NEW os \in Tables, NEW b, OracleIs(b, os), NEW r \in DOMAIN os,
         NEW amt \in 0 .. os[r].shares, Positive(os)
  PROVE  OracleIs(Ref!RefTake(b, r, amt), Cut(os, r, amt))
<1>1. PICK o \in Ords : o = os[r]
  BY TableFacts
<1>2. PICK s \in Sides, p \in 0 .. PriceMod - 1, q \in 0 .. SharesMod - 1 :
        s = o.side /\ p = o.price /\ q = o.shares
  BY OrdFields
<1>3. PICK os2 : os2 = Cut(os, r, amt)
  OBVIOUS
<1>4. os2 \in Tables /\ IsLess(os, os2, r, amt)
  BY <1>3, CutIs
<1>5. amt \in Nat /\ amt <= q /\ q # 0 /\ q \in Nat
  BY <1>1, <1>2, EngineConstants DEF Positive
<1>6. PICK at : at = PriceAt(os, s, p)
  OBVIOUS
<1>7. /\ r \in at /\ IsFiniteSet(at) /\ at \subseteq DOMAIN os /\ Cardinality(at) \in Nat
      /\ Total(os, at) \in Nat
  <2>1. r \in PriceAt(os, s, p)
    BY <1>1, <1>2 DEF PriceAt
  <2> QED
    BY <1>6, <2>1, PricesFinite
<1>8. PICK gone \in BOOLEAN : gone <=> amt = q
  OBVIOUS
<1>9. PICK l : l = [shares |-> Total(os, at) - amt,
                    count |-> IF gone THEN Cardinality(at) - 1 ELSE Cardinality(at)]
  OBVIOUS
<1>10. PICK lv : lv = IF gone /\ Total(os, at) = amt THEN Ref!Drop(b.level[s], p)
                      ELSE Ref!Put(b.level[s], p, l)
  OBVIOUS
<1>11. PICK t : t = b.tot[s] - amt
  OBVIOUS
<1>12. PICK c : c = Ref!RefTake(b, r, amt)
  OBVIOUS
<1>13. c = SideChange(b, os2, s, lv, t)
  <2>1. PICK lvs, tts :
          /\ lvs = [side \in Sides |-> lvs[side]] /\ tts = [side \in Sides |-> tts[side]]
          /\ b = [orders |-> os, level |-> lvs, tot |-> tts]
    BY DEF OracleIs, Shaped
  <2>2. PICK lvl : lvl = Ref!LevelOf(b, s, p)
    OBVIOUS
  <2>3. lvl.shares = Total(os, at) /\ lvl.count = Cardinality(at)
    BY <1>6, <2>2, LevelOfIs
  <2>4. PICK os3 : os3 = IF gone THEN Ref!Drop(os, r)
                         ELSE Ref!Put(os, r, [o EXCEPT !.shares = @ - amt])
    OBVIOUS
  <2>5. os3 = os2
    BY <1>1, <1>2, <1>3, <1>8, <2>4 DEF Cut
  <2>6. PICK lv3 : lv3 = IF gone /\ lvl.shares = amt THEN Ref!Drop(b.level[s], p)
                         ELSE Ref!Put(b.level[s], p,
                                      [shares |-> lvl.shares - amt,
                                       count |-> IF gone THEN lvl.count - 1 ELSE lvl.count])
    OBVIOUS
  <2>7. lv3 = lv
    BY <1>9, <1>10, <2>3, <2>6
  <2>8. PICK e : e = [b EXCEPT !.orders = os3, !.level[s] = lv3, !.tot[s] = t]
    OBVIOUS
  <2>9. c = e
    <3>1. b.orders[r] = o /\ b.orders = os
      BY <1>1, <2>1
    <3>2. c = [b EXCEPT
                 !.orders = IF amt = q THEN Ref!Drop(@, r)
                            ELSE Ref!Put(@, r, [o EXCEPT !.shares = @ - amt]),
                 !.level[s] =
                    IF amt = q /\ lvl.shares = amt THEN Ref!Drop(@, p)
                    ELSE Ref!Put(@, p, [shares |-> lvl.shares - amt,
                                        count |-> IF amt = q THEN lvl.count - 1
                                                  ELSE lvl.count]),
                 !.tot[s] = @ - amt]
      BY <1>2, <1>12, <2>2, <3>1 DEF Ref!RefTake
    <3>3. os3 = IF amt = q THEN Ref!Drop(os, r)
                ELSE Ref!Put(os, r, [o EXCEPT !.shares = @ - amt])
      BY <1>8, <2>4
    <3>4. lv3 = IF amt = q /\ lvl.shares = amt THEN Ref!Drop(b.level[s], p)
                ELSE Ref!Put(b.level[s], p, [shares |-> lvl.shares - amt,
                                             count |-> IF amt = q THEN lvl.count - 1
                                                       ELSE lvl.count])
      BY <1>8, <2>6
    <3>5. lvs = b.level /\ tts = b.tot
      BY <2>1
    <3> QED
      BY <1>11, <2>1, <2>8, <3>2, <3>3, <3>4, <3>5
  <2> QED
    BY <2>5, <2>7, <2>8, <2>9 DEF SideChange
<1>14. /\ Shaped(c, os2)
       /\ \A side \in Sides :
            /\ c.level[side] = IF side = s THEN lv ELSE b.level[side]
            /\ c.tot[side] = IF side = s THEN t ELSE b.tot[side]
  BY <1>13, SideChangeIs
<1>15. \A rs \in SUBSET DOMAIN os :
         IsFiniteSet(rs) =>
           /\ r \notin rs => Total(os2, rs) = Total(os, rs)
           /\ r \in rs =>
                IF amt = os[r].shares
                THEN /\ Total(os2, rs \ {r}) = Total(os, rs) - amt
                     /\ Cardinality(rs \ {r}) = Cardinality(rs) - 1
                ELSE Total(os2, rs) = Total(os, rs) - amt
  BY <1>4, SetsLess
<1>16. os[r].shares = q /\ os[r].side = s /\ os[r].price = p
  BY <1>1, <1>2
<1>17. ASSUME NEW side \in Sides PROVE c.tot[side] = Total(os2, On(os2, side))
  <2>1. PICK on : on = On(os, side)
    OBVIOUS
  <2>2. On(os2, side) = IF amt = q THEN on \ {r} ELSE on
    <3>1. On(os2, side) = IF amt = os[r].shares THEN On(os, side) \ {r} ELSE On(os, side)
      BY <1>4 DEF On, IsLess
    <3> QED
      BY <1>16, <2>1, <3>1
  <2>3. IsFiniteSet(on) /\ on \subseteq DOMAIN os /\ (r \in on <=> side = s)
    BY <1>4, <1>16, <2>1, PartsFinite DEF On
  <2>4. b.tot[side] = Total(os, on)
    BY <2>1 DEF OracleIs
  <2>5. on \in SUBSET DOMAIN os
    BY <2>3
  <2>6. CASE side = s
    <3>1. Total(os2, On(os2, side)) = Total(os, on) - amt
      BY <1>15, <1>16, <2>2, <2>3, <2>5, <2>6
    <3> QED
      BY <1>11, <1>14, <2>4, <2>6, <3>1
  <2>7. CASE side # s
    <3>1. On(os2, side) = on
      BY <2>2, <2>3, <2>7
    <3>2. Total(os2, on) = Total(os, on)
      BY <1>15, <2>3, <2>5, <2>7
    <3> QED
      BY <1>14, <2>4, <2>7, <3>1, <3>2
  <2> QED
    BY <2>6, <2>7
<1>18. ASSUME NEW side \in Sides, NEW x
       PROVE  /\ x \in DOMAIN c.level[side] <=> PriceAt(os2, side, x) # {}
              /\ x \in DOMAIN c.level[side] =>
                   c.level[side][x] = [shares |-> Total(os2, PriceAt(os2, side, x)),
                                       count |-> Cardinality(PriceAt(os2, side, x))]
  <2>1. PICK old : old = PriceAt(os, side, x)
    OBVIOUS
  <2>2. /\ PriceAt(os2, side, x) = IF amt = q THEN old \ {r} ELSE old
        /\ r \in old <=> side = s /\ x = p
    BY <1>4, <1>16, <2>1, PriceLess
  <2>3. IsFiniteSet(old) /\ old \in SUBSET DOMAIN os
    BY <2>1, PricesFinite
  <2>4. /\ x \in DOMAIN b.level[side] <=> old # {}
        /\ x \in DOMAIN b.level[side] =>
             b.level[side][x] = [shares |-> Total(os, old), count |-> Cardinality(old)]
    BY <2>1 DEF OracleIs
  <2>5. CASE ~(side = s /\ x = p)
    <3>1. PriceAt(os2, side, x) = old /\ Total(os2, old) = Total(os, old)
      BY <1>15, <2>2, <2>3, <2>5
    <3>2. side = s => /\ x \in DOMAIN lv <=> x \in DOMAIN b.level[s]
                      /\ x \in DOMAIN lv => lv[x] = b.level[s][x]
      BY <1>10, <2>5 DEF Ref!Put, Ref!Drop
    <3> QED
      BY <1>14, <2>4, <3>1, <3>2
  <2>6. CASE side = s /\ x = p /\ ~gone
    <3>1. /\ PriceAt(os2, side, x) = at /\ Total(os2, at) = Total(os, at) - amt /\ old = at
      BY <1>6, <1>8, <1>15, <1>16, <2>1, <2>2, <2>3, <2>6
    <3>2. p \in DOMAIN lv /\ lv[p] = l
      BY <1>10, <2>6 DEF Ref!Put
    <3>3. l = [shares |-> Total(os2, at), count |-> Cardinality(at)]
      BY <1>9, <2>6, <3>1
    <3> QED
      BY <1>7, <1>14, <2>6, <3>1, <3>2, <3>3
  <2>7. CASE side = s /\ x = p /\ gone
    <3>1. /\ PriceAt(os2, side, x) = at \ {r} /\ Total(os2, at \ {r}) = Total(os, at) - amt
          /\ Cardinality(at \ {r}) = Cardinality(at) - 1
      BY <1>6, <1>8, <1>15, <1>16, <2>1, <2>2, <2>3, <2>7
    <3>2. Total(os, at) = Total(os, at \ {r}) + q /\ Total(os, at \ {r}) \in Nat
      BY <1>7, <1>16, TotalWith
    <3>3. Total(os, at \ {r}) = 0 <=> at \ {r} = {}
      <4>1. IsFiniteSet(at \ {r}) /\ at \ {r} \subseteq DOMAIN os
        BY <1>7, FS_RemoveElement
      <4> QED
        BY <4>1, NoShares
    <3>4. Total(os, at) = amt <=> at \ {r} = {}
      BY <1>5, <1>8, <2>7, <3>2, <3>3
    <3>5. CASE Total(os, at) = amt
      <4>1. p \notin DOMAIN lv
        BY <1>10, <2>7, <3>5 DEF Ref!Drop
      <4> QED
        BY <1>14, <2>7, <3>1, <3>4, <3>5, <4>1
    <3>6. CASE Total(os, at) # amt
      <4>1. p \in DOMAIN lv /\ lv[p] = l
        BY <1>10, <2>7, <3>6 DEF Ref!Put
      <4>2. l = [shares |-> Total(os2, at \ {r}), count |-> Cardinality(at \ {r})]
        BY <1>9, <2>7, <3>1
      <4> QED
        BY <1>14, <2>7, <3>1, <3>4, <3>6, <4>1, <4>2
    <3> QED
      BY <3>5, <3>6
  <2> QED
    BY <2>5, <2>6, <2>7
<1>19. OracleIs(c, os2)
  BY <1>14, <1>17, <1>18 DEF OracleIs
<1> QED
  BY <1>3, <1>12, <1>19

-----------------------------------------------------------------------------
(* A message applied to the oracle and to the orders. *)

TradesOf(os, m) == Ref!RefTrades([orders |-> os], m)

\* What the oracle takes off for a message, the engine takes off as well.
LEMMA LeftIs ==
  ASSUME NEW os \in Tables, NEW b, b.orders = os, NEW m \in Msgs, m.type \in Modifies,
         m.ref \in DOMAIN os
  PROVE  /\ Ref!Takes(b, m) \in 0 .. os[m.ref].shares
         /\ Left(os, m) = Cut(os, m.ref, Ref!Takes(b, m))
         /\ m.type = "replace" => Ref!Takes(b, m) = os[m.ref].shares
<1>1. PICK r : r = m.ref
  OBVIOUS
<1>2. PICK has \in 0 .. SharesMod - 1 : has = os[r].shares
  BY <1>1, TableFacts
<1>3. PICK amt : amt = Ref!Takes(b, m)
  OBVIOUS
<1>4. CASE m.type \in {"delete", "replace"}
  <2>1. amt = has
    BY <1>1, <1>2, <1>3, <1>4 DEF Ref!Takes
  <2>2. Left(os, m) = Ref!Drop(os, r)
    BY <1>1, <1>4 DEF Left
  <2> QED
    BY <1>1, <1>2, <1>3, <2>1, <2>2, EngineConstants DEF Cut
<1>5. CASE m.type \in {"exec", "exec_pr", "cancel"}
  <2>1. PICK wants \in 0 .. SharesMod - 1 : wants = m.shares
    BY <1>5, MsgFields, BookAssumption
  <2>2. m.type \notin {"delete", "replace"}
    BY <1>5
  <2>3. amt = IF has < wants THEN has ELSE wants
    BY <1>1, <1>2, <1>3, <2>1, <2>2 DEF Ref!Takes
  <2>4. amt \in 0 .. has
    BY <1>2, <2>1, <2>3, EngineConstants
  <2>5. CASE has <= wants
    <3>1. amt = has
      BY <1>2, <2>1, <2>3, <2>5, EngineConstants
    <3>2. Left(os, m) = Ref!Drop(os, r)
      BY <1>1, <1>2, <2>1, <2>5 DEF Left
    <3> QED
      BY <1>1, <1>2, <1>3, <2>2, <2>4, <3>1, <3>2 DEF Cut
  <2>6. CASE ~(has <= wants)
    <3>1. amt = wants /\ amt # has
      BY <1>2, <2>1, <2>3, <2>6, EngineConstants
    <3>2. Left(os, m) = [os EXCEPT ![r].shares = @ - wants]
      BY <1>1, <1>2, <2>1, <2>2, <2>6 DEF Left
    <3>3. PICK v : v = [os[r] EXCEPT !.shares = @ - wants]
      OBVIOUS
    <3>4. os = [x \in DOMAIN os |-> os[x]] /\ DOMAIN os \cup {r} = DOMAIN os
      BY <1>1, TableFacts
    <3>5. [os EXCEPT ![r].shares = @ - wants] = [x \in DOMAIN os |-> IF x = r THEN v ELSE os[x]]
      BY <1>1, <3>3, <3>4
    <3>6. Ref!Put(os, r, v) = [x \in DOMAIN os |-> IF x = r THEN v ELSE os[x]]
      BY <3>4 DEF Ref!Put
    <3>7. Cut(os, r, amt) = Ref!Put(os, r, v)
      BY <1>2, <3>1, <3>3 DEF Cut
    <3> QED
      BY <1>1, <1>2, <1>3, <2>2, <2>4, <3>2, <3>5, <3>6, <3>7
  <2> QED
    BY <2>5, <2>6
<1> QED
  BY <1>4, <1>5 DEF Modifies

\* All orders are in the band.
Banded(base, os) == \A r \in DOMAIN os : os[r].price \in base .. base + PriceLevels - 1

LEMMA CutKeeps ==
  ASSUME NEW os \in Tables, NEW r \in DOMAIN os, NEW amt \in 0 .. os[r].shares,
         NEW base, Banded(base, os), Positive(os)
  PROVE  /\ Cut(os, r, amt) \in Tables /\ Positive(Cut(os, r, amt))
         /\ Banded(base, Cut(os, r, amt))
<1>1. PICK os2 : os2 = Cut(os, r, amt)
  OBVIOUS
<1>2. os2 \in Tables /\ IsLess(os, os2, r, amt) /\ Positive(os2)
  BY <1>1, CutIs
<1>3. \A q \in DOMAIN os2 : q \in DOMAIN os /\ os2[q].price = os[q].price
  BY <1>2 DEF IsLess
<1>4. Banded(base, os2)
  BY <1>3 DEF Banded
<1> QED
  BY <1>1, <1>2, <1>4

LEMMA PutKeeps ==
  ASSUME NEW os \in Tables, NEW r \in Refs, NEW o \in Ords, o.shares # 0,
         NEW base, o.price \in base .. base + PriceLevels - 1,
         Banded(base, os), Positive(os)
  PROVE  /\ Ref!Put(os, r, o) \in Tables /\ Positive(Ref!Put(os, r, o))
         /\ Banded(base, Ref!Put(os, r, o))
<1>1. PICK os2 : os2 = Ref!Put(os, r, o)
  OBVIOUS
<1>2. /\ os2 = [q \in DOMAIN os \cup {r} |-> os2[q]] /\ DOMAIN os2 = DOMAIN os \cup {r}
      /\ \A q \in DOMAIN os2 : os2[q] = IF q = r THEN o ELSE os[q]
  BY <1>1 DEF Ref!Put
<1>3. DOMAIN os2 \in SUBSET Refs /\ os2 \in [DOMAIN os2 -> Ords]
  BY <1>2, TableFacts
<1>4. os2 \in Tables
  BY <1>3 DEF Tables
<1>5. Positive(os2)
  BY <1>2 DEF Positive
<1>6. Banded(base, os2)
  BY <1>2 DEF Banded
<1> QED
  BY <1>1, <1>4, <1>5, <1>6

\* A price inside the window is in the band, if the band does not wrap.
LEMMA InsideBand ==
  ASSUME NEW base \in Nat, base + PriceLevels <= PriceMod, NEW p \in 0 .. PriceMod - 1
  PROVE  InWindow(base, p) <=> p \in base .. base + PriceLevels - 1
<1>1. /\ PriceLevels \in Nat /\ PriceMod \in Nat /\ p \in Nat /\ p < PriceMod /\ PriceLevels > 0
      /\ base < PriceMod
  BY EngineConstants
<1>2. PICK d \in 0 .. PriceMod - 1 : d = (p - base) % PriceMod
  BY <1>1
<1>3. CASE p >= base
  <2>1. p - base \in 0 .. PriceMod - 1
    BY <1>1, <1>3
  <2>2. d = p - base
    BY <1>1, <1>2, <2>1
  <2> QED
    BY <1>1, <1>2, <1>3, <2>2 DEF InWindow
<1>4. CASE p < base
  <2>1. PICK e \in 1 .. PriceMod - 1 : e = p - base + PriceMod
    BY <1>1, <1>4
  <2>2. (p - base) % PriceMod = e
    BY <1>1, <1>4, <2>1
  <2>3. e >= PriceLevels
    BY <1>1, <2>1
  <2> QED
    BY <1>1, <1>2, <1>4, <2>1, <2>2, <2>3 DEF InWindow
<1> QED
  BY <1>1, <1>3, <1>4

\* What Modelled says of the message: the oracle and the engine agree on it.
Fits(base, os, m) ==
  /\ m.type = "add" => m.ref \notin DOMAIN os /\ InWindow(base, m.price)
  /\ m.type = "replace" /\ m.ref \in DOMAIN os =>
       /\ m.nref \notin DOMAIN os \/ m.nref = m.ref
       /\ InWindow(base, m.price)

LEMMA AddApplies ==
  ASSUME 0 \notin AddQtys, NEW os \in Tables, NEW b, OracleIs(b, os), NEW base \in Nat,
         base + PriceLevels <= PriceMod, Banded(base, os), Positive(os),
         NEW r \in Refs, r \notin DOMAIN os, NEW side \in Sides, NEW p \in Prices,
         NEW q \in AddQtys, InWindow(base, p)
  PROVE  /\ OracleIs(Ref!RefAdd(b, r, side, p, q), Ref!Put(os, r, Order(side, p, q)))
         /\ Ref!Put(os, r, Order(side, p, q)) \in Tables
         /\ Positive(Ref!Put(os, r, Order(side, p, q)))
         /\ Banded(base, Ref!Put(os, r, Order(side, p, q)))
<1>1. PICK o \in Ords : o = Order(side, p, q)
  BY OrderType
<1>2. o.side = side /\ o.price = p /\ o.shares = q /\ q # 0
  BY <1>1, OrderType
<1>3. OracleIs(Ref!RefAdd(b, r, o.side, o.price, o.shares), Ref!Put(os, r, o))
  BY RefAddIs
<1>4. p \in 0 .. PriceMod - 1
  BY BookAssumption
<1>5. o.price \in base .. base + PriceLevels - 1
  BY <1>2, <1>4, InsideBand
<1>6. /\ Ref!Put(os, r, o) \in Tables /\ Positive(Ref!Put(os, r, o))
      /\ Banded(base, Ref!Put(os, r, o))
  BY <1>2, <1>5, PutKeeps
<1> QED
  BY <1>1, <1>2, <1>3, <1>6

LEMMA TakeApplies ==
  ASSUME NEW os \in Tables, NEW b, OracleIs(b, os), NEW base, Banded(base, os), Positive(os),
         NEW m \in Msgs, m.type \in Modifies, m.ref \in DOMAIN os
  PROVE  /\ OracleIs(Ref!RefTake(b, m.ref, Ref!Takes(b, m)), Left(os, m))
         /\ Left(os, m) \in Tables /\ Positive(Left(os, m)) /\ Banded(base, Left(os, m))
         /\ m.type = "replace" => DOMAIN Left(os, m) = DOMAIN os \ {m.ref}
<1>1. b.orders = os
  BY DEF OracleIs, Shaped
<1>2. /\ Ref!Takes(b, m) \in 0 .. os[m.ref].shares
      /\ Left(os, m) = Cut(os, m.ref, Ref!Takes(b, m))
  BY <1>1, LeftIs
<1>3. PICK r \in DOMAIN os : r = m.ref
  OBVIOUS
<1>4. PICK amt \in 0 .. os[r].shares : amt = Ref!Takes(b, m)
  BY <1>2, <1>3
<1>5. PICK os2 : os2 = Cut(os, r, amt)
  OBVIOUS
<1>6. OracleIs(Ref!RefTake(b, r, amt), Cut(os, r, amt))
  BY RefTakeIs
<1>7. /\ Cut(os, r, amt) \in Tables /\ Positive(Cut(os, r, amt))
      /\ Banded(base, Cut(os, r, amt))
  BY CutKeeps
<1>8. m.type = "replace" => DOMAIN Left(os, m) = DOMAIN os \ {m.ref}
  BY DEF Left, Ref!Drop
<1> QED
  BY <1>2, <1>3, <1>4, <1>6, <1>7, <1>8

\* Each message takes the oracle and the orders to the same new ones.
LEMMA MessageApplies ==
  ASSUME 0 \notin AddQtys, NEW os \in Tables, NEW b, OracleIs(b, os), NEW base \in Nat,
         base + PriceLevels <= PriceMod, Banded(base, os), Positive(os),
         NEW m \in Msgs, Fits(base, os, m)
  PROVE  /\ OracleIs(Ref!RefApply(b, m), Result(base, os, m))
         /\ Positive(Result(base, os, m)) /\ Banded(base, Result(base, os, m))
<1>1. b.orders = os
  BY DEF OracleIs, Shaped
<1>2. CASE m.type = "add"
  <2>1. PICK r \in Refs, side \in Sides, p \in Prices, q \in AddQtys :
          r = m.ref /\ side = m.side /\ p = m.price /\ q = m.shares
    BY <1>2, MsgFields
  <2>2. r \notin DOMAIN os /\ InWindow(base, p)
    BY <1>2, <2>1 DEF Fits
  <2>3. Ref!RefApply(b, m) = Ref!RefAdd(b, r, side, p, q)
    BY <1>2, <2>1 DEF Ref!RefApply
  <2>4. Result(base, os, m) = Ref!Put(os, r, Order(side, p, q))
    BY <1>2, <2>1, <2>2 DEF Result, Adds
  <2>5. /\ OracleIs(Ref!RefAdd(b, r, side, p, q), Ref!Put(os, r, Order(side, p, q)))
        /\ Positive(Ref!Put(os, r, Order(side, p, q)))
        /\ Banded(base, Ref!Put(os, r, Order(side, p, q)))
    BY <2>2, AddApplies
  <2> QED
    BY <2>3, <2>4, <2>5
<1>3. CASE m.type \in Modifies /\ m.ref \notin DOMAIN os
  <2>1. Ref!RefApply(b, m) = b /\ Result(base, os, m) = os
    BY <1>1, <1>3 DEF Ref!RefApply, Result, Modifies
  <2> QED
    BY <2>1
<1>4. CASE m.type \in {"trade", "system"}
  <2>1. Ref!RefApply(b, m) = b /\ Result(base, os, m) = os
    BY <1>4 DEF Ref!RefApply, Result, Modifies
  <2> QED
    BY <2>1
<1>5. CASE m.type \in Modifies \ {"replace"} /\ m.ref \in DOMAIN os
  <2>1. Ref!RefApply(b, m) = Ref!RefTake(b, m.ref, Ref!Takes(b, m))
    BY <1>1, <1>5 DEF Ref!RefApply, Modifies
  <2>2. Result(base, os, m) = Left(os, m)
    BY <1>5 DEF Result, Modifies
  <2>3. m.type \in Modifies /\ m.ref \in DOMAIN os
    BY <1>5
  <2>4. /\ OracleIs(Ref!RefTake(b, m.ref, Ref!Takes(b, m)), Left(os, m))
        /\ Positive(Left(os, m)) /\ Banded(base, Left(os, m))
    BY <2>3, TakeApplies
  <2> QED
    BY <2>1, <2>2, <2>4
<1>6. CASE m.type = "replace" /\ m.ref \in DOMAIN os
  <2>1. PICK r \in Refs, side \in Sides, p \in Prices, q \in AddQtys :
          r = m.nref /\ side = os[m.ref].side /\ p = m.price /\ q = m.shares
    <3>1. os[m.ref].side \in Sides
      BY <1>6, TableFacts, OrdFields
    <3> QED
      BY <1>6, <3>1, MsgFields
  <2>2. PICK b2 : b2 = Ref!RefTake(b, m.ref, Ref!Takes(b, m))
    OBVIOUS
  <2>3. PICK os2 : os2 = Left(os, m)
    OBVIOUS
  <2>4. /\ OracleIs(b2, os2) /\ os2 \in Tables /\ Positive(os2) /\ Banded(base, os2)
        /\ DOMAIN os2 = DOMAIN os \ {m.ref}
    BY <1>6, <2>2, <2>3, TakeApplies DEF Modifies
  <2>5. r \notin DOMAIN os2 /\ InWindow(base, p)
    BY <1>6, <2>1, <2>4 DEF Fits
  <2>6. Ref!RefApply(b, m) = Ref!RefAdd(b2, r, side, p, q)
    BY <1>1, <1>6, <2>1, <2>2 DEF Ref!RefApply
  <2>7. Result(base, os, m) = Ref!Put(os2, r, Order(side, p, q))
    BY <1>6, <2>1, <2>3, <2>5 DEF Result, Adds, Modifies
  <2>8. /\ OracleIs(Ref!RefAdd(b2, r, side, p, q), Ref!Put(os2, r, Order(side, p, q)))
        /\ Positive(Ref!Put(os2, r, Order(side, p, q)))
        /\ Banded(base, Ref!Put(os2, r, Order(side, p, q)))
    BY <2>4, <2>5, AddApplies
  <2> QED
    BY <2>6, <2>7, <2>8
<1> QED
  BY <1>2, <1>3, <1>4, <1>5, <1>6, MsgFields DEF Modifies

LEMMA TradesSame ==
  ASSUME NEW os, NEW b, b.orders = os, NEW m
  PROVE  Ref!RefTrades(b, m) = TradesOf(os, m)
<1>1. PICK c : c = [orders |-> os]
  OBVIOUS
<1>2. c.orders = b.orders
  BY <1>1
<1>3. Ref!Takes(b, m) = Ref!Takes(c, m)
  BY <1>2 DEF Ref!Takes
<1>4. Ref!RefTrades(b, m) = Ref!RefTrades(c, m)
  BY <1>2, <1>3 DEF Ref!RefTrades
<1> QED
  BY <1>1, <1>4 DEF TradesOf

\* The oracle's book has orders: it is not the mark of a stream it cannot follow.
LEMMA OracleNotDiverged ==
  ASSUME NEW b, NEW os, OracleIs(b, os)
  PROVE  b # Diverged
<1>1. PICK lv, tt : b = [orders |-> os, level |-> lv, tot |-> tt]
  BY DEF OracleIs, Shaped
<1>2. DOMAIN b = {"orders", "level", "tot"} /\ DOMAIN Diverged = {"diverged"}
  BY <1>1 DEF Diverged
<1> QED
  BY <1>2

-----------------------------------------------------------------------------
(* The oracle next to the hardware: what it has been given, and what it is *)
(* still to be given.                                                      *)

\* The band ends before prices do, wherever a host or the first Add puts it.
BandsInside ==
  /\ \A base \in CfgBases : base + PriceLevels <= PriceMod
  /\ AutoInit => \A p \in Prices :
                   (IF p > BandHalf THEN p - BandHalf ELSE 0) + PriceLevels <= PriceMod

\* The orders the oracle knows of: not yet those of a message under way, nor of one
\* that is done and not yet counted.
Held == IF Idle /\ pulse.done = NoMsg THEN LiveOrders ELSE before

Followed ==
  /\ OracleIs(ref, Held) /\ Positive(Held) /\ Banded(band.base, Held)
  /\ Idle /\ pulse.done = NoMsg => ~resp.fails

OracleInv ==
  /\ ~Idle => eng.msg \in Msgs
  /\ band.base + PriceLevels <= PriceMod
  /\ ref # Diverged => Followed

\* A message under way stays until it is done.
LEMMA WorksKeep ==
  ASSUME EInv, Works
  PROVE  /\ ~Idle /\ pulse.done = NoMsg /\ band' = band
         /\ IF Idle' THEN Finish /\ pulse'.done = eng.msg ELSE eng'.msg = eng.msg
<1>1. eng.state # "idle"
  BY Busy
<1>2. pulse.done = NoMsg
  BY <1>1 DEF EInv, EngInv, Registers
<1>3. eng \in EngType
  BY DEF EInv, EngInv, TypedEng, EngType
<1>4. CASE AddTbl
  BY <1>1, <1>2, <1>3, <1>4 DEF AddTbl, Requests, KeepsBook, EngType, Idle
<1>5. CASE AddLvl
  BY <1>1, <1>2, <1>3, <1>5 DEF AddLvl, Goes, EngType, Idle
<1>6. CASE Lk
  BY <1>1, <1>2, <1>3, <1>6 DEF Lk, Requests, KeepsBook, EngType, Idle
<1>7. CASE ModLvl
  BY <1>1, <1>2, <1>3, <1>7 DEF ModLvl, EngType, Idle
<1>8. CASE ModTbl
  BY <1>1, <1>2, <1>3, <1>8 DEF ModTbl, Requests, KeepsBook, EngType, Idle
<1>9. CASE TellEmpty
  BY <1>1, <1>2, <1>3, <1>9 DEF TellEmpty, KeepsBook, EngType, Idle
<1>10. CASE EmptyWait
  BY <1>1, <1>2, <1>3, <1>10 DEF EmptyWait, KeepsBook, EngType, Idle
<1>11. CASE RaddTbl
  BY <1>1, <1>2, <1>3, <1>11 DEF RaddTbl, Requests, KeepsBook, EngType, Idle
<1>12. CASE RaddLvl
  BY <1>1, <1>2, <1>3, <1>12 DEF RaddLvl, Goes, EngType, Idle
<1>13. CASE Finish
  BY <1>1, <1>2, <1>13, IdleEngFields, PulseFields DEF Finish, KeepsBook, Idle
<1> QED
  BY <1>4, <1>5, <1>6, <1>7, <1>8, <1>9, <1>10, <1>11, <1>12, <1>13 DEF Works

LEMMA IdleKeeps ==
  ASSUME EInv, Idle, TInv', TableMoves(pulse.cmd)
  PROVE  LiveOrders' = LiveOrders /\ resp'.fails = resp.fails
BY NoRequestUnlessAsking, Calm DEF Idle, Requesting

\* A message taken: the band is set by the first Add only, when there is no order.
LEMMA TakenIs ==
  ASSUME EInv, NEW m \in Msgs, Takes(m)
  PROVE  /\ Idle /\ ~Idle' /\ eng'.msg = m /\ eng'.state \in {"add_tbl", "lk", "finish"}
         /\ eng'.state = "finish" <=>
              \/ m.type \in {"trade", "system"}
              \/ m.type = "add" /\ ~InWindow(BaseEff(m.price), m.price)
         /\ eng'.state = "add_tbl" => m.type = "add"
         /\ pulse'.bt = NoRequest /\ pulse'.done = NoMsg
         /\ pulse'.trade = IF m.type = "trade" THEN <<m.price, m.shares>> ELSE NoTrade
         /\ band' = band \/ (m.type = "add" /\ band'.base = BaseEff(m.price))
<1>1. CASE TakeAdd(m)
  <2>1. /\ eng.state = "idle" /\ m.type = "add" /\ pulse' = NoPulse
        /\ eng' = [IdleEng EXCEPT !.msg = m, !.state = IF InWindow(BaseEff(m.price), m.price)
                                                      THEN "add_tbl" ELSE "finish"]
        /\ band' = IF InWindow(BaseEff(m.price), m.price)
                   THEN [valid |-> TRUE, base |-> BaseEff(m.price)] ELSE band
    BY <1>1 DEF TakeAdd, Quietly
  <2> QED
    BY <2>1 DEF IdleEng, NoPulse, Idle
<1>2. CASE TakeModify(m)
  <2>1. /\ eng.state = "idle" /\ m.type \in Modifies /\ pulse' = NoPulse
        /\ eng' = [IdleEng EXCEPT !.msg = m, !.state = "lk"] /\ band' = band
    BY <1>2 DEF TakeModify, Quietly, KeepsBook, Modifies
  <2>2. m.type \notin {"add", "trade", "system"}
    BY <2>1 DEF Modifies
  <2> QED
    BY <2>1, <2>2 DEF IdleEng, NoPulse, Idle
<1>3. CASE TakeOther(m)
  <2>1. /\ eng.state = "idle" /\ m.type \in {"trade", "system"}
        /\ pulse' = IF m.type = "trade"
                    THEN [NoPulse EXCEPT !.trade = <<m.price, m.shares>>] ELSE NoPulse
        /\ eng' = [IdleEng EXCEPT !.msg = m, !.state = "finish"] /\ band' = band
    BY <1>3 DEF TakeOther, KeepsBook
  <2> QED
    BY <2>1 DEF IdleEng, NoPulse, Idle
<1> QED
  BY <1>1, <1>2, <1>3 DEF Takes

LEMMA BandStays ==
  ASSUME EInv, BandsInside, band.base + PriceLevels <= PriceMod, NEW m \in Msgs, Takes(m)
  PROVE  /\ band'.base + PriceLevels <= PriceMod
         /\ band'.base = band.base \/ DOMAIN LiveOrders = {}
<1>1. CASE band' = band
  BY <1>1
<1>2. CASE m.type = "add" /\ band'.base = BaseEff(m.price)
  <2>1. m.price \in Prices
    BY <1>2, MsgFields
  <2>2. CASE band.valid \/ ~AutoInit
    BY <1>2, <2>2 DEF BaseEff
  <2>3. CASE ~band.valid /\ AutoInit
    <3>1. band'.base = IF m.price > BandHalf THEN m.price - BandHalf ELSE 0
      BY <1>2, <2>3 DEF BaseEff
    <3>2. DOMAIN LiveOrders = {}
      BY <2>3 DEF EInv, EngInv, Registers, LiveOrders
    <3> QED
      BY <2>1, <2>3, <3>1, <3>2 DEF BandsInside
  <2> QED
    BY <2>2, <2>3
<1> QED
  BY <1>1, <1>2, TakenIs

\* The oracle is given the message that is done, if any, and then has the orders of
\* the reference table.
LEMMA OracleCounts ==
  ASSUME 0 \notin AddQtys, EInv, OracleInv, CountClock, Idle, ref' # Diverged
  PROVE  /\ ref # Diverged /\ ~resp.fails
         /\ OracleIs(ref', LiveOrders) /\ Positive(LiveOrders)
         /\ Banded(band.base, LiveOrders)
         /\ pulse.done # NoMsg => counted'.trades = TradesOf(before, pulse.done)
<1>1. PICK m : m = pulse.done
  OBVIOUS
<1>2. CASE m = NoMsg
  <2>1. ref' = ref
    BY <1>1, <1>2 DEF CountClock
  <2>2. Followed /\ Held = LiveOrders /\ ref # Diverged
    BY <1>1, <1>2, <2>1 DEF OracleInv, Held
  <2> QED
    BY <1>1, <1>2, <2>1, <2>2 DEF Followed
<1>3. CASE m # NoMsg
  <2>1. /\ ref # Diverged /\ Modelled(m) /\ ref' = Ref!RefApply(ref, m)
        /\ counted'.trades = Ref!RefTrades(ref, m)
    BY <1>1, <1>3 DEF CountClock
  <2>2. Followed /\ Held = before
    BY <1>1, <1>3, <2>1 DEF OracleInv, Held
  <2>3. OracleIs(ref, before) /\ Positive(before) /\ Banded(band.base, before)
    BY <2>2 DEF Followed
  <2>4. ref.orders = before
    BY <2>3 DEF OracleIs, Shaped
  <2>5. ~resp.fails /\ Fits(band.base, before, m)
    BY <2>1, <2>4 DEF Modelled, Fits
  <2>6. m \in Msgs /\ before \in Tables /\ band.base \in Nat
    BY <1>1, <1>3, EngineConstants DEF EInv, EngInv, TypedEng
  <2>7. LiveOrders = Result(band.base, before, m)
    BY <1>1, <1>3, <2>5 DEF EInv, EngInv, Progress, Idle
  <2>8. band.base + PriceLevels <= PriceMod
    BY DEF OracleInv
  <2>9. /\ OracleIs(Ref!RefApply(ref, m), Result(band.base, before, m))
        /\ Positive(Result(band.base, before, m))
        /\ Banded(band.base, Result(band.base, before, m))
    BY <2>3, <2>5, <2>6, <2>8, MessageApplies
  <2>10. counted'.trades = TradesOf(before, m)
    BY <2>1, <2>4, TradesSame
  <2> QED
    BY <1>1, <2>1, <2>5, <2>7, <2>9, <2>10
<1> QED
  BY <1>2, <1>3

LEMMA OracleStep ==
  ASSUME 0 \notin AddQtys, BandsInside, EInv, OracleInv, [BookNext]_bookVars
  PROVE  OracleInv'
<1>1. ASSUME NEW m \in Msgs \cup {NoMsg}, Cycle(m) PROVE OracleInv'
  <2>1. TInv' /\ TableMoves(pulse.cmd) /\ CountClock
    BY <1>1, BookTypes, TableStep DEF Cycle, EngineClock, Beneath
  <2>2. CASE m = NoMsg /\ Works
    <3>1. /\ ~Idle /\ pulse.done = NoMsg /\ band' = band
          /\ IF Idle' THEN Finish /\ pulse'.done = eng.msg ELSE eng'.msg = eng.msg
      BY <2>2, WorksKeep
    <3>2. before' = before
      BY <1>1, <2>2, <3>1 DEF Cycle
    <3>3. ref' = ref
      BY <2>1, <3>1 DEF CountClock
    <3>4. eng.msg \in Msgs /\ eng.msg # NoMsg
      BY <3>1, MsgFields DEF OracleInv
    <3>5. Held = before /\ Held' = before /\ ~(Idle' /\ pulse'.done = NoMsg)
      BY <3>1, <3>2, <3>4 DEF Held
    <3>6. ASSUME ref' # Diverged PROVE Followed'
      <4>1. Followed
        BY <3>3, <3>6 DEF OracleInv
      <4>2. OracleIs(ref', Held') /\ Positive(Held') /\ Banded(band'.base, Held')
        BY <3>1, <3>3, <3>5, <4>1 DEF Followed
      <4> QED
        BY <3>5, <4>2 DEF Followed
    <3> QED
      BY <3>1, <3>4, <3>6 DEF OracleInv
  <2>3. CASE m = NoMsg /\ Rest
    <3>1. /\ Idle /\ Idle' /\ pulse'.done = NoMsg /\ band' = band
      BY <2>3, IdleEngFields, PulseFields DEF Rest, Quietly, KeepsBook, Idle
    <3>2. LiveOrders' = LiveOrders /\ resp'.fails = resp.fails /\ Held' = LiveOrders'
      BY <2>1, <3>1, IdleKeeps DEF Held
    <3>3. ASSUME ref' # Diverged PROVE Followed'
      <4>1. /\ ~resp.fails /\ OracleIs(ref', LiveOrders) /\ Positive(LiveOrders)
            /\ Banded(band.base, LiveOrders)
        BY <2>1, <3>1, <3>3, OracleCounts
      <4>2. /\ OracleIs(ref', Held') /\ Positive(Held') /\ Banded(band'.base, Held')
        BY <3>1, <3>2, <4>1
      <4> QED
        BY <3>2, <4>1, <4>2 DEF Followed
    <3> QED
      BY <3>1, <3>3 DEF OracleInv
  <2>4. CASE m # NoMsg
    <3>1. m \in Msgs /\ Takes(m) /\ before' = LiveOrders
      BY <1>1, <2>4 DEF Cycle, EngineClock
    <3>2. Idle /\ ~Idle' /\ eng'.msg = m
      BY <3>1, TakenIs
    <3>3. /\ band'.base + PriceLevels <= PriceMod
          /\ band'.base = band.base \/ DOMAIN LiveOrders = {}
      BY <3>1, BandStays DEF OracleInv
    <3>4. Held' = LiveOrders
      BY <3>1, <3>2 DEF Held
    <3>5. ASSUME ref' # Diverged PROVE Followed'
      <4>1. /\ OracleIs(ref', LiveOrders) /\ Positive(LiveOrders)
            /\ Banded(band.base, LiveOrders)
        BY <2>1, <3>2, <3>5, OracleCounts
      <4>2. Banded(band'.base, LiveOrders)
        BY <3>3, <4>1 DEF Banded
      <4>3. /\ OracleIs(ref', Held') /\ Positive(Held') /\ Banded(band'.base, Held')
        BY <3>4, <4>1, <4>2
      <4> QED
        BY <3>2, <4>3 DEF Followed
    <3> QED
      BY <3>1, <3>2, <3>3, <3>5 DEF OracleInv
  <2> QED
    BY <1>1, <2>2, <2>3, <2>4 DEF Cycle, EngineClock
<1>2. ASSUME NEW base \in CfgBases, Configure(base) PROVE OracleInv'
  <2>1. TInv' /\ TableMoves(pulse.cmd) /\ CountClock
    BY <1>2, BookTypes, TableStep DEF Configure, BandConfig, Beneath
  <2>2. /\ Idle /\ pulse = NoPulse /\ ~band.valid /\ eng' = eng /\ pulse' = pulse
        /\ band'.base = base
    BY <1>2 DEF Configure, BandConfig
  <2>3. Idle' /\ pulse.done = NoMsg /\ pulse'.done = NoMsg
    BY <2>2, PulseFields DEF Idle
  <2>4. LiveOrders' = LiveOrders /\ resp'.fails = resp.fails /\ Held' = LiveOrders'
    BY <2>1, <2>2, <2>3, IdleKeeps DEF Held
  <2>5. DOMAIN LiveOrders = {}
    BY <2>2 DEF EInv, EngInv, Registers, LiveOrders
  <2>6. ASSUME ref' # Diverged PROVE Followed'
    <3>1. ~resp.fails /\ OracleIs(ref', LiveOrders) /\ Positive(LiveOrders)
      BY <2>1, <2>2, <2>6, OracleCounts
    <3>2. Banded(band'.base, LiveOrders)
      BY <2>5 DEF Banded
    <3>3. /\ OracleIs(ref', Held') /\ Positive(Held') /\ Banded(band'.base, Held')
      BY <2>4, <3>1, <3>2
    <3> QED
      BY <2>4, <3>1, <3>3 DEF Followed
  <2> QED
    BY <2>2, <2>3, <2>6 DEF OracleInv, BandsInside
<1>3. CASE UNCHANGED bookVars
  <2>1. UNCHANGED <<mem, resp, eng, pulse, band, ref, before>>
    BY <1>3 DEF bookVars, engineVars, tableVars
  <2>2. LiveOrders' = LiveOrders
    BY <2>1, TableSame
  <2>3. Idle' = Idle /\ Held' = Held
    BY <2>1, <2>2 DEF Held, Idle
  <2> QED
    BY <2>1, <2>3 DEF OracleInv, Followed
<1> QED
  BY <1>1, <1>2, <1>3 DEF BookNext, Ticks

LEMMA OracleStarts ==
  ASSUME BookInit
  PROVE  OracleInv
<1>1. /\ eng = IdleEng /\ pulse = NoPulse /\ band = [valid |-> FALSE, base |-> 0]
      /\ ref = Ref!EmptyRef /\ ~resp.fails
  BY DEF BookInit, EngineInit, TableInit
<1>2. Idle /\ pulse.done = NoMsg /\ Held = LiveOrders
  BY <1>1, IdleEngFields, PulseFields DEF Held, Idle
<1>3. LiveRefs = {}
  <2>1. \A i \in Slots : mem[i] = Empty
    BY DEF BookInit, EngineInit, TableInit
  <2> QED
    BY <2>1, EntryFields DEF LiveRefs, Orders
<1>4. PICK os : os = LiveOrders
  OBVIOUS
<1>5. DOMAIN os = {} /\ os = [r \in {} |-> 0]
  BY <1>3, <1>4 DEF LiveOrders
<1>6. PICK lv, tt : /\ lv = [bid |-> [r \in {} |-> 0], ask |-> [r \in {} |-> 0]]
                    /\ tt = [bid |-> 0, ask |-> 0]
  OBVIOUS
<1>7. ref = [orders |-> os, level |-> lv, tot |-> tt]
  BY <1>1, <1>5, <1>6 DEF Ref!EmptyRef, Ref!NoKeys
<1>8. /\ lv = [side \in Sides |-> lv[side]] /\ tt = [side \in Sides |-> tt[side]]
      /\ \A side \in Sides : DOMAIN lv[side] = {} /\ tt[side] = 0
  BY <1>6 DEF Sides
<1>9. Shaped(ref, os)
  BY <1>7, <1>8 DEF Shaped
<1>10. \A side \in Sides : On(os, side) = {} /\ \A p : PriceAt(os, side, p) = {}
  BY <1>5 DEF On, PriceAt
<1>11. OracleIs(ref, os)
  <2>1. ref.level = lv /\ ref.tot = tt
    BY <1>7
  <2>2. \A side \in Sides : Total(os, On(os, side)) = 0
    BY <1>10, TotalEmpty
  <2> QED
    BY <1>8, <1>9, <1>10, <2>1, <2>2 DEF OracleIs
<1>12. Positive(os) /\ Banded(band.base, os)
  BY <1>5 DEF Positive, Banded
<1>13. Followed
  BY <1>1, <1>2, <1>4, <1>11, <1>12 DEF Followed
<1> QED
  BY <1>1, <1>2, <1>13, EngineConstants DEF OracleInv

-----------------------------------------------------------------------------
(* The trades: in the sums, in the product register, on the port. *)

Trades == (Int \cup {Min(Prices), Max(Prices)}) \X Int

One(t) == IF t = NoTrade THEN <<>> ELSE <<t>>
Summed == IF counted.now THEN <<>> ELSE since
Pending == Summed \o One(tv) \o One(pulse.trade)

\* The trades of the message under way, once it has taken its shares.
Due ==
  IF Idle THEN IF pulse.done = NoMsg THEN <<>> ELSE TradesOf(before, pulse.done)
  ELSE IF eng.state \in Removing \cup {"finish"} THEN TradesOf(before, eng.msg)
  ELSE <<>>

TradeInv ==
  /\ since \in Seq(Trades) /\ tv \in Trades \cup {NoTrade}
  /\ pulse.trade \in Trades \cup {NoTrade}
  /\ Idle => pulse.trade = NoTrade
  /\ Pending = Due

LEMMA OneIs ==
  ASSUME NEW t \in Trades \cup {NoTrade}
  PROVE  One(t) \in Seq(Trades)
BY DEF One

LEMMA PendingMoves ==
  ASSUME TradeInv, StatsClock, CountClock, pulse'.trade \in Trades \cup {NoTrade}
  PROVE  /\ since' \in Seq(Trades) /\ tv' \in Trades \cup {NoTrade}
         /\ pulse.done = NoMsg => Pending' = Due \o One(pulse'.trade)
         /\ pulse.done # NoMsg /\ pulse.trade = NoTrade =>
              Pending' = One(pulse'.trade) /\ since' = Due
<1>1. PICK a, b, c, d :
        a = Summed /\ b = One(tv) /\ c = One(pulse.trade) /\ d = One(pulse'.trade)
  OBVIOUS
<1>2. Summed \in Seq(Trades)
  BY DEF TradeInv, Summed
<1>3. a \in Seq(Trades) /\ b \in Seq(Trades) /\ c \in Seq(Trades) /\ d \in Seq(Trades)
  BY <1>1, <1>2, OneIs DEF TradeInv
<1>4. since' = a \o b /\ tv' = pulse.trade /\ One(tv') = c
  BY <1>1 DEF StatsClock, Summed, One
<1>5. since' \in Seq(Trades)
  BY <1>3, <1>4, ConcatProperties
<1>6. counted'.now <=> pulse.done # NoMsg
  BY DEF CountClock
<1>7. Due = (a \o b) \o c
  BY <1>1 DEF TradeInv, Pending
<1>8. CASE pulse.done = NoMsg
  <2>1. Summed' = a \o b
    BY <1>4, <1>6, <1>8 DEF Summed
  <2>2. Pending' = ((a \o b) \o c) \o d
    BY <1>1, <1>4, <2>1 DEF Pending
  <2> QED
    BY <1>1, <1>4, <1>5, <1>7, <1>8, <2>2 DEF TradeInv
<1>9. CASE pulse.done # NoMsg
  <2>1. Summed' = <<>>
    BY <1>6, <1>9 DEF Summed
  <2>2. Pending' = (<<>> \o c) \o d
    BY <1>1, <1>4, <2>1 DEF Pending
  <2>3. ASSUME pulse.trade = NoTrade PROVE Pending' = d /\ since' = Due
    <3>1. c = <<>>
      BY <1>1, <2>3 DEF One
    <3>2. <<>> \o c = c /\ c \o d = d
      BY <1>3, <3>1, ConcatEmptySeq
    <3>3. (a \o b) \o c = a \o b
      BY <1>4, <1>5, <3>1, ConcatEmptySeq
    <3> QED
      BY <1>4, <1>7, <2>2, <3>2, <3>3
  <2> QED
    BY <1>1, <1>4, <1>5, <1>9, <2>3 DEF TradeInv
<1> QED
  BY <1>8, <1>9

LEMMA TradesOfKinds ==
  ASSUME NEW os, NEW m
  PROVE  /\ m.type \in {"add", "system"} => TradesOf(os, m) = <<>>
         /\ m.type = "trade" => TradesOf(os, m) = << <<m.price, m.shares>> >>
         /\ m.type \in Modifies /\ m.ref \notin DOMAIN os => TradesOf(os, m) = <<>>
<1>1. PICK c : c = [orders |-> os] /\ c.orders = os
  <2>1. [orders |-> os].orders = os
    OBVIOUS
  <2> QED
    BY <2>1
<1>2. TradesOf(os, m) = Ref!RefTrades(c, m)
  BY <1>1 DEF TradesOf
<1> QED
  BY <1>1, <1>2 DEF Ref!RefTrades, Modifies

\* What an execution prints is what the oracle makes of it.
LEMMA TradeOfIs ==
  ASSUME EInv, eng.msg.type \in Modifies, eng.msg.ref \in DOMAIN before,
         eng.rest = before[eng.msg.ref], eng.rest \in Ords
  PROVE  /\ TradeOf \in Trades \cup {NoTrade}
         /\ One(TradeOf) = TradesOf(before, eng.msg)
<1>1. PICK m \in Msgs : m = eng.msg
  BY EngFields DEF EInv, EngInv
<1>2. PICK c : c = [orders |-> before] /\ c.orders = before
  <2>1. [orders |-> before].orders = before
    OBVIOUS
  <2> QED
    BY <2>1
<1>3. Ref!Takes(c, m) = Amount
  BY <1>1, <1>2 DEF Ref!Takes, Amount
<1>4. Amount \in Int /\ eng.rest.price \in Int
  <2>1. TypedEng
    BY DEF EInv, EngInv
  <2> QED
    BY <2>1, AmountIs, OrdFields, EngineConstants
<1>5. TradesOf(before, eng.msg) = Ref!RefTrades(c, m)
  BY <1>1, <1>2 DEF TradesOf
<1>6. CASE m.type = "exec"
  <2>1. PICK t : t = <<eng.rest.price, Amount>>
    OBVIOUS
  <2>2. TradeOf = t
    BY <1>1, <1>6, <2>1 DEF TradeOf
  <2>3. Ref!RefTrades(c, m) = <<t>>
    BY <1>1, <1>2, <1>3, <1>6, <2>1 DEF Ref!RefTrades
  <2>4. t \in Trades /\ t # NoTrade
    BY <1>4, <2>1 DEF Trades, NoTrade
  <2> QED
    BY <1>5, <2>2, <2>3, <2>4 DEF One
<1>7. CASE m.type = "exec_pr" /\ m.printable
  <2>1. PICK t : t = <<m.price, Amount>>
    OBVIOUS
  <2>2. TradeOf = t
    BY <1>1, <1>7, <2>1 DEF TradeOf
  <2>3. Ref!RefTrades(c, m) = <<t>>
    BY <1>1, <1>2, <1>3, <1>7, <2>1 DEF Ref!RefTrades
  <2>4. m.price = Max(Prices)
    BY <1>7 DEF Msgs
  <2>5. t \in Trades /\ t # NoTrade
    BY <1>4, <2>1, <2>4 DEF Trades, NoTrade
  <2> QED
    BY <1>5, <2>2, <2>3, <2>5 DEF One
<1>8. CASE m.type # "exec" /\ ~(m.type = "exec_pr" /\ m.printable)
  <2>1. TradeOf = NoTrade
    BY <1>1, <1>8 DEF TradeOf
  <2>2. m.type # "trade"
    BY <1>1 DEF Modifies
  <2>3. Ref!RefTrades(c, m) = <<>>
    BY <1>8, <2>2 DEF Ref!RefTrades
  <2> QED
    BY <1>5, <2>1, <2>3 DEF One
<1> QED
  BY <1>6, <1>7, <1>8

\* No pulse but that of ModLvl brings a trade.
LEMMA PulseTrades ==
  /\ NoPulse.trade = NoTrade
  /\ \A x : /\ [NoPulse EXCEPT !.cmd = x].trade = NoTrade
            /\ [NoPulse EXCEPT !.bt = x].trade = NoTrade
            /\ [NoPulse EXCEPT !.done = x].trade = NoTrade
            /\ [NoPulse EXCEPT !.trade = x].trade = x
BY DEF NoPulse

\* What is due while a message is under way.
LEMMA DueIs ==
  ASSUME eng.state # "idle"
  PROVE  Due = IF eng.state \in Removing \cup {"finish"} THEN TradesOf(before, eng.msg)
               ELSE <<>>
BY DEF Due, Idle

\* A removal that goes on owes the trade it owed.
LEMMA StillDue ==
  ASSUME eng.state \in Removing, eng'.state \in Removing \cup {"finish"}, eng'.msg = eng.msg,
         before' = before
  PROVE  Due' = Due
BY DEF Due, Idle, Removing

LEMMA WorkTrades ==
  ASSUME EInv, OracleInv, Works, before' = before
  PROVE  \/ pulse'.trade = NoTrade /\ Due' = Due
         \/ /\ pulse'.trade \in Trades \cup {NoTrade} /\ Due = <<>>
            /\ Due' = One(pulse'.trade)
<1>1. /\ ~Idle /\ IF Idle' THEN Finish /\ pulse'.done = eng.msg ELSE eng'.msg = eng.msg
  BY WorksKeep
<1>2. eng \in EngType /\ eng.msg \in Msgs /\ eng.state # "idle"
  BY <1>1 DEF EInv, EngInv, TypedEng, EngType, OracleInv, Idle
<1>3. ASSUME Finish PROVE pulse'.trade = NoTrade /\ Due' = Due
  <2>1. /\ eng.state = "finish" /\ eng' = IdleEng /\ pulse' = [NoPulse EXCEPT !.done = eng.msg]
    BY <1>3 DEF Finish
  <2>2. Idle' /\ pulse'.done = eng.msg /\ eng.msg # NoMsg
    BY <1>2, <2>1, IdleEngFields, PulseFields, MsgFields DEF Idle
  <2>3. Due = TradesOf(before, eng.msg)
    BY <1>2, <2>1, DueIs
  <2>4. Due' = TradesOf(before, eng.msg)
    BY <2>2 DEF Due
  <2> QED
    BY <2>1, <2>3, <2>4, PulseTrades
<1>4. ASSUME AddTbl \/ AddLvl PROVE pulse'.trade = NoTrade /\ Due' = Due
  <2>1. /\ eng.state \in {"add_tbl", "add_lvl"} /\ pulse'.trade = NoTrade
        /\ eng'.state \in {"add_tbl", "add_lvl", "finish"}
    <3>1. CASE AddTbl
      BY <1>2, <3>1, PulseTrades DEF AddTbl, Requests, EngType
    <3>2. CASE AddLvl
      BY <1>2, <3>2, PulseTrades DEF AddLvl, Goes, EngType
    <3> QED
      BY <1>4, <3>1, <3>2
  <2>2. eng.msg.type = "add" /\ eng'.msg = eng.msg
    BY <1>1, <2>1 DEF EInv, EngInv, Registers, Idle
  <2>3. TradesOf(before, eng.msg) = <<>>
    BY <2>2, TradesOfKinds
  <2>4. Due = <<>> /\ Due' = <<>>
    BY <2>1, <2>2, <2>3 DEF Due, Idle, Removing
  <2> QED
    BY <2>1, <2>4
<1>5. ASSUME Lk PROVE pulse'.trade = NoTrade /\ Due' = Due
  <2>1. /\ eng.state = "lk" /\ pulse'.trade = NoTrade
        /\ eng'.state \in {"lk", "mod_lvl", "finish"}
        /\ eng'.state = "finish" => eng.req /\ resp.done /\ ~resp.found
    BY <1>2, <1>5, PulseTrades DEF Lk, Requests, EngType
  <2>2. eng.msg.type \in Modifies /\ eng'.msg = eng.msg /\ ~resp.fails
    BY <1>1, <2>1 DEF EInv, EngInv, Registers, Failing, Idle
  <2>3. eng'.state = "finish" => TradesOf(before, eng.msg) = <<>>
    <3>1. eng'.state = "finish" => eng.msg.ref \notin DOMAIN before
      BY <2>1, <2>2 DEF EInv, EngInv, Progress, Executed
    <3> QED
      BY <2>2, <3>1, TradesOfKinds
  <2>4. Due = <<>> /\ Due' = <<>>
    BY <2>1, <2>2, <2>3 DEF Due, Idle, Removing
  <2> QED
    BY <2>1, <2>4
<1>6. ASSUME ModTbl \/ TellEmpty \/ EmptyWait \/ RaddTbl \/ RaddLvl
      PROVE  pulse'.trade = NoTrade /\ Due' = Due
  <2>1. /\ eng.state \in Removing /\ pulse'.trade = NoTrade
        /\ eng'.state \in Removing \cup {"finish"}
    <3>1. CASE ModTbl
      BY <1>2, <3>1, PulseTrades DEF ModTbl, Requests, EngType, Removing
    <3>2. CASE TellEmpty
      BY <1>2, <3>2, PulseTrades DEF TellEmpty, EngType, Removing
    <3>3. CASE EmptyWait
      BY <1>2, <3>3, PulseTrades DEF EmptyWait, Quietly, EngType, Removing
    <3>4. CASE RaddTbl
      BY <1>2, <3>4, PulseTrades DEF RaddTbl, Requests, EngType, Removing
    <3>5. CASE RaddLvl
      BY <1>2, <3>5, PulseTrades DEF RaddLvl, Goes, EngType, Removing
    <3> QED
      BY <1>6, <3>1, <3>2, <3>3, <3>4, <3>5
  <2>2. eng'.msg = eng.msg
    BY <1>1, <2>1 DEF Removing, Idle
  <2> QED
    BY <2>1, <2>2, StillDue
<1>7. ASSUME ModLvl
      PROVE  /\ pulse'.trade \in Trades \cup {NoTrade} /\ Due = <<>>
             /\ Due' = One(pulse'.trade)
  <2>1. /\ eng.state = "mod_lvl" /\ eng'.state = "mod_tbl" /\ pulse'.trade = TradeOf
    BY <1>2, <1>7, PulseTrades DEF ModLvl, EngType
  <2>2. /\ eng.msg.type \in Modifies /\ eng'.msg = eng.msg /\ ~resp.fails
        /\ eng.rest # NoOrder /\ eng.rest \in Ords
    BY <1>1, <1>2, <2>1 DEF EInv, EngInv, Registers, Failing, Idle, EngType
  <2>3. eng.msg.ref \in DOMAIN before /\ eng.rest = before[eng.msg.ref]
    BY <2>1, <2>2 DEF EInv, EngInv, Progress
  <2>4. TradeOf \in Trades \cup {NoTrade} /\ One(TradeOf) = TradesOf(before, eng.msg)
    BY <2>2, <2>3, TradeOfIs
  <2>5. Due = <<>> /\ Due' = TradesOf(before, eng.msg)
    BY <2>1, <2>2 DEF Due, Idle, Removing
  <2> QED
    BY <2>1, <2>4, <2>5
<1> QED
  BY <1>3, <1>4, <1>5, <1>6, <1>7 DEF Works

\* A message just taken owes what TakeOther has already printed.
LEMMA TakenTrades ==
  ASSUME EInv, NEW m \in Msgs, Takes(m)
  PROVE  /\ pulse'.trade \in Trades \cup {NoTrade} /\ Due' = One(pulse'.trade)
<1>1. /\ ~Idle' /\ eng'.msg = m /\ eng'.state \in {"add_tbl", "lk", "finish"}
      /\ eng'.state = "finish" => m.type \in {"trade", "system", "add"}
      /\ m.type = "trade" => eng'.state = "finish"
      /\ pulse'.trade = IF m.type = "trade" THEN <<m.price, m.shares>> ELSE NoTrade
  BY TakenIs
<1>2. CASE m.type = "trade"
  <2>1. PICK t : t = <<m.price, m.shares>>
    OBVIOUS
  <2>2. m.price = Min(Prices) /\ m.shares = 1
    BY <1>2 DEF Msgs
  <2>3. t \in Trades /\ t # NoTrade
    BY <2>1, <2>2 DEF Trades, NoTrade
  <2>4. PICK os : os = before'
    OBVIOUS
  <2>5. Due' = TradesOf(os, m)
    BY <1>1, <1>2, <2>4 DEF Due
  <2>6. TradesOf(os, m) = <<t>>
    BY <1>2, <2>1, TradesOfKinds
  <2>7. pulse'.trade = t
    BY <1>1, <1>2, <2>1
  <2> QED
    BY <2>3, <2>5, <2>6, <2>7 DEF One
<1>3. CASE m.type # "trade"
  <2>1. pulse'.trade = NoTrade /\ One(pulse'.trade) = <<>>
    BY <1>1, <1>3 DEF One
  <2>2. PICK os : os = before'
    OBVIOUS
  <2>3. CASE eng'.state = "finish"
    <3>1. TradesOf(os, m) = <<>>
      BY <1>1, <1>3, <2>3, TradesOfKinds
    <3>2. Due' = TradesOf(os, m)
      BY <1>1, <2>2, <2>3 DEF Due
    <3> QED
      BY <2>1, <3>1, <3>2
  <2>4. CASE eng'.state # "finish"
    <3>1. Due' = <<>>
      BY <1>1, <2>4 DEF Due, Removing
    <3> QED
      BY <2>1, <3>1
  <2> QED
    BY <2>3, <2>4
<1> QED
  BY <1>2, <1>3

LEMMA TradeStep ==
  ASSUME EInv, OracleInv, TradeInv, [BookNext]_bookVars
  PROVE  TradeInv'
<1>1. Due \in Seq(Trades)
  <2>1. PICK a, b, c : a = Summed /\ b = One(tv) /\ c = One(pulse.trade)
    OBVIOUS
  <2>2. Summed \in Seq(Trades)
    BY DEF TradeInv, Summed
  <2>3. a \in Seq(Trades) /\ b \in Seq(Trades) /\ c \in Seq(Trades)
    BY <2>1, <2>2, OneIs DEF TradeInv
  <2>4. Due = (a \o b) \o c
    BY <2>1 DEF TradeInv, Pending
  <2>5. a \o b \in Seq(Trades)
    BY <2>3, ConcatProperties
  <2> QED
    BY <2>3, <2>4, <2>5, ConcatProperties
<1>2. ASSUME Idle, StatsClock, CountClock, pulse'.trade \in Trades \cup {NoTrade}
      PROVE  /\ since' \in Seq(Trades) /\ tv' \in Trades \cup {NoTrade}
             /\ Pending' = One(pulse'.trade)
  <2>1. pulse.trade = NoTrade
    BY <1>2 DEF TradeInv
  <2>2. CASE pulse.done # NoMsg
    BY <1>2, <2>1, <2>2, PendingMoves
  <2>3. CASE pulse.done = NoMsg
    <3>1. Due = <<>>
      BY <1>2, <2>3 DEF Due
    <3>2. PICK d \in Seq(Trades) : d = One(pulse'.trade)
      BY <1>2, OneIs
    <3>3. Pending' = <<>> \o d
      BY <1>2, <2>3, <3>1, <3>2, PendingMoves
    <3>4. Pending' = d
      BY <3>2, <3>3, ConcatEmptySeq
    <3> QED
      BY <1>2, <2>3, <3>2, <3>4, PendingMoves
  <2> QED
    BY <2>2, <2>3
<1>3. ASSUME NEW m \in Msgs \cup {NoMsg}, Cycle(m) PROVE TradeInv'
  <2>1. StatsClock /\ CountClock
    BY <1>3 DEF Cycle
  <2>2. CASE m = NoMsg /\ Works
    <3>1. ~Idle /\ pulse.done = NoMsg
      BY <2>2, WorksKeep
    <3>2. before' = before
      BY <1>3, <2>2, <3>1 DEF Cycle
    <3>3. Idle' => pulse'.trade = NoTrade
      <4>1. Idle' => Finish
        BY <2>2, WorksKeep
      <4> QED
        BY <4>1, PulseTrades DEF Finish
    <3>4. CASE pulse'.trade = NoTrade /\ Due' = Due
      <4>1. One(pulse'.trade) = <<>>
        BY <3>4 DEF One
      <4>2. /\ since' \in Seq(Trades) /\ tv' \in Trades \cup {NoTrade}
            /\ Pending' = Due \o One(pulse'.trade)
        BY <2>1, <3>1, <3>4, PendingMoves
      <4>3. Pending' = Due \o <<>>
        BY <4>1, <4>2
      <4>4. Pending' = Due'
        BY <1>1, <3>4, <4>3, ConcatEmptySeq
      <4> QED
        BY <3>4, <4>2, <4>4 DEF TradeInv
    <3>5. CASE /\ pulse'.trade \in Trades \cup {NoTrade} /\ Due = <<>>
               /\ Due' = One(pulse'.trade)
      <4>1. /\ since' \in Seq(Trades) /\ tv' \in Trades \cup {NoTrade}
            /\ Pending' = Due \o One(pulse'.trade)
        BY <2>1, <3>1, <3>5, PendingMoves
      <4>2. PICK d \in Seq(Trades) : d = One(pulse'.trade)
        BY <3>5, OneIs
      <4>3. Pending' = <<>> \o d
        BY <3>5, <4>1, <4>2
      <4>4. Pending' = Due'
        BY <3>5, <4>2, <4>3, ConcatEmptySeq
      <4> QED
        BY <3>3, <3>5, <4>1, <4>4 DEF TradeInv
    <3> QED
      BY <2>2, <3>2, <3>4, <3>5, WorkTrades
  <2>3. CASE m = NoMsg /\ Rest
    <3>1. /\ Idle /\ Idle' /\ pulse'.done = NoMsg /\ pulse'.trade = NoTrade
      BY <2>3, IdleEngFields, PulseFields, PulseTrades DEF Rest, Quietly, Idle
    <3>2. /\ since' \in Seq(Trades) /\ tv' \in Trades \cup {NoTrade} /\ Pending' = One(pulse'.trade)
      BY <1>2, <2>1, <3>1
    <3>3. Due' = <<>> /\ One(pulse'.trade) = <<>>
      BY <3>1 DEF Due, One
    <3> QED
      BY <3>1, <3>2, <3>3 DEF TradeInv
  <2>4. CASE m # NoMsg
    <3>1. m \in Msgs /\ Takes(m)
      BY <1>3, <2>4 DEF Cycle, EngineClock
    <3>2. Idle /\ ~Idle'
      BY <3>1, TakenIs
    <3>3. pulse'.trade \in Trades \cup {NoTrade} /\ Due' = One(pulse'.trade)
      BY <3>1, TakenTrades
    <3>4. /\ since' \in Seq(Trades) /\ tv' \in Trades \cup {NoTrade} /\ Pending' = One(pulse'.trade)
      BY <1>2, <2>1, <3>2, <3>3
    <3> QED
      BY <3>2, <3>3, <3>4 DEF TradeInv
  <2> QED
    BY <1>3, <2>2, <2>3, <2>4 DEF Cycle, EngineClock
<1>4. ASSUME NEW base \in CfgBases, Configure(base) PROVE TradeInv'
  <2>1. StatsClock /\ CountClock /\ Idle /\ pulse = NoPulse /\ eng' = eng /\ pulse' = pulse
    BY <1>4 DEF Configure, BandConfig
  <2>2. Idle' /\ pulse'.done = NoMsg /\ pulse'.trade = NoTrade
    BY <2>1, PulseFields, PulseTrades DEF Idle
  <2>3. /\ since' \in Seq(Trades) /\ tv' \in Trades \cup {NoTrade} /\ Pending' = One(pulse'.trade)
    BY <1>2, <2>1, <2>2
  <2>4. Due' = <<>> /\ One(pulse'.trade) = <<>>
    BY <2>2 DEF Due, One
  <2> QED
    BY <2>2, <2>3, <2>4 DEF TradeInv
<1>5. CASE UNCHANGED bookVars
  BY <1>5 DEF bookVars, engineVars, tableVars, TradeInv, Pending, Summed, Due, Idle
<1> QED
  BY <1>3, <1>4, <1>5 DEF BookNext, Ticks

LEMMA TradeStarts ==
  ASSUME BookInit
  PROVE  TradeInv
<1>1. /\ Idle /\ pulse.done = NoMsg /\ pulse.trade = NoTrade /\ tv = NoTrade /\ since = <<>>
      /\ ~counted.now
  BY IdleEngFields, PulseFields, PulseTrades DEF BookInit, EngineInit, Idle
<1>2. Pending = (<<>> \o <<>>) \o <<>> /\ Due = <<>>
  BY <1>1 DEF Pending, Summed, One, Due
<1>3. <<>> \in Seq(Trades)
  BY EmptySeq
<1>4. <<>> \o <<>> = <<>>
  BY <1>3, ConcatEmptySeq
<1>5. Pending = <<>>
  BY <1>2, <1>4
<1> QED
  BY <1>1, <1>2, <1>3, <1>5 DEF TradeInv

-----------------------------------------------------------------------------
(* The cycle in which a message is counted. *)

\* The next message has at most been taken, and the trades of the one counted are
\* all in the sums.
JustCounted ==
  /\ eng.state \in {"idle", "add_tbl", "lk", "finish"}
  /\ pulse.bt = NoRequest /\ pulse.done = NoMsg
  /\ ref # Diverged => ~resp.fails /\ LiveOrders = Held /\ since = counted.trades

CountInv == counted.now => JustCounted

LEMMA SumsAreIn ==
  ASSUME 0 \notin AddQtys, EInv, OracleInv, TradeInv, StatsClock, CountClock, Idle,
         pulse.done # NoMsg, pulse'.trade \in Trades \cup {NoTrade}, ref' # Diverged
  PROVE  since' = counted'.trades /\ ~resp.fails
<1>1. counted'.trades = TradesOf(before, pulse.done) /\ ~resp.fails
  BY OracleCounts
<1>2. pulse.trade = NoTrade
  BY DEF TradeInv
<1>3. since' = Due
  BY <1>2, PendingMoves
<1>4. Due = TradesOf(before, pulse.done)
  BY DEF Due
<1> QED
  BY <1>1, <1>3, <1>4

LEMMA CountStep ==
  ASSUME 0 \notin AddQtys, EInv, OracleInv, TradeInv, CountInv, [BookNext]_bookVars
  PROVE  CountInv'
<1>1. ASSUME NEW m \in Msgs \cup {NoMsg}, Cycle(m), counted'.now PROVE JustCounted'
  <2>1. /\ TInv' /\ TableMoves(pulse.cmd) /\ StatsClock /\ CountClock
    BY <1>1, BookTypes, TableStep DEF Cycle, EngineClock, Beneath
  <2>2. pulse.done # NoMsg
    BY <1>1, <2>1 DEF CountClock
  <2>3. ~Works /\ Idle
    BY <2>2, WorksKeep DEF EInv, EngInv, Registers, Idle
  <2>4. LiveOrders' = LiveOrders /\ resp'.fails = resp.fails
    BY <2>1, <2>3, IdleKeeps
  <2>5. CASE m = NoMsg
    <3>1. Rest
      BY <1>1, <2>3, <2>5 DEF Cycle, EngineClock
    <3>2. /\ eng'.state = "idle" /\ pulse'.bt = NoRequest /\ pulse'.done = NoMsg
          /\ pulse'.trade = NoTrade
      BY <3>1, IdleEngFields, PulseFields, PulseTrades DEF Rest, Quietly
    <3>3. Held' = LiveOrders'
      BY <3>2 DEF Held, Idle
    <3>4. ref' # Diverged => since' = counted'.trades /\ ~resp.fails
      BY <2>1, <2>2, <2>3, <3>2, SumsAreIn
    <3> QED
      BY <2>4, <3>2, <3>3, <3>4 DEF JustCounted
  <2>6. CASE m # NoMsg
    <3>1. m \in Msgs /\ Takes(m) /\ before' = LiveOrders
      BY <1>1, <2>6 DEF Cycle, EngineClock
    <3>2. /\ ~Idle' /\ eng'.state \in {"add_tbl", "lk", "finish"}
          /\ pulse'.bt = NoRequest /\ pulse'.done = NoMsg
      BY <3>1, TakenIs
    <3>3. pulse'.trade \in Trades \cup {NoTrade}
      BY <3>1, TakenTrades
    <3>4. Held' = LiveOrders'
      BY <2>4, <3>1, <3>2 DEF Held
    <3>5. ref' # Diverged => since' = counted'.trades /\ ~resp.fails
      BY <2>1, <2>2, <2>3, <3>3, SumsAreIn
    <3> QED
      BY <2>4, <3>2, <3>4, <3>5 DEF JustCounted
  <2> QED
    BY <2>5, <2>6
<1>2. ASSUME NEW base \in CfgBases, Configure(base) PROVE ~counted'.now
  <2>1. pulse = NoPulse /\ CountClock
    BY <1>2 DEF Configure
  <2> QED
    BY <2>1, PulseFields DEF CountClock
<1>3. CASE UNCHANGED bookVars
  <2>1. UNCHANGED <<mem, resp, eng, pulse, since, counted, ref, before>>
    BY <1>3 DEF bookVars, engineVars, tableVars
  <2>2. LiveOrders' = LiveOrders
    BY <2>1, TableSame
  <2>3. Held' = Held
    BY <2>1, <2>2 DEF Held, Idle
  <2> QED
    BY <2>1, <2>2, <2>3 DEF CountInv, JustCounted
<1> QED
  BY <1>1, <1>2, <1>3 DEF BookNext, Ticks, CountInv

-----------------------------------------------------------------------------
(* Levels and prices. *)

\* The orders of a level are those of the one price of the band that it stands for.
LEMMA LevelIsPrice ==
  ASSUME NEW os \in Tables, NEW base \in Nat, Banded(base, os), NEW side, NEW x \in Addrs
  PROVE  /\ AddrAt(base, base + x) = x
         /\ At(base, os, side, x) = PriceAt(os, side, base + x)
<1>1. PriceLevels \in Nat /\ PriceLevels > 0 /\ x \in Nat /\ x < PriceLevels
  BY EngineConstants DEF Addrs
<1>2. \A y \in 0 .. PriceLevels - 1 : AddrAt(base, base + y) = y
  <2>1. ASSUME NEW y \in 0 .. PriceLevels - 1 PROVE AddrAt(base, base + y) = y
    <3>1. base + y - base = y /\ y % PriceLevels = y
      BY <1>1
    <3> QED
      BY <3>1 DEF AddrAt
  <2> QED
    BY <2>1
<1>3. ASSUME NEW r \in DOMAIN os
      PROVE  AddrAt(base, os[r].price) = x <=> os[r].price = base + x
  <2>1. PICK p \in base .. base + PriceLevels - 1 : p = os[r].price
    BY DEF Banded
  <2>2. PICK y \in 0 .. PriceLevels - 1 : p = base + y
    <3>1. p - base \in 0 .. PriceLevels - 1 /\ p = base + (p - base)
      BY <1>1, <2>1
    <3> QED
      BY <3>1
  <2>3. AddrAt(base, p) = y
    BY <1>2, <2>2
  <2> QED
    BY <1>1, <2>1, <2>2, <2>3
<1> QED
  BY <1>1, <1>2, <1>3 DEF At, PriceAt, Addrs

\* The levels with shares are those of the prices the oracle has a level for.
LEMMA FullIsKeys ==
  ASSUME NEW d \in Depths, NEW os \in Tables, NEW base \in Nat, Banded(base, os), Positive(os),
         DepthIs(d, base, os), NEW b, OracleIs(b, os), NEW side \in Sides
  PROVE  /\ \A x \in Addrs : x \in Full(d, side) <=> base + x \in DOMAIN b.level[side]
         /\ \A p \in DOMAIN b.level[side] : \E x \in Full(d, side) : p = base + x
<1>1. PriceLevels \in Nat /\ PriceLevels > 0
  BY EngineConstants
<1>2. ASSUME NEW x \in Addrs
      PROVE  x \in Full(d, side) <=> base + x \in DOMAIN b.level[side]
  <2>1. PICK rs : rs = PriceAt(os, side, base + x)
    OBVIOUS
  <2>2. d[side].level[x].shares = Total(os, At(base, os, side, x))
    BY DEF DepthIs
  <2>3. d[side].level[x].shares = Total(os, rs)
    BY <2>1, <2>2, LevelIsPrice
  <2>4. IsFiniteSet(rs) /\ rs \subseteq DOMAIN os
    BY <2>1, PricesFinite
  <2>5. Total(os, rs) = 0 <=> rs = {}
    BY <2>4, NoShares
  <2>6. base + x \in DOMAIN b.level[side] <=> rs # {}
    BY <2>1 DEF OracleIs
  <2> QED
    BY <2>3, <2>5, <2>6 DEF Full
<1>3. ASSUME NEW p \in DOMAIN b.level[side]
      PROVE  \E x \in Full(d, side) : p = base + x
  <2>1. PICK r \in DOMAIN os : os[r].price = p
    BY DEF OracleIs, PriceAt
  <2>2. p \in base .. base + PriceLevels - 1
    BY <2>1 DEF Banded
  <2>3. p - base \in Addrs /\ p = base + (p - base)
    BY <1>1, <2>2 DEF Addrs
  <2> QED
    BY <1>2, <2>3
<1> QED
  BY <1>2, <1>3

\* The extreme level is that of the oracle's best price.
LEMMA BestIsBest ==
  ASSUME NEW side \in Sides, NEW t \in Trackers, NEW full, full \subseteq Addrs,
         Extreme(side, t, full), NEW base \in Nat, NEW b,
         \A x \in Addrs : x \in full <=> base + x \in DOMAIN b.level[side],
         \A p \in DOMAIN b.level[side] : \E x \in full : p = base + x
  PROVE  /\ t.valid <=> DOMAIN b.level[side] # {}
         /\ t.valid => base + t.addr = Ref!RefBest(b, side)
<1>1. PICK keys : keys = DOMAIN b.level[side]
  OBVIOUS
<1>2. /\ PriceLevels \in Nat /\ Addrs \subseteq Int /\ t.addr \in Addrs
  BY EngineConstants, TrackerFields DEF Addrs
<1>3. t.valid <=> keys # {}
  BY <1>1, <1>2 DEF Extreme
<1>4. ASSUME t.valid PROVE base + t.addr = Ref!RefBest(b, side)
  <2>1. PICK a \in Addrs : a = t.addr /\ a \in full /\ base + a \in keys
    BY <1>1, <1>2, <1>4 DEF Extreme
  <2>2. ASSUME NEW q \in keys
        PROVE  /\ q \in Int /\ IF side = "bid" THEN base + a >= q ELSE base + a <= q
    <3>1. PICK x \in Addrs : x \in full /\ q = base + x
      BY <1>1, <2>2
    <3>2. ~Beats(side, x, a)
      BY <2>1, <3>1 DEF Extreme
    <3> QED
      BY <1>2, <2>1, <3>1, <3>2 DEF Beats
  <2>3. ASSUME NEW p \in keys, \A q \in keys : IF side = "bid" THEN p >= q ELSE p <= q
        PROVE  p = base + a
    <3>1. p \in Int /\ IF side = "bid" THEN base + a >= p ELSE base + a <= p
      BY <2>2, <2>3
    <3>2. IF side = "bid" THEN p >= base + a ELSE p <= base + a
      BY <2>1, <2>3
    <3>3. base + a \in Int
      BY <1>2
    <3>4. CASE side = "bid"
      BY <3>1, <3>2, <3>3, <3>4
    <3>5. CASE side # "bid"
      BY <3>1, <3>2, <3>3, <3>5
    <3> QED
      BY <3>4, <3>5
  <2>4. (CHOOSE p \in keys : \A q \in keys : IF side = "bid" THEN p >= q ELSE p <= q) = base + a
    BY <2>1, <2>2, <2>3
  <2> QED
    BY <1>1, <2>1, <2>4 DEF Ref!RefBest
<1> QED
  BY <1>1, <1>3, <1>4

LEMMA CommitsAgree ==
  ASSUME EInv, DepthInv, BestInv, OracleInv, CountInv
  PROVE  CommitAgrees
<1> SUFFICES ASSUME counted.now, ref # Diverged
             PROVE  /\ since = counted.trades
                    /\ \A side \in Sides :
                         LET d == depth[side]
                             t == best[side]
                         IN  /\ d.tot = ref.tot[side]
                             /\ t.valid <=> DOMAIN ref.level[side] # {}
                             /\ t.valid => band.base + t.addr = Ref!RefBest(ref, side)
                             /\ \A p \in band.base .. band.base + PriceLevels - 1 :
                                  d.level[LevelAddr(p)] = Ref!LevelOf(ref, side, p)
  BY DEF CommitAgrees
<1>1. JustCounted /\ Followed
  BY DEF CountInv, OracleInv
<1>2. PICK os \in Tables : os = Held /\ os = LiveOrders
  BY <1>1, BeforeTables DEF JustCounted
<1>3. OracleIs(ref, os) /\ Positive(os) /\ Banded(band.base, os)
  BY <1>1, <1>2 DEF Followed
<1>4. /\ eng.state \in {"idle", "add_tbl", "lk", "finish"} /\ pulse.bt = NoRequest
      /\ ~resp.fails /\ since = counted.trades
  BY <1>1 DEF JustCounted
<1>5. Booked = os
  <2>1. CASE eng.state \in {"idle", "finish"}
    BY <1>2, <2>1 DEF Booked
  <2>2. CASE eng.state \in {"add_tbl", "lk"}
    BY <1>2, <2>2 DEF Booked, Held, Idle, Removing
  <2> QED
    BY <1>4, <2>1, <2>2
<1>6. PICK base \in Nat : base = band.base
  BY EngineConstants DEF EInv, EngInv, TypedEng
<1>7. depth \in Depths /\ DepthIs(depth, base, os)
  BY <1>4, <1>5, <1>6 DEF DepthInv
<1>8. ASSUME NEW side \in Sides
      PROVE  /\ depth[side].tot = ref.tot[side]
             /\ best[side].valid <=> DOMAIN ref.level[side] # {}
             /\ best[side].valid => base + best[side].addr = Ref!RefBest(ref, side)
             /\ \A p \in base .. base + PriceLevels - 1 :
                  depth[side].level[LevelAddr(p)] = Ref!LevelOf(ref, side, p)
  <2>1. depth[side].tot = ref.tot[side]
    BY <1>3, <1>7 DEF DepthIs, OracleIs
  <2>2. best[side] \in Trackers /\ Extreme(side, best[side], Full(depth, side))
    BY <1>4, RequestFields DEF BestInv, Emptying, Elsewhere, Settled
  <2>3. /\ \A x \in Addrs : x \in Full(depth, side) <=> base + x \in DOMAIN ref.level[side]
        /\ \A p \in DOMAIN ref.level[side] : \E x \in Full(depth, side) : p = base + x
    BY <1>3, <1>6, <1>7, FullIsKeys
  <2>4. Full(depth, side) \subseteq Addrs
    BY DEF Full
  <2>5. /\ best[side].valid <=> DOMAIN ref.level[side] # {}
        /\ best[side].valid => base + best[side].addr = Ref!RefBest(ref, side)
    BY <2>2, <2>3, <2>4, BestIsBest
  <2>6. ASSUME NEW p \in base .. base + PriceLevels - 1
        PROVE  depth[side].level[LevelAddr(p)] = Ref!LevelOf(ref, side, p)
    <3>1. PICK x \in Addrs : p = base + x
      <4>1. p - base \in Addrs /\ p = base + (p - base)
        BY EngineConstants DEF Addrs
      <4> QED
        BY <4>1
    <3>2. AddrAt(base, p) = x /\ At(base, os, side, x) = PriceAt(os, side, p)
      BY <1>3, <1>6, <3>1, LevelIsPrice
    <3>3. LevelAddr(p) = x
      BY <1>6, <3>2 DEF LevelAddr, AddrAt
    <3>4. PICK l : l = depth[side].level[x]
      OBVIOUS
    <3>5. /\ l \in Levels /\ l.shares = Total(os, PriceAt(os, side, p))
          /\ l.count = Cardinality(PriceAt(os, side, p))
      BY <1>7, <3>2, <3>4, DepthTypes DEF DepthIs
    <3>6. l = [shares |-> Total(os, PriceAt(os, side, p)),
               count |-> Cardinality(PriceAt(os, side, p))]
      BY <3>5 DEF Levels
    <3>7. Ref!LevelOf(ref, side, p) = [shares |-> Total(os, PriceAt(os, side, p)),
                                       count |-> Cardinality(PriceAt(os, side, p))]
      BY <1>3, LevelOfIs
    <3> QED
      BY <3>3, <3>4, <3>6, <3>7
  <2> QED
    BY <2>1, <2>5, <2>6
<1> QED
  BY <1>4, <1>6, <1>8

\* When a message is counted the outputs are the oracle's: best prices and sizes,
\* levels, volumes and the trades in the VWAP sums, with the next message perhaps in
\* the engine already.  Orders have shares, no addition carries out of a level's
\* register, and the band does not wrap past the largest price.
THEOREM OutputsAgree ==
  ASSUME 0 \notin AddQtys, BandsInside
  PROVE  BookSpec /\ []NoCarry => []CommitAgrees
<1>1. BookInit => BestInv /\ OracleInv /\ TradeInv /\ CountInv
  BY BestStarts, OracleStarts, TradeStarts DEF BookInit, CountInv
<1>2. EInv /\ DepthInv /\ BestInv /\ NoCarry /\ [BookNext]_bookVars => BestInv'
  BY BestStep
<1>3. EInv /\ OracleInv /\ [BookNext]_bookVars => OracleInv'
  BY OracleStep
<1>4. EInv /\ OracleInv /\ TradeInv /\ [BookNext]_bookVars => TradeInv'
  BY TradeStep
<1>5. EInv /\ OracleInv /\ TradeInv /\ CountInv /\ [BookNext]_bookVars => CountInv'
  BY CountStep
<1>6. EInv /\ DepthInv /\ BestInv /\ OracleInv /\ CountInv => CommitAgrees
  BY CommitsAgree
<1> QED
  BY <1>1, <1>2, <1>3, <1>4, <1>5, <1>6, Inductive, DepthInductive, PTL DEF BookSpec
=============================================================================
