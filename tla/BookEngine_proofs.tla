------------------------- MODULE BookEngine_proofs -------------------------
(***************************************************************************)
(* Proofs about BookEngine, for every set of references and locates, every *)
(* number of price levels, every capacity and every width of the counters. *)
(***************************************************************************)
EXTENDS BookEngine, OrderBook_proofs, FiniteSetTheorems

Table == [RefIds -> Order \cup {NoOrder}]

-----------------------------------------------------------------------------
(* Counting the orders and the shares of a table. *)

LEMMA LiveFinite ==
  ASSUME NEW t
  PROVE  /\ IsFiniteSet(LiveIn(t)) /\ Cardinality(LiveIn(t)) \in Nat
         /\ LiveIn(t) \subseteq RefIds
<1>1. LiveIn(t) \in SUBSET RefIds
  BY DEF LiveIn
<1> QED
  BY <1>1, RefIdsAssumption, FS_Subset, FS_CardinalityType

LEMMA LiveIsOrder ==
  ASSUME NEW t \in Table, NEW r
  PROVE  r \in LiveIn(t) <=> r \in RefIds /\ t[r] \in Order
BY AbsentAssumption DEF Table, LiveIn

LEMMA OneOrdersShares ==
  ASSUME NEW r, NEW n \in Nat
  PROVE  IsFiniteSet({r} \X (1 .. n)) /\ Cardinality({r} \X (1 .. n)) = n
<1>1. IsFiniteSet({r}) /\ Cardinality({r}) = 1
  BY FS_Singleton
<1>2. IsFiniteSet(1 .. n) /\ Cardinality(1 .. n) = n
  BY FS_Interval
<1>3. ASSUME NEW S, NEW T, IsFiniteSet(S), IsFiniteSet(T), Cardinality(S) = 1,
             Cardinality(T) = n
      PROVE  IsFiniteSet(S \X T) /\ Cardinality(S \X T) = n
  <2>1. Cardinality(S \X T) = 1 * n
    BY <1>3, FS_Product, Zenon
  <2> QED
    BY <1>3, <2>1, FS_Product
<1> QED
  BY <1>1, <1>2, <1>3, Zenon

LEMMA SharesFinite ==
  ASSUME NEW t \in Table, NEW rs \in SUBSET LiveIn(t)
  PROVE  IsFiniteSet(SharesOf(t, rs)) /\ Cardinality(SharesOf(t, rs)) \in Nat
<1>1. rs \subseteq LiveIn(t) /\ IsFiniteSet(rs)
  BY LiveFinite, FS_Subset
<1>2. \A r \in rs : t[r].shares \in Nat
  BY <1>1, LiveIsOrder DEF Order, U32
<1>3. \A r \in rs : IsFiniteSet({r} \X (1 .. t[r].shares))
  BY <1>2, OneOrdersShares
<1>4. SharesOf(t, rs) \subseteq rs \X (1 .. MaxU32)
  BY <1>1, <1>2, LiveIsOrder, MaxU32Assumption DEF SharesOf, Order, U32
<1>5. IsFiniteSet(rs \X (1 .. MaxU32))
  <2>1. IsFiniteSet(1 .. MaxU32)
    BY MaxU32Assumption, FS_Interval
  <2> QED
    BY <1>1, <2>1, FS_Product, Zenon
<1> QED
  BY <1>4, <1>5, FS_Subset, FS_CardinalityType

\* Inserting an order adds one to the count and its shares to the total of
\* its own level, and to no other.
Counted(o, l, s, p, n) == IF RestsAt(o, l, s, p) THEN n ELSE 0

LEMMA InsertType ==
  ASSUME NEW t \in Table, NEW r \in RefIds, NEW o \in Order
  PROVE  /\ Insert(t, r, o) \in Table
         /\ \A q \in RefIds : Insert(t, r, o)[q] = IF q = r THEN o ELSE t[q]
         /\ LiveIn(Insert(t, r, o)) = LiveIn(t) \cup {r}
BY AbsentAssumption DEF Table, Insert, LiveIn

LEMMA InsertTotals ==
  ASSUME NEW t \in Table, NEW r \in RefIds \ LiveIn(t), NEW o \in Order,
         NEW l, NEW s, NEW p
  PROVE  /\ OrderCount(Insert(t, r, o), l, s, p)
              = OrderCount(t, l, s, p) + Counted(o, l, s, p, 1)
         /\ ShareTotal(Insert(t, r, o), l, s, p)
              = ShareTotal(t, l, s, p) + Counted(o, l, s, p, o.shares)
<1> DEFINE u == Insert(t, r, o)
           A == OrdersAt(t, l, s, p)
           B == OrdersAt(u, l, s, p)
<1>1. /\ u \in Table /\ u[r] = o /\ LiveIn(u) = LiveIn(t) \cup {r}
      /\ \A q \in LiveIn(t) : u[q] = t[q]
  BY InsertType, LiveFinite
<1>2. A \subseteq LiveIn(t) /\ B \subseteq LiveIn(u) /\ r \notin A
  BY DEF OrdersAt
<1>3. B = IF RestsAt(o, l, s, p) THEN A \cup {r} ELSE A
  BY <1>1 DEF OrdersAt
<1>4. SharesOf(u, A) = SharesOf(t, A)
  <2>1. \A q \in A : u[q] = t[q]
    BY <1>1, <1>2
  <2> QED
    BY <2>1 DEF SharesOf
<1>5. IsFiniteSet(A) /\ Cardinality(A) \in Nat
  BY <1>2, LiveFinite, FS_Subset, FS_CardinalityType
<1>6. IsFiniteSet(SharesOf(t, A)) /\ Cardinality(SharesOf(t, A)) \in Nat
  BY <1>2, SharesFinite
<1>7. o.shares \in Nat
  BY DEF Order, U32
<1> HIDE DEF u, A, B
<1>8. CASE RestsAt(o, l, s, p)
  <2>1. Cardinality(B) = Cardinality(A) + 1
    BY <1>2, <1>3, <1>5, <1>8, FS_AddElement
  <2> DEFINE New == {r} \X (1 .. o.shares)
  <2>2. SharesOf(u, B) = SharesOf(t, A) \cup New
    <3>1. SharesOf(u, B) = SharesOf(u, A) \cup New
      BY <1>1, <1>3, <1>8 DEF SharesOf
    <3> QED
      BY <3>1, <1>4
  <2>3. SharesOf(t, A) \cap New = {}
    BY <1>2 DEF SharesOf
  <2>4. IsFiniteSet(New) /\ Cardinality(New) = o.shares
    BY <1>7, OneOrdersShares
  <2>5. Cardinality(SharesOf(t, A) \cup New)
          = Cardinality(SharesOf(t, A)) + o.shares
    <3> HIDE DEF New
    <3>1. Cardinality(SharesOf(t, A) \cup New)
            = Cardinality(SharesOf(t, A)) + Cardinality(New) - Cardinality({})
      BY <1>6, <2>3, <2>4, FS_Union
    <3> QED
      BY <3>1, <1>6, <1>7, <2>4, FS_EmptySet
  <2> QED
    BY <2>1, <2>2, <2>5, <1>8 DEF OrderCount, ShareTotal, Counted, A, B, u
<1>9. CASE ~RestsAt(o, l, s, p)
  BY <1>3, <1>4, <1>5, <1>6, <1>9 DEF OrderCount, ShareTotal, Counted, A, B, u
<1> QED
  BY <1>8, <1>9

LEMMA TotalsNat ==
  ASSUME NEW t \in Table, NEW l, NEW s, NEW p
  PROVE  /\ OrderCount(t, l, s, p) \in Nat
         /\ ShareTotal(t, l, s, p) \in Nat
<1>1. OrdersAt(t, l, s, p) \in SUBSET LiveIn(t)
  BY DEF OrdersAt
<1> QED
  BY <1>1, LiveFinite, SharesFinite, FS_Subset, FS_CardinalityType
     DEF OrderCount, ShareTotal

\* A level without orders has no shares, and one with orders has some: the
\* agreement can_add() and can_remove() test.
LEMMA EmptyTogether ==
  ASSUME NEW t \in Table, NEW l, NEW s, NEW p
  PROVE  ShareTotal(t, l, s, p) = 0 <=> OrderCount(t, l, s, p) = 0
<1> DEFINE A == OrdersAt(t, l, s, p)
<1>1. A \in SUBSET LiveIn(t)
  BY DEF OrdersAt
<1>2. IsFiniteSet(A) /\ IsFiniteSet(SharesOf(t, A))
  BY <1>1, LiveFinite, SharesFinite, FS_Subset
<1>3. SharesOf(t, A) = {} <=> A = {}
  <2>1. ASSUME NEW r \in A PROVE <<r, 1>> \in SharesOf(t, A)
    <3>1. t[r].shares \in Nat /\ t[r].shares # 0
      BY <1>1, <2>1, LiveIsOrder DEF Order, U32
    <3> QED
      BY <3>1 DEF SharesOf
  <2>2. A = {} => SharesOf(t, A) = {}
    BY DEF SharesOf
  <2> QED
    BY <2>1, <2>2
<1> QED
  BY <1>2, <1>3, FS_EmptySet DEF OrderCount, ShareTotal

LEMMA EraseType ==
  ASSUME NEW t \in Table, NEW r \in LiveIn(t)
  PROVE  /\ Erase(t, r) \in Table
         /\ r \in RefIds \ LiveIn(Erase(t, r))
         /\ LiveIn(Erase(t, r)) = LiveIn(t) \ {r}
         /\ Cardinality(LiveIn(Erase(t, r))) = Cardinality(LiveIn(t)) - 1
         /\ t[r] \in Order
         /\ \A o : Insert(Erase(t, r), r, o) = Insert(t, r, o)
         /\ Insert(t, r, t[r]) = t
<1>1. r \in RefIds /\ t[r] \in Order
  BY LiveIsOrder
<1>2. Erase(t, r) \in Table /\ LiveIn(Erase(t, r)) = LiveIn(t) \ {r}
  BY <1>1 DEF Table, Erase, LiveIn
<1>3. \A o : Insert(Erase(t, r), r, o) = Insert(t, r, o)
  BY <1>1 DEF Insert, Erase, Table
<1>4. Insert(t, r, t[r]) = t
  BY <1>1 DEF Insert, Table
<1> QED
  BY <1>1, <1>2, <1>3, <1>4, LiveFinite, FS_RemoveElement

LEMMA EraseTotals ==
  ASSUME NEW t \in Table, NEW r \in LiveIn(t), NEW l, NEW s, NEW p
  PROVE  /\ OrderCount(t, l, s, p)
              = OrderCount(Erase(t, r), l, s, p) + Counted(t[r], l, s, p, 1)
         /\ ShareTotal(t, l, s, p)
              = ShareTotal(Erase(t, r), l, s, p)
                + Counted(t[r], l, s, p, t[r].shares)
<1> DEFINE e == Erase(t, r)
<1>1. /\ e \in Table /\ r \in RefIds \ LiveIn(e) /\ t[r] \in Order
      /\ Insert(e, r, t[r]) = t
  BY EraseType
<1> HIDE DEF e
<1>2. /\ OrderCount(Insert(e, r, t[r]), l, s, p)
           = OrderCount(e, l, s, p) + Counted(t[r], l, s, p, 1)
      /\ ShareTotal(Insert(e, r, t[r]), l, s, p)
           = ShareTotal(e, l, s, p) + Counted(t[r], l, s, p, t[r].shares)
  BY <1>1, InsertTotals
<1> QED
  BY <1>1, <1>2 DEF e

\* Taking qty shares off an order, and the order off the table with its last.
After(t, r, qty) ==
  IF t[r].shares = qty THEN Erase(t, r)
  ELSE [t EXCEPT ![r].shares = @ - qty]

LEMMA TakeTotals ==
  ASSUME NEW t \in Table, NEW r \in LiveIn(t), NEW qty \in U32,
         qty # 0, qty <= t[r].shares
  PROVE  /\ After(t, r, qty) \in Table
         /\ LiveIn(After(t, r, qty)) \subseteq LiveIn(t)
         /\ \A l, s, p :
              /\ OrderCount(t, l, s, p)
                   = OrderCount(After(t, r, qty), l, s, p)
                     + Counted(t[r], l, s, p, IF t[r].shares = qty THEN 1 ELSE 0)
              /\ ShareTotal(t, l, s, p)
                   = ShareTotal(After(t, r, qty), l, s, p)
                     + Counted(t[r], l, s, p, qty)
<1>1. t[r] \in Order /\ r \in RefIds
  BY EraseType
<1>2. CASE t[r].shares = qty
  BY <1>2, EraseType, EraseTotals DEF After
<1>3. CASE t[r].shares # qty
  <2> DEFINE e == Erase(t, r)
             o == [t[r] EXCEPT !.shares = @ - qty]
             u == After(t, r, qty)
  <2>1. /\ o \in Order /\ o.shares = t[r].shares - qty
        /\ \A l, s, p : RestsAt(o, l, s, p) <=> RestsAt(t[r], l, s, p)
    BY <1>1, <1>3, MaxU32Assumption DEF Order, U32, RestsAt
  <2>2. e \in Table /\ r \in RefIds \ LiveIn(e) /\ LiveIn(e) = LiveIn(t) \ {r}
    BY EraseType
  <2>3. u = Insert(e, r, o)
    <3>1. u = Insert(t, r, o)
      BY <1>1, <1>3 DEF After, Insert, Table
    <3> QED
      BY <3>1, EraseType
  <2> HIDE DEF e, o, u
  <2>4. u \in Table /\ LiveIn(u) \subseteq LiveIn(t)
    BY <2>1, <2>2, <2>3, InsertType
  <2>5. ASSUME NEW l, NEW s, NEW p
        PROVE  /\ OrderCount(t, l, s, p) = OrderCount(u, l, s, p)
               /\ ShareTotal(t, l, s, p)
                    = ShareTotal(u, l, s, p) + Counted(t[r], l, s, p, qty)
    <3>1. /\ OrderCount(u, l, s, p)
               = OrderCount(e, l, s, p) + Counted(o, l, s, p, 1)
          /\ ShareTotal(u, l, s, p)
               = ShareTotal(e, l, s, p) + Counted(o, l, s, p, o.shares)
      BY <2>1, <2>2, <2>3, InsertTotals
    <3>2. /\ OrderCount(t, l, s, p)
               = OrderCount(e, l, s, p) + Counted(t[r], l, s, p, 1)
          /\ ShareTotal(t, l, s, p)
               = ShareTotal(e, l, s, p) + Counted(t[r], l, s, p, t[r].shares)
      BY EraseTotals DEF e
    <3>3. /\ ShareTotal(e, l, s, p) \in Nat
          /\ t[r].shares \in Nat /\ qty \in Nat
      BY <1>1, <2>2, TotalsNat, MaxU32Assumption DEF Order, U32
    <3> QED
      BY <2>1, <3>1, <3>2, <3>3 DEF Counted
  <2>6. \A l, s, p : /\ Counted(t[r], l, s, p, 0) = 0
                     /\ OrderCount(u, l, s, p) + 0 = OrderCount(u, l, s, p)
    BY <2>4, TotalsNat DEF Counted
  <2> QED
    BY <1>3, <2>4, <2>5, <2>6 DEF u
<1> QED
  BY <1>2, <1>3

-----------------------------------------------------------------------------
(* The inductive invariant. *)

\* Type correctness, the agreement of the books with the table and the bound
\* on the table together are inductive: the guards of a book's operations hold
\* because its levels count the orders of the table, and the types because
\* the guards hold.
IInv == TypeOK /\ LevelsMatchRefs /\ TableFits

Shelf == [Locates -> Book \cup {NoBook}]

LEMMA EmptyBookType == EmptyBook \in Book
<1>1. 0 \in U32 /\ 0 \in 0 .. MaxPrice
  BY MaxU32Assumption, PricesType DEF U32
<1> QED
  BY <1>1 DEF EmptyBook, Book

LEMMA BookOfType ==
  ASSUME TypeOK, NEW l \in Locates
  PROVE  BookOf(l) \in Book
BY EmptyBookType DEF TypeOK, BookOf

\* Putting a book on the shelf changes the book of its locate only.
LEMMA PutBookOf ==
  ASSUME TypeOK, NEW l \in Locates, NEW c \in Book, books' = PutBook(l, c)
  PROVE  /\ books' \in Shelf
         /\ \A k \in Locates : BookOf(k)' = IF k = l THEN c ELSE BookOf(k)
BY AbsentAssumption DEF TypeOK, PutBook, BookOf, Shelf

\* Making sure a book exists changes no book.
LEMMA SameBooks ==
  ASSUME TypeOK,
         \/ books' = books
         \/ \E l \in Locates : books' = PutBook(l, BookOf(l))
  PROVE  books' \in Shelf /\ \A k \in Locates : BookOf(k)' = BookOf(k)
<1>1. CASE books' = books
  BY <1>1 DEF TypeOK, BookOf, Shelf
<1>2. ASSUME NEW l \in Locates, books' = PutBook(l, BookOf(l))
      PROVE  books' \in Shelf /\ \A k \in Locates : BookOf(k)' = BookOf(k)
  BY <1>2, BookOfType, PutBookOf
<1> QED
  BY <1>1, <1>2

\* A step that leaves the table and every book as they are keeps the invariant.
LEMMA QuietStep ==
  ASSUME IInv, refs' = refs,
         \/ books' = books
         \/ \E l \in Locates : books' = PutBook(l, BookOf(l)),
         last_status' \in Statuses, clean' \in BOOLEAN, exec' \in ExecResult
  PROVE  IInv'
<1>1. books' \in Shelf /\ \A k \in Locates : BookOf(k)' = BookOf(k)
  BY SameBooks DEF IInv
<1>2. TypeOK'
  BY <1>1 DEF IInv, TypeOK, Shelf
<1>3. LevelsMatchRefs'
  BY <1>1 DEF IInv, LevelsMatchRefs
<1>4. TableFits'
  BY DEF IInv, TableFits, LiveRefs
<1> QED
  BY <1>2, <1>3, <1>4 DEF IInv

LEMMA ReportType ==
  ASSUME TypeOK, NEW status \in Statuses, Report(status)
  PROVE  last_status' \in Statuses /\ clean' \in BOOLEAN
BY DEF Report, TypeOK

LEMMA NoExecType == NoExec \in ExecResult
<1>1. 0 \in U32
  BY MaxU32Assumption DEF U32
<1> QED
  BY <1>1 DEF NoExec, ExecResult, MsgLocates

\* The contribution of an order to the levels of the book it rests in.
LEMMA CountedHere ==
  ASSUME NEW o, NEW n \in Nat, NEW l, NEW s, NEW p
  PROVE  /\ l = o.locate => Counted(o, l, s, p, n) = Here(s, p, o.side, o.price, n)
         /\ l # o.locate => Counted(o, l, s, p, n) = 0
         /\ Counted(o, l, s, p, n) \in Nat
BY DEF Counted, Here, RestsAt

\* What the handlers assume of a message: its fields hold what the types of
\* their wire formats can hold.  Prices and quantities are any uint32_t, in range
\* for the book or not.
AddFields(m) ==
  /\ m.ref \in MsgRefs /\ m.locate \in MsgLocates
  /\ m.price \in U32 /\ m.shares \in U32
ReduceFields(m) ==
  /\ m.ref \in MsgRefs /\ m.shares \in U32
  /\ m.type = "ExecPrice" => m.price \in U32 /\ m.printable \in BOOLEAN
ReplaceFields(m) ==
  /\ m.ref \in MsgRefs /\ m.new_ref \in MsgRefs
  /\ m.price \in U32 /\ m.shares \in U32
TradeFields(m) ==
  m.locate \in MsgLocates /\ m.price \in U32 /\ m.shares \in U32

\* A handler runs on such a message.
Handles ==
  \/ \E m : AddFields(m) /\ OnAdd(m)
  \/ \E m : ReduceFields(m) /\ OnReduce(m)
  \/ \E m : OnDelete(m)
  \/ \E m : ReplaceFields(m) /\ OnReplace(m)
  \/ \E m : TradeFields(m) /\ OnTrade(m)
  \/ \E m : OnOther(m)

LEMMA MsgType ==
  /\ \A m \in AddMsgs : AddFields(m)
  /\ \A m \in ReduceMsgs : ReduceFields(m)
  /\ \A m \in ReplaceMsgs : ReplaceFields(m)
  /\ \A m \in TradeMsgs : TradeFields(m)
<1>1. \A m \in AddMsgs : AddFields(m)
  BY MsgAssumption DEF AddMsgs, AddFields
<1>2. \A m \in ReduceMsgs : ReduceFields(m)
  BY MsgAssumption
     DEF ReduceMsgs, ExecMsgs, ExecPriceMsgs, CancelMsgs, ReduceFields
<1>3. \A m \in ReplaceMsgs : ReplaceFields(m)
  BY MsgAssumption DEF ReplaceMsgs, ReplaceFields
<1>4. \A m \in TradeMsgs : TradeFields(m)
  BY MsgAssumption DEF TradeMsgs, TradeFields
<1> QED
  BY <1>1, <1>2, <1>3, <1>4

LEMMA NextHandles == Next => Handles
BY MsgType DEF Next, Handles

LEMMA AddStep ==
  ASSUME IInv, NEW m, AddFields(m), OnAdd(m)
  PROVE  IInv'
<1> DEFINE l == m.locate
           b == BookOf(l)
           o == OrderOf(m)
<1>1. AddStatus(m) \in Statuses
  BY DEF AddStatus, Statuses
<1>2. /\ last_status' \in Statuses /\ clean' \in BOOLEAN
      /\ exec' \in ExecResult
  BY <1>1, ReportType, NoExecType DEF OnAdd, IInv
<1>3. ValidAdd(m) => l \in Locates
  BY DEF AddFields, ValidAdd, MsgLocates
<1>4. CASE AddStatus(m) # "Applied"
  <2>1. refs' = refs
    BY <1>4 DEF OnAdd
  <2>2. books' = books \/ \E k \in Locates : books' = PutBook(k, BookOf(k))
    BY <1>3, <1>4 DEF OnAdd
  <2> QED
    BY <1>2, <2>1, <2>2, QuietStep
<1>5. CASE AddStatus(m) = "Applied"
  <2>1. /\ ValidAdd(m) /\ m.ref \notin LiveRefs /\ CanInsert(refs, m.ref)
        /\ CanAdd(b, m.side, m.price, m.shares)
    BY <1>5 DEF AddStatus
  <2>2. /\ refs' = Insert(refs, m.ref, o)
        /\ books' = PutBook(l, Add(b, m.side, m.price, m.shares))
    BY <1>5 DEF OnAdd
  <2>3. /\ l \in Locates /\ m.side \in Sides /\ m.price \in Prices
        /\ m.shares \in U32 /\ m.ref \in RefIds
        /\ Cardinality(LiveIn(refs)) < RefCapacity
    BY <1>3, <2>1 DEF AddFields, ValidAdd, CanInsert
  <2>4. /\ o \in Order /\ o.locate = l /\ o.side = m.side /\ o.price = m.price
        /\ o.shares = m.shares
    BY <2>1, <2>3 DEF OrderOf, Order, ValidAdd
  <2>5. b \in Book /\ refs \in Table /\ m.ref \in RefIds \ LiveIn(refs)
    BY <2>1, <2>3, BookOfType DEF IInv, TypeOK, Table, LiveRefs
  <2>6. Add(b, m.side, m.price, m.shares) \in Book
    BY <2>1, <2>3, <2>5, AddType
  <2> HIDE DEF o, b, l
  <2>7. /\ books' \in Shelf
        /\ \A k \in Locates : BookOf(k)' =
             IF k = l THEN Add(b, m.side, m.price, m.shares) ELSE BookOf(k)
    BY <2>2, <2>3, <2>6, PutBookOf DEF IInv
  <2>8. TypeOK'
    BY <1>2, <2>2, <2>3, <2>4, <2>5, <2>7, InsertType DEF TypeOK, Shelf, Table
  <2>9. TableFits'
    <3>1. LiveIn(refs') = LiveIn(refs) \cup {m.ref}
      BY <2>2, <2>3, <2>4, <2>5, InsertType
    <3>2. Cardinality(LiveIn(refs')) = Cardinality(LiveIn(refs)) + 1
      BY <2>5, <3>1, LiveFinite, FS_AddElement
    <3> QED
      BY <2>3, <3>2, LiveFinite, RefCapacityAssumption DEF TableFits, LiveRefs
  <2>10. LevelsMatchRefs'
    <3> SUFFICES ASSUME NEW k \in Locates, NEW s \in Sides, NEW p \in Prices
                 PROVE  /\ BookOf(k)'.orders[s][p] = OrderCount(refs', k, s, p)
                        /\ BookOf(k)'.shares[s][p] = ShareTotal(refs', k, s, p)
      BY DEF LevelsMatchRefs
    <3>1. /\ OrderCount(refs', k, s, p)
               = OrderCount(refs, k, s, p) + Counted(o, k, s, p, 1)
          /\ ShareTotal(refs', k, s, p)
               = ShareTotal(refs, k, s, p) + Counted(o, k, s, p, m.shares)
      BY <2>2, <2>4, <2>5, InsertTotals
    <3>2. /\ BookOf(k).orders[s][p] = OrderCount(refs, k, s, p)
          /\ BookOf(k).shares[s][p] = ShareTotal(refs, k, s, p)
          /\ OrderCount(refs, k, s, p) \in Nat /\ ShareTotal(refs, k, s, p) \in Nat
      BY <2>5, TotalsNat DEF IInv, LevelsMatchRefs
    <3>3. m.shares \in Nat
      BY <2>3 DEF U32
    <3>4. CASE k = l
      <4>1. /\ BookOf(k)'.shares[s][p]
                 = BookOf(k).shares[s][p] + Here(s, p, m.side, m.price, m.shares)
            /\ BookOf(k)'.orders[s][p]
                 = BookOf(k).orders[s][p] + Here(s, p, m.side, m.price, 1)
        BY <2>3, <2>5, <2>7, <3>4, AddLevels DEF b
      <4>2. k = o.locate /\ 1 \in Nat
        BY <2>4, <3>4
      <4>3. /\ Counted(o, k, s, p, m.shares)
                 = Here(s, p, o.side, o.price, m.shares)
            /\ Counted(o, k, s, p, 1) = Here(s, p, o.side, o.price, 1)
        BY <3>3, <4>2, CountedHere
      <4> QED
        BY <4>1, <4>3, <2>4, <3>1, <3>2
    <3>5. CASE k # l
      <4>1. Counted(o, k, s, p, m.shares) = 0 /\ Counted(o, k, s, p, 1) = 0
        BY <2>4, <3>3, <3>5, CountedHere
      <4> QED
        BY <4>1, <2>7, <3>1, <3>2, <3>5
    <3> QED
      BY <3>4, <3>5
  <2> QED
    BY <2>8, <2>9, <2>10 DEF IInv
<1> QED
  BY <1>4, <1>5

\* The shares of a live order, or fewer, can always be taken off its level.
LEMMA CanReduceHolds ==
  ASSUME IInv, NEW r \in LiveRefs, NEW qty \in U32, qty # 0,
         qty <= refs[r].shares
  PROVE  CanReduceBy(r, qty)
<1> DEFINE o == refs[r]
           b == BookOf(o.locate)
           u == After(refs, r, qty)
           gone == o.shares = qty
<1>1. refs \in Table /\ r \in LiveIn(refs)
  BY DEF IInv, TypeOK, Table, LiveRefs
<1>2. /\ o \in Order /\ o.locate \in Locates /\ o.side \in Sides
      /\ o.price \in Prices
  BY <1>1, LiveIsOrder DEF Order
<1>3. /\ b.orders[o.side][o.price] = OrderCount(refs, o.locate, o.side, o.price)
      /\ b.shares[o.side][o.price] = ShareTotal(refs, o.locate, o.side, o.price)
  BY <1>2 DEF IInv, LevelsMatchRefs
<1>4. /\ u \in Table
      /\ OrderCount(refs, o.locate, o.side, o.price)
           = OrderCount(u, o.locate, o.side, o.price) + (IF gone THEN 1 ELSE 0)
      /\ ShareTotal(refs, o.locate, o.side, o.price)
           = ShareTotal(u, o.locate, o.side, o.price) + qty
  BY <1>1, TakeTotals DEF Counted, RestsAt
<1> HIDE DEF u, b, o
<1>5. /\ OrderCount(u, o.locate, o.side, o.price) \in Nat
      /\ ShareTotal(u, o.locate, o.side, o.price) \in Nat
      /\ ShareTotal(u, o.locate, o.side, o.price) = 0
           <=> OrderCount(u, o.locate, o.side, o.price) = 0
  BY <1>4, TotalsNat, EmptyTogether
<1>6. qty \in Nat
  BY DEF U32
<1>7. /\ qty <= b.shares[o.side][o.price]
      /\ gone => b.orders[o.side][o.price] # 0
      /\ b.shares[o.side][o.price] = qty
           <=> b.orders[o.side][o.price] - (IF gone THEN 1 ELSE 0) = 0
  BY <1>3, <1>4, <1>5, <1>6
<1> QED
  BY <1>2, <1>7 DEF CanReduceBy, CanRemove, b, o

LEMMA TakeStep ==
  ASSUME IInv, NEW r \in LiveRefs, NEW qty \in U32, qty # 0,
         qty <= refs[r].shares,
         refs' = RefsAfterReduce(r, qty),
         books' = PutBook(refs[r].locate, BookAfterReduce(r, qty)),
         last_status' \in Statuses, clean' \in BOOLEAN, exec' \in ExecResult
  PROVE  IInv'
<1> DEFINE o == refs[r]
           b == BookOf(o.locate)
           gone == o.shares = qty
           c == Remove(b, o.side, o.price, qty, gone)
<1>1. refs \in Table /\ r \in LiveIn(refs)
  BY DEF IInv, TypeOK, Table, LiveRefs
<1>2. /\ o \in Order /\ o.locate \in Locates /\ o.side \in Sides
      /\ o.price \in Prices /\ gone \in BOOLEAN /\ qty \in Nat
  BY <1>1, LiveIsOrder DEF Order, U32
<1>3. b \in Book /\ CanRemove(b, o.side, o.price, qty, gone)
  BY <1>2, CanReduceHolds, BookOfType DEF CanReduceBy, IInv
<1>4. c \in Book
  BY <1>2, <1>3, RemoveType
<1>5. refs' = After(refs, r, qty) /\ books' = PutBook(o.locate, c)
  BY DEF RefsAfterReduce, BookAfterReduce, After
<1>6. /\ refs' \in Table
      /\ LiveIn(refs') \subseteq LiveIn(refs)
      /\ \A l, s, p :
           /\ OrderCount(refs, l, s, p)
                = OrderCount(refs', l, s, p)
                  + Counted(o, l, s, p, IF gone THEN 1 ELSE 0)
           /\ ShareTotal(refs, l, s, p)
                = ShareTotal(refs', l, s, p) + Counted(o, l, s, p, qty)
  BY <1>1, <1>5, TakeTotals
<1> HIDE DEF c, gone, b, o
<1>7. /\ books' \in Shelf
      /\ \A k \in Locates : BookOf(k)' = IF k = o.locate THEN c ELSE BookOf(k)
  BY <1>2, <1>4, <1>5, PutBookOf DEF IInv
<1>8. TypeOK'
  BY <1>6, <1>7 DEF TypeOK, Shelf, Table
<1>9. TableFits'
  <2>1. Cardinality(LiveIn(refs')) <= Cardinality(LiveIn(refs))
    BY <1>6, LiveFinite, FS_Subset
  <2> QED
    BY <2>1, LiveFinite, RefCapacityAssumption DEF IInv, TableFits, LiveRefs
<1>10. LevelsMatchRefs'
  <2> SUFFICES ASSUME NEW k \in Locates, NEW s \in Sides, NEW p \in Prices
               PROVE  /\ BookOf(k)'.orders[s][p] = OrderCount(refs', k, s, p)
                      /\ BookOf(k)'.shares[s][p] = ShareTotal(refs', k, s, p)
    BY DEF LevelsMatchRefs
  <2> DEFINE one == IF gone THEN 1 ELSE 0
  <2>1. /\ BookOf(k).orders[s][p]
             = OrderCount(refs', k, s, p) + Counted(o, k, s, p, one)
        /\ BookOf(k).shares[s][p]
             = ShareTotal(refs', k, s, p) + Counted(o, k, s, p, qty)
    BY <1>6 DEF IInv, LevelsMatchRefs
  <2>2. /\ OrderCount(refs', k, s, p) \in Nat /\ ShareTotal(refs', k, s, p) \in Nat
        /\ one \in Nat
    BY <1>6, TotalsNat
  <2>3. CASE k = o.locate
    <3>1. /\ BookOf(k)'.shares[s][p]
               = BookOf(k).shares[s][p] - Here(s, p, o.side, o.price, qty)
          /\ BookOf(k)'.orders[s][p]
               = BookOf(k).orders[s][p] - Here(s, p, o.side, o.price, one)
      BY <1>2, <1>3, <1>7, <2>3, RemoveLevels DEF b, c
    <3>2. /\ Counted(o, k, s, p, qty) = Here(s, p, o.side, o.price, qty)
          /\ Counted(o, k, s, p, one) = Here(s, p, o.side, o.price, one)
          /\ Counted(o, k, s, p, qty) \in Nat /\ Counted(o, k, s, p, one) \in Nat
      BY <1>2, <2>2, <2>3, CountedHere
    <3> HIDE DEF one
    <3> QED
      BY <3>1, <3>2, <2>1, <2>2
  <2>4. CASE k # o.locate
    <3>1. Counted(o, k, s, p, qty) = 0 /\ Counted(o, k, s, p, one) = 0
      BY <1>2, <2>2, <2>4, CountedHere
    <3> HIDE DEF one
    <3> QED
      BY <3>1, <2>1, <2>2, <1>7, <2>4
  <2> QED
    BY <2>3, <2>4
<1> QED
  BY <1>8, <1>9, <1>10 DEF IInv

LEMMA ReduceStep ==
  ASSUME IInv, NEW m, ReduceFields(m), OnReduce(m)
  PROVE  IInv'
<1>1. ReduceStatus(m) \in Statuses /\ m.ref \in MsgRefs /\ m.shares \in U32
  BY DEF ReduceFields, ReduceStatus, Statuses
<1>2. last_status' \in Statuses /\ clean' \in BOOLEAN
  BY <1>1, ReportType DEF OnReduce, IInv
<1>3. refs \in Table
  BY DEF IInv, TypeOK, Table
<1>4. ASSUME ReduceStatus(m) \in {"Applied", "ResyncRequired"}
      PROVE  /\ m.ref \in LiveRefs /\ m.shares # 0 /\ m.shares <= refs[m.ref].shares
             /\ refs[m.ref] \in Order /\ refs[m.ref].locate \in Locates
  <2>1. m.ref \in LiveRefs /\ m.shares # 0 /\ ~(m.shares > refs[m.ref].shares)
    BY <1>4 DEF ReduceStatus
  <2>2. refs[m.ref] \in Order
    BY <2>1, <1>3, LiveIsOrder DEF LiveRefs
  <2> QED
    BY <2>1, <2>2, <1>1, MaxU32Assumption DEF Order, U32
<1>5. exec' \in ExecResult
  <2>1. CASE ReduceStatus(m) = "Applied" /\ m.type # "Cancel"
    <3>2. m.type = "ExecPrice" => m.price \in U32 /\ m.printable \in BOOLEAN
      BY DEF ReduceFields
    <3>3. refs[m.ref].price \in U32 /\ refs[m.ref].locate \in MsgLocates
      <4>1. Prices \subseteq U32
        BY PriceLevelsAssumption, MaxU32Assumption DEF Prices, MaxPrice, U32
      <4> QED
        BY <2>1, <1>4, <4>1 DEF Order, MsgLocates
    <3>4. ExecOf(m) \in ExecResult
      BY <1>1, <3>2, <3>3 DEF ExecOf, ExecResult
    <3> QED
      BY <3>4, <2>1 DEF OnReduce
  <2>2. CASE ~(ReduceStatus(m) = "Applied" /\ m.type # "Cancel")
    BY <2>2, NoExecType DEF OnReduce
  <2> QED
    BY <2>1, <2>2
<1>6. CASE ReduceStatus(m) = "Applied"
  BY <1>1, <1>2, <1>4, <1>5, <1>6, TakeStep DEF OnReduce
<1>7. CASE ReduceStatus(m) # "Applied"
  <2>1. refs' = refs
    BY <1>7 DEF OnReduce
  <2>2. books' = books \/ \E k \in Locates : books' = PutBook(k, BookOf(k))
    BY <1>4, <1>7 DEF OnReduce
  <2> QED
    BY <1>2, <1>5, <2>1, <2>2, QuietStep
<1> QED
  BY <1>6, <1>7

LEMMA DeleteStep ==
  ASSUME IInv, NEW m, OnDelete(m)
  PROVE  IInv'
<1>1. DeleteStatus(m) \in Statuses
  BY DEF DeleteStatus, Statuses
<1>2. /\ last_status' \in Statuses /\ clean' \in BOOLEAN
      /\ exec' \in ExecResult
  BY <1>1, ReportType, NoExecType DEF OnDelete, IInv
<1>3. refs \in Table
  BY DEF IInv, TypeOK, Table
<1>4. ASSUME DeleteStatus(m) \in {"Applied", "ResyncRequired"}
      PROVE  /\ m.ref \in LiveRefs /\ refs[m.ref].locate \in Locates
             /\ refs[m.ref].shares \in U32 /\ refs[m.ref].shares # 0
             /\ refs[m.ref].shares <= refs[m.ref].shares
  <2>1. m.ref \in LiveRefs
    BY <1>4 DEF DeleteStatus
  <2>2. refs[m.ref] \in Order
    BY <2>1, <1>3, LiveIsOrder DEF LiveRefs
  <2> QED
    BY <2>1, <2>2 DEF Order, U32
<1>5. CASE DeleteStatus(m) = "Applied"
  <2>1. /\ refs' = RefsAfterReduce(m.ref, refs[m.ref].shares)
        /\ books' = PutBook(refs[m.ref].locate,
                            BookAfterReduce(m.ref, refs[m.ref].shares))
    BY <1>5 DEF OnDelete, RefsAfterReduce
  <2> QED
    BY <1>2, <1>4, <1>5, <2>1, TakeStep
<1>6. CASE DeleteStatus(m) # "Applied"
  <2>1. refs' = refs
    BY <1>6 DEF OnDelete
  <2>2. books' = books \/ \E k \in Locates : books' = PutBook(k, BookOf(k))
    BY <1>4, <1>6 DEF OnDelete
  <2> QED
    BY <1>2, <2>1, <2>2, QuietStep
<1> QED
  BY <1>5, <1>6

\* The replacement finds the slot its erasure freed.
LEMMA InsertAfterErase ==
  ASSUME IInv, NEW r \in LiveRefs, NEW q \in RefIds
  PROVE  CanInsert(Erase(refs, r), q)
<1>1. refs \in Table /\ r \in LiveIn(refs)
  BY DEF IInv, TypeOK, Table, LiveRefs
<1>2. Cardinality(LiveIn(refs)) <= RefCapacity
  BY DEF IInv, TableFits, LiveRefs
<1> QED
  BY <1>1, <1>2, EraseType, LiveFinite, RefCapacityAssumption DEF CanInsert

\* A Replace that passes its checks is applied: neither the table nor the book
\* refuses it, so the rollbacks are unreachable.
LEMMA ReplaceNeverRollsBack ==
  ASSUME IInv, NEW m, ReplaceFields(m)
  PROVE  ReplaceStatus(m) \notin {"ReferenceTableFull", "ResyncRequired"}
<1> DEFINE old == refs[m.ref]
           b == BookOf(old.locate)
<1>1. m.new_ref \in MsgRefs /\ m.price \in U32 /\ m.shares \in U32
  BY DEF ReplaceFields
<1>2. ASSUME m.ref \in LiveRefs, ValidReplace(m),
             CanReplace(b, old.side, old.price, old.shares, m.price, m.shares)
      PROVE  /\ CanInsert(Erase(refs, m.ref), m.new_ref)
             /\ ReplaceSucceeds(b, old.side, old.price, old.shares,
                                m.price, m.shares)
  <2>1. old \in Order
    BY <1>2, LiveIsOrder DEF LiveRefs, IInv, TypeOK, Table
  <2>2. b \in Book /\ old.shares \in U32
    BY <2>1, BookOfType DEF Order, IInv
  <2>3. m.new_ref \in RefIds
    BY <1>1, <1>2 DEF ValidReplace, MsgRefs
  <2> HIDE DEF b, old
  <2>4. ReplaceSucceeds(b, old.side, old.price, old.shares, m.price, m.shares)
    BY <1>1, <1>2, <2>2, ReplaceAlwaysSucceeds
  <2> QED
    BY <1>2, <2>3, <2>4, InsertAfterErase
<1> QED
  BY <1>2 DEF ReplaceStatus

LEMMA ReplaceStep ==
  ASSUME IInv, NEW m, ReplaceFields(m), OnReplace(m)
  PROVE  IInv'
<1> DEFINE old == refs[m.ref]
           b == BookOf(old.locate)
           c == Replace(b, old.side, old.price, old.shares, m.price, m.shares)
           new == [old EXCEPT !.price = m.price, !.shares = m.shares]
           e == Erase(refs, m.ref)
<1>1. ReplaceStatus(m) \in Statuses
  BY DEF ReplaceStatus, Statuses
<1>2. /\ last_status' \in Statuses /\ clean' \in BOOLEAN
      /\ exec' \in ExecResult
  BY <1>1, ReportType, NoExecType DEF OnReplace, IInv
<1>3. refs \in Table
  BY DEF IInv, TypeOK, Table
<1>4. m.new_ref \in MsgRefs /\ m.price \in U32 /\ m.shares \in U32
  BY DEF ReplaceFields
<1>5. ASSUME m.ref \in LiveRefs
      PROVE  /\ old \in Order /\ old.locate \in Locates /\ old.side \in Sides
             /\ old.price \in Prices /\ old.shares \in U32 /\ b \in Book
  <2>1. old \in Order
    BY <1>3, <1>5, LiveIsOrder DEF LiveRefs
  <2> QED
    BY <2>1, BookOfType DEF Order, IInv
<1>6. CASE ReplaceStatus(m) # "Applied"
  <2>1. ReplaceStatus(m) # "ResyncRequired"
    BY ReplaceNeverRollsBack
  <2>2. refs' = refs
    BY <1>6 DEF OnReplace
  <2>3. books' = books \/ \E k \in Locates : books' = PutBook(k, BookOf(k))
    BY <1>5, <1>6, <2>1 DEF OnReplace
  <2> QED
    BY <1>2, <2>2, <2>3, QuietStep
<1>7. CASE ReplaceStatus(m) = "Applied"
  <2>1. /\ m.ref \in LiveRefs /\ ValidReplace(m) /\ m.new_ref \notin LiveRefs
        /\ CanReplace(b, old.side, old.price, old.shares, m.price, m.shares)
    BY <1>7 DEF ReplaceStatus
  <2>2. /\ m.new_ref \in RefIds /\ m.price \in Prices /\ m.shares # 0
    BY <1>4, <2>1 DEF ValidReplace, MsgRefs
  <2>3. /\ new \in Order /\ new.locate = old.locate /\ new.side = old.side
        /\ new.price = m.price /\ new.shares = m.shares
    BY <1>4, <1>5, <2>1, <2>2 DEF Order
  <2>4. refs' = Insert(e, m.new_ref, new) /\ books' = PutBook(old.locate, c)
    BY <1>7 DEF OnReplace
  <2>5. c \in Book
    BY <1>4, <1>5, <2>1, ReplaceType
  <2>6. /\ e \in Table /\ LiveIn(e) = LiveIn(refs) \ {m.ref}
        /\ Cardinality(LiveIn(e)) = Cardinality(LiveIn(refs)) - 1
    BY <1>3, <2>1, EraseType DEF LiveRefs
  <2>7. m.new_ref \in RefIds \ LiveIn(e)
    BY <2>1, <2>2, <2>6 DEF LiveRefs
  <2>8. \A k, s, p :
          /\ OrderCount(refs, k, s, p)
               = OrderCount(e, k, s, p) + Counted(old, k, s, p, 1)
          /\ ShareTotal(refs, k, s, p)
               = ShareTotal(e, k, s, p) + Counted(old, k, s, p, old.shares)
    BY <1>3, <2>1, EraseTotals DEF LiveRefs
  <2> HIDE DEF e, new
  <2>9. \A k, s, p :
          /\ OrderCount(refs', k, s, p)
               = OrderCount(e, k, s, p) + Counted(new, k, s, p, 1)
          /\ ShareTotal(refs', k, s, p)
               = ShareTotal(e, k, s, p) + Counted(new, k, s, p, m.shares)
    BY <2>3, <2>4, <2>6, <2>7, InsertTotals
  <2>10. /\ books' \in Shelf
         /\ \A k \in Locates :
              BookOf(k)' = IF k = old.locate THEN c ELSE BookOf(k)
    BY <1>5, <2>1, <2>4, <2>5, PutBookOf DEF IInv
  <2>11. TypeOK'
    BY <1>2, <2>2, <2>3, <2>4, <2>6, <2>10, InsertType DEF TypeOK, Shelf, Table
  <2>12. TableFits'
    <3>1. LiveIn(refs') = LiveIn(e) \cup {m.new_ref}
      BY <2>2, <2>3, <2>4, <2>6, InsertType
    <3>2. Cardinality(LiveIn(refs')) = Cardinality(LiveIn(e)) + 1
      BY <2>7, <3>1, LiveFinite, FS_AddElement
    <3> QED
      BY <2>6, <3>2, LiveFinite, RefCapacityAssumption
         DEF TableFits, LiveRefs, IInv
  <2>13. LevelsMatchRefs'
    <3> SUFFICES ASSUME NEW k \in Locates, NEW s \in Sides, NEW p \in Prices
                 PROVE  /\ BookOf(k)'.orders[s][p] = OrderCount(refs', k, s, p)
                        /\ BookOf(k)'.shares[s][p] = ShareTotal(refs', k, s, p)
      BY DEF LevelsMatchRefs
    <3>1. /\ BookOf(k).orders[s][p] = OrderCount(refs, k, s, p)
          /\ BookOf(k).shares[s][p] = ShareTotal(refs, k, s, p)
      BY DEF IInv, LevelsMatchRefs
    <3>2. /\ OrderCount(e, k, s, p) \in Nat /\ ShareTotal(e, k, s, p) \in Nat
          /\ m.shares \in Nat /\ old.shares \in Nat
      BY <1>4, <1>5, <2>1, <2>6, TotalsNat DEF U32
    <3>3. CASE k = old.locate
      <4>1. /\ BookOf(k)'.shares[s][p]
                 = BookOf(k).shares[s][p]
                   - Here(s, p, old.side, old.price, old.shares)
                   + Here(s, p, old.side, m.price, m.shares)
            /\ BookOf(k)'.orders[s][p]
                 = BookOf(k).orders[s][p]
                   - Here(s, p, old.side, old.price, 1)
                   + Here(s, p, old.side, m.price, 1)
        <5>1. /\ b \in Book /\ old.shares \in U32
              /\ CanReplace(b, old.side, old.price, old.shares, m.price, m.shares)
          BY <1>5, <2>1
        <5>2. BookOf(k) = b /\ BookOf(k)' = c
          BY <2>10, <3>3
        <5> HIDE DEF old, b
        <5>3. /\ c.shares[s][p]
                   = b.shares[s][p]
                     - Here(s, p, old.side, old.price, old.shares)
                     + Here(s, p, old.side, m.price, m.shares)
              /\ c.orders[s][p]
                   = b.orders[s][p]
                     - Here(s, p, old.side, old.price, 1)
                     + Here(s, p, old.side, m.price, 1)
          BY <5>1, <1>4, ReplaceLevels
        <5> HIDE DEF c
        <5> QED
          BY <5>2, <5>3
      <4> HIDE DEF old
      <4>2. /\ Counted(old, k, s, p, old.shares)
                 = Here(s, p, old.side, old.price, old.shares)
            /\ Counted(old, k, s, p, 1) = Here(s, p, old.side, old.price, 1)
        BY <3>2, <3>3, CountedHere
      <4>4. /\ Counted(new, k, s, p, m.shares)
                 = Here(s, p, new.side, new.price, m.shares)
            /\ Counted(new, k, s, p, 1) = Here(s, p, new.side, new.price, 1)
        <5>1. k = new.locate
          BY <2>3, <3>3
        <5> QED
          BY <5>1, <3>2, CountedHere
      <4>3. /\ Counted(old, k, s, p, old.shares) \in Nat
            /\ Counted(old, k, s, p, 1) \in Nat
            /\ Counted(new, k, s, p, m.shares) \in Nat
            /\ Counted(new, k, s, p, 1) \in Nat
        BY <3>2, CountedHere
      <4> QED
        BY <4>1, <4>2, <4>4, <4>3, <2>3, <2>8, <2>9, <3>1, <3>2
    <3>4. CASE k # old.locate
      <4>1. /\ Counted(old, k, s, p, old.shares) = 0
            /\ Counted(old, k, s, p, 1) = 0
            /\ Counted(new, k, s, p, m.shares) = 0
            /\ Counted(new, k, s, p, 1) = 0
        BY <2>3, <3>2, <3>4, CountedHere
      <4> HIDE DEF old
      <4> QED
        BY <4>1, <2>8, <2>9, <2>10, <3>1, <3>2, <3>4
    <3> QED
      BY <3>3, <3>4
  <2> QED
    BY <2>11, <2>12, <2>13 DEF IInv
<1> QED
  BY <1>6, <1>7

LEMMA TradeStep ==
  ASSUME IInv, NEW m, TradeFields(m), OnTrade(m)
  PROVE  IInv'
<1>1. /\ m.locate \in MsgLocates /\ m.price \in U32 /\ m.shares \in U32
  BY DEF TradeFields
<1>2. exec' \in ExecResult
  BY <1>1 DEF OnTrade, ExecResult
<1>3. last_status' \in Statuses /\ clean' \in BOOLEAN
  BY ReportType DEF OnTrade, IInv, Statuses
<1> QED
  BY <1>2, <1>3, QuietStep DEF OnTrade

LEMMA OtherStep ==
  ASSUME IInv, NEW m, OnOther(m)
  PROVE  IInv'
<1>1. last_status' \in Statuses /\ clean' \in BOOLEAN
  BY ReportType DEF OnOther, IInv, Statuses
<1> QED
  BY <1>1, NoExecType, QuietStep DEF OnOther

LEMMA InitInv == Init => IInv
<1> SUFFICES ASSUME Init PROVE IInv
  OBVIOUS
<1>1. LiveIn(refs) = {}
  BY DEF Init, LiveIn
<1>2. TypeOK
  BY NoExecType DEF Init, TypeOK, Statuses
<1>3. TableFits
  BY <1>1, FS_EmptySet, RefCapacityAssumption DEF TableFits, LiveRefs
<1>4. LevelsMatchRefs
  <2> SUFFICES ASSUME NEW l \in Locates, NEW s \in Sides, NEW p \in Prices
               PROVE  /\ BookOf(l).orders[s][p] = OrderCount(refs, l, s, p)
                      /\ BookOf(l).shares[s][p] = ShareTotal(refs, l, s, p)
    BY DEF LevelsMatchRefs
  <2>1. OrdersAt(refs, l, s, p) = {}
    BY <1>1 DEF OrdersAt
  <2>2. SharesOf(refs, OrdersAt(refs, l, s, p)) = {}
    BY <2>1 DEF SharesOf
  <2>3. OrderCount(refs, l, s, p) = 0 /\ ShareTotal(refs, l, s, p) = 0
    BY <2>1, <2>2, FS_EmptySet DEF OrderCount, ShareTotal
  <2>4. BookOf(l) = EmptyBook
    BY DEF Init, BookOf
  <2>5. EmptyBook.orders[s][p] = 0 /\ EmptyBook.shares[s][p] = 0
    BY DEF EmptyBook
  <2> QED
    BY <2>3, <2>4, <2>5
<1> QED
  BY <1>2, <1>3, <1>4 DEF IInv

\* Every message a handler can meet keeps the invariant.
LEMMA HandlesInv == IInv /\ Handles => IInv'
BY AddStep, ReduceStep, DeleteStep, ReplaceStep, TradeStep, OtherStep
   DEF Handles

LEMMA NextInv == IInv /\ [Next]_vars => IInv'
<1>1. IInv /\ UNCHANGED vars => IInv'
  BY DEF vars, IInv, TypeOK, LevelsMatchRefs, TableFits, LiveRefs, BookOf
<1> QED
  BY <1>1, HandlesInv, NextHandles

-----------------------------------------------------------------------------
\* The handlers keep the inductive invariant from the empty engine on.
THEOREM Inductive == Spec => []IInv
BY InitInv, NextInv, PTL DEF Spec

\* The variables keep their types: in particular no share total or order count
\* of a level overflows or drops below zero.
THEOREM TypeCorrect == Spec => []TypeOK
<1>1. IInv => TypeOK
  BY DEF IInv
<1> QED
  BY <1>1, Inductive, PTL

\* Every level counts and totals exactly the live orders that rest at it,
\* whatever messages were applied and whichever of them were rejected.
THEOREM BooksMatchTable == Spec => []LevelsMatchRefs
<1>1. IInv => LevelsMatchRefs
  BY DEF IInv
<1> QED
  BY <1>1, Inductive, PTL

\* The table stays within its capacity.
THEOREM TableWithinCapacity == Spec => []TableFits
<1>1. IInv => TableFits
  BY DEF IInv
<1> QED
  BY <1>1, Inductive, PTL

\* No message can make a handler find the table and the book at odds or roll
\* back half of a Replace.
THEOREM NoRollback == Spec => []RollbacksUnreachable
<1>1. IInv => RollbacksUnreachable
  <2> SUFFICES ASSUME IInv PROVE RollbacksUnreachable
    OBVIOUS
  <2>1. ASSUME NEW m \in ReduceMsgs PROVE ReduceStatus(m) # "ResyncRequired"
    <3>1. ASSUME m.shares # 0, m.ref \in LiveRefs, ~(m.shares > refs[m.ref].shares)
          PROVE  CanReduceBy(m.ref, m.shares)
      <4>1. refs[m.ref].shares \in U32 /\ m.shares \in U32
        BY <3>1, MsgType, LiveIsOrder
           DEF ReduceFields, IInv, TypeOK, Table, LiveRefs, Order
      <4> QED
        BY <3>1, <4>1, CanReduceHolds, MaxU32Assumption DEF U32
    <3> QED
      BY <3>1 DEF ReduceStatus
  <2>2. ASSUME NEW m \in DeleteMsgs PROVE DeleteStatus(m) # "ResyncRequired"
    <3>1. ASSUME m.ref \in LiveRefs
          PROVE  CanReduceBy(m.ref, refs[m.ref].shares)
      <4>1. /\ refs[m.ref].shares \in U32 /\ refs[m.ref].shares # 0
            /\ refs[m.ref].shares <= refs[m.ref].shares
        BY <3>1, LiveIsOrder DEF IInv, TypeOK, Table, LiveRefs, Order, U32
      <4> QED
        BY <3>1, <4>1, CanReduceHolds
    <3> QED
      BY <3>1 DEF DeleteStatus
  <2> QED
    BY <2>1, <2>2, MsgType, ReplaceNeverRollsBack DEF RollbacksUnreachable
<1> QED
  BY <1>1, Inductive, PTL

-----------------------------------------------------------------------------
(* Atomicity of a rejection and the best prices. *)

Rejected == last_status' \notin {"Ignored", "Applied"}

Quiet == refs' = refs /\ \A l \in Locates : BookOf(l)' = BookOf(l)

LEMMA LiveLocate ==
  ASSUME TypeOK, NEW r \in LiveRefs
  PROVE  /\ refs[r] \in Order /\ refs[r].locate \in Locates
         /\ refs[r].side \in Sides /\ refs[r].price \in Prices
         /\ refs[r].shares \in U32 /\ BookOf(refs[r].locate) \in Book
<1>1. refs[r] \in Order
  BY LiveIsOrder DEF TypeOK, Table, LiveRefs
<1> QED
  BY <1>1, BookOfType DEF Order

LEMMA RejectedIsQuiet ==
  ASSUME IInv, Handles, Rejected
  PROVE  Quiet
<1> USE DEF IInv
<1>1. CASE \E m : AddFields(m) /\ OnAdd(m)
  <2>1. PICK m : AddFields(m) /\ OnAdd(m)
    BY <1>1
  <2>2. AddStatus(m) # "Applied"
    BY <2>1 DEF OnAdd, Report, Rejected
  <2>3. ValidAdd(m) => m.locate \in Locates
    BY <2>1 DEF AddFields, ValidAdd, MsgLocates
  <2> QED
    BY <2>1, <2>2, <2>3, SameBooks DEF OnAdd, Quiet
<1>2. CASE \E m : ReduceFields(m) /\ OnReduce(m)
  <2>1. PICK m : ReduceFields(m) /\ OnReduce(m)
    BY <1>2
  <2>2. ReduceStatus(m) # "Applied"
    BY <2>1 DEF OnReduce, Report, Rejected
  <2>3. ReduceStatus(m) = "ResyncRequired" => refs[m.ref].locate \in Locates
    BY LiveLocate DEF ReduceStatus
  <2> QED
    BY <2>1, <2>2, <2>3, SameBooks DEF OnReduce, Quiet
<1>3. CASE \E m : OnDelete(m)
  <2>1. PICK m : OnDelete(m)
    BY <1>3
  <2>2. DeleteStatus(m) # "Applied"
    BY <2>1 DEF OnDelete, Report, Rejected
  <2>3. DeleteStatus(m) = "ResyncRequired" => refs[m.ref].locate \in Locates
    BY LiveLocate DEF DeleteStatus
  <2> QED
    BY <2>1, <2>2, <2>3, SameBooks DEF OnDelete, Quiet
<1>4. CASE \E m : ReplaceFields(m) /\ OnReplace(m)
  <2>1. PICK m : ReplaceFields(m) /\ OnReplace(m)
    BY <1>4
  <2>2. ReplaceStatus(m) \notin {"Applied", "ResyncRequired"}
    BY <2>1, ReplaceNeverRollsBack DEF OnReplace, Report, Rejected
  <2>3. m.ref \in LiveRefs => refs[m.ref].locate \in Locates
    BY LiveLocate
  <2> QED
    BY <2>1, <2>2, <2>3, SameBooks DEF OnReplace, Quiet
<1>5. CASE \E m : OnTrade(m)
  BY <1>5 DEF OnTrade, Report, Rejected
<1>6. CASE \E m : OnOther(m)
  BY <1>6 DEF OnOther, Report, Rejected
<1> QED
  BY <1>1, <1>2, <1>3, <1>4, <1>5, <1>6 DEF Handles

\* A rejected message changes neither the table nor any level of any book.
THEOREM RejectionsAreAtomic == Spec => RejectIsAtomic
<1>1. IInv /\ [Next]_vars =>
        [last_status' \notin {"Ignored", "Applied"} =>
           /\ refs' = refs
           /\ \A l \in Locates : BookOf(l)' = BookOf(l)]_vars
  BY RejectedIsQuiet, NextHandles DEF Rejected, Quiet
<1> QED
  BY <1>1, Inductive, PTL DEF Spec, RejectIsAtomic

\* What a step may do to a book: one of the operations of OrderBook under its
\* guard, or nothing.
BookStep(l) ==
  LET b == BookOf(l)
  IN  \/ BookOf(l)' = b
      \/ \E side, price : \E qty \in U32 :
           CanAdd(b, side, price, qty) /\ BookOf(l)' = Add(b, side, price, qty)
      \/ \E side, price : \E qty \in U32, gone \in BOOLEAN :
           /\ CanRemove(b, side, price, qty, gone)
           /\ BookOf(l)' = Remove(b, side, price, qty, gone)
      \/ \E side, oldPrice, price : \E oldQty, qty \in U32 :
           BookOf(l)' = Replace(b, side, oldPrice, oldQty, price, qty)

LEMMA TakeBookStep ==
  ASSUME IInv, NEW r \in LiveRefs, NEW qty \in U32, qty # 0,
         qty <= refs[r].shares,
         books' = PutBook(refs[r].locate, BookAfterReduce(r, qty)),
         NEW l \in Locates
  PROVE  BookStep(l)
<1> DEFINE o == refs[r]
           b == BookOf(o.locate)
           c == Remove(b, o.side, o.price, qty, o.shares = qty)
<1>1. CanRemove(b, o.side, o.price, qty, o.shares = qty) /\ b \in Book
  BY CanReduceHolds, LiveLocate DEF CanReduceBy, IInv
<1>2. c \in Book
  BY <1>1, RemoveType
<1>3. BookOf(l)' = IF l = o.locate THEN c ELSE BookOf(l)
  BY <1>2, LiveLocate, PutBookOf DEF BookAfterReduce, IInv
<1>4. PICK gone \in BOOLEAN : gone = (o.shares = qty)
  OBVIOUS
<1>5. c = Remove(b, o.side, o.price, qty, gone)
      /\ CanRemove(b, o.side, o.price, qty, gone)
  BY <1>1, <1>4
<1> HIDE DEF o, b, c
<1>6. CASE l = o.locate
  BY <1>3, <1>5, <1>6 DEF BookStep, b
<1>7. CASE l # o.locate
  BY <1>3, <1>7 DEF BookStep
<1> QED
  BY <1>6, <1>7

LEMMA EveryStepIsABookStep ==
  ASSUME IInv, [Handles]_vars, NEW l \in Locates
  PROVE  BookStep(l)
<1> USE DEF IInv
<1>1. CASE Handles /\ Rejected
  BY <1>1, RejectedIsQuiet DEF Quiet, BookStep
<1>2. CASE UNCHANGED vars
  BY <1>2 DEF vars, BookOf, BookStep
<1>3. CASE ~Rejected /\ \E m : AddFields(m) /\ OnAdd(m)
  <2>1. PICK m : AddFields(m) /\ OnAdd(m)
    BY <1>3
  <2>2. AddStatus(m) = "Applied"
    BY <1>3, <2>1 DEF OnAdd, Report, Rejected, AddStatus
  <2> DEFINE b == BookOf(m.locate)
             c == Add(b, m.side, m.price, m.shares)
  <2>3. /\ CanAdd(b, m.side, m.price, m.shares) /\ m.shares \in U32
        /\ m.locate \in Locates /\ books' = PutBook(m.locate, c)
    BY <2>1, <2>2 DEF AddFields, OnAdd, AddStatus, ValidAdd, MsgLocates
  <2>4. c \in Book
    BY <2>3, BookOfType, AddType
  <2>5. BookOf(l)' = IF l = m.locate THEN c ELSE BookOf(l)
    BY <2>3, <2>4, PutBookOf
  <2>6. CASE l = m.locate
    BY <2>3, <2>5, <2>6 DEF BookStep
  <2>7. CASE l # m.locate
    BY <2>5, <2>7 DEF BookStep
  <2> QED
    BY <2>6, <2>7
<1>4. CASE ~Rejected /\ \E m : ReduceFields(m) /\ OnReduce(m)
  <2>1. PICK m : ReduceFields(m) /\ OnReduce(m)
    BY <1>4
  <2>2. ReduceStatus(m) = "Applied"
    BY <1>4, <2>1 DEF OnReduce, Report, Rejected, ReduceStatus
  <2>3. /\ m.ref \in LiveRefs /\ m.shares # 0 /\ m.shares \in U32
        /\ ~(m.shares > refs[m.ref].shares)
        /\ books' = PutBook(refs[m.ref].locate, BookAfterReduce(m.ref, m.shares))
    BY <2>1, <2>2 DEF ReduceFields, OnReduce, ReduceStatus
  <2>4. m.shares <= refs[m.ref].shares
    BY <2>3, LiveLocate, MaxU32Assumption DEF U32
  <2> QED
    BY <2>3, <2>4, TakeBookStep
<1>5. CASE ~Rejected /\ \E m : OnDelete(m)
  <2>1. PICK m : OnDelete(m)
    BY <1>5
  <2>2. DeleteStatus(m) = "Applied"
    BY <1>5, <2>1 DEF OnDelete, Report, Rejected, DeleteStatus
  <2>3. /\ m.ref \in LiveRefs
        /\ books' = PutBook(refs[m.ref].locate,
                            BookAfterReduce(m.ref, refs[m.ref].shares))
    BY <2>1, <2>2 DEF OnDelete, DeleteStatus
  <2>4. /\ refs[m.ref].shares \in U32 /\ refs[m.ref].shares # 0
        /\ refs[m.ref].shares <= refs[m.ref].shares
    BY <2>3, LiveLocate DEF Order, U32
  <2> QED
    BY <2>3, <2>4, TakeBookStep
<1>6. CASE ~Rejected /\ \E m : ReplaceFields(m) /\ OnReplace(m)
  <2>1. PICK m : ReplaceFields(m) /\ OnReplace(m)
    BY <1>6
  <2>2. ReplaceStatus(m) = "Applied"
    BY <1>6, <2>1 DEF OnReplace, Report, Rejected, ReplaceStatus
  <2> DEFINE old == refs[m.ref]
             b == BookOf(old.locate)
             c == Replace(b, old.side, old.price, old.shares, m.price, m.shares)
  <2>3. m.ref \in LiveRefs /\ books' = PutBook(old.locate, c) /\ m.shares \in U32
    BY <2>1, <2>2 DEF ReplaceFields, OnReplace, ReplaceStatus
  <2>4. old.locate \in Locates /\ old.shares \in U32 /\ b \in Book
    BY <2>3, LiveLocate
  <2>5. c \in Book
    BY <2>3, <2>4, ReplaceType
  <2>6. BookOf(l)' = IF l = old.locate THEN c ELSE BookOf(l)
    BY <2>3, <2>4, <2>5, PutBookOf
  <2>7. CASE l = old.locate
    BY <2>3, <2>4, <2>6, <2>7 DEF BookStep
  <2>8. CASE l # old.locate
    BY <2>6, <2>8 DEF BookStep
  <2> QED
    BY <2>7, <2>8
<1>7. CASE (\E m : OnTrade(m)) \/ (\E m : OnOther(m))
  BY <1>7 DEF OnTrade, OnOther, BookOf, BookStep
<1> QED
  BY <1>1, <1>2, <1>3, <1>4, <1>5, <1>6, <1>7 DEF Handles

\* No level's total has its top bit set in a build whose scans are vectorised.
TotalsFitVector ==
  \A l \in Locates, s \in Sides : VectorSafe(BookOf(l).shares[s])

LEMMA BestStep ==
  IInv /\ BestIsExtreme /\ TotalsFitVector /\ [Handles]_vars => BestIsExtreme'
<1> SUFFICES ASSUME IInv, BestIsExtreme, TotalsFitVector, [Handles]_vars,
                    NEW l \in Locates
             PROVE  BestIsRight(BookOf(l)')
  BY DEF BestIsExtreme, BestIsRight
<1> DEFINE b == BookOf(l)
<1>1. /\ b \in Book /\ BestIsRight(b)
      /\ \A s \in Sides : VectorSafe(b.shares[s])
  BY BookOfType DEF IInv, BestIsExtreme, BestIsRight, TotalsFitVector
<1>2. BookStep(l)
  BY EveryStepIsABookStep
<1>3. CASE BookOf(l)' = b
  BY <1>1, <1>3
<1>4. ASSUME NEW side, NEW price, NEW qty \in U32, CanAdd(b, side, price, qty),
             BookOf(l)' = Add(b, side, price, qty)
      PROVE  BestIsRight(BookOf(l)')
  BY <1>1, <1>4, AddBest
<1>5. ASSUME NEW side, NEW price, NEW qty \in U32, NEW gone \in BOOLEAN,
             CanRemove(b, side, price, qty, gone),
             BookOf(l)' = Remove(b, side, price, qty, gone)
      PROVE  BestIsRight(BookOf(l)')
  <2>1. side \in Sides
    BY <1>5 DEF CanRemove
  <2> QED
    BY <1>1, <1>5, <2>1, RemoveBest
<1>6. ASSUME NEW side, NEW oldPrice, NEW price, NEW oldQty \in U32,
             NEW qty \in U32,
             BookOf(l)' = Replace(b, side, oldPrice, oldQty, price, qty)
      PROVE  BestIsRight(BookOf(l)')
  BY <1>1, <1>6, ReplaceBest
<1> QED
  BY <1>2, <1>3, <1>4, <1>5, <1>6 DEF BookStep

LEMMA BestInit == Init => BestIsExtreme
<1> SUFFICES ASSUME Init, NEW l \in Locates, NEW s \in Sides
             PROVE  BookOf(l).best[s] = BestPrice(s, BookOf(l).shares[s])
  BY DEF BestIsExtreme
<1>1. BookOf(l) = EmptyBook
  BY DEF Init, BookOf
<1>2. EmptyBook.best[s] = 0 /\ NonEmpty(EmptyBook.shares[s]) = {}
  BY DEF EmptyBook, NonEmpty
<1> QED
  BY <1>1, <1>2 DEF BestPrice, Highest, Lowest

\* As long as no total has its top bit set, a vectorised build keeps the best
\* prices at the extreme nonempty levels.
THEOREM VectorBestCorrect == Spec /\ []TotalsFitVector => []BestIsExtreme
<1>1. [Next]_vars => [Handles]_vars
  BY NextHandles
<1> QED
  BY <1>1, BestInit, BestStep, Inductive, PTL DEF Spec

\* The scalar build keeps them there always.
THEOREM ScalarBestCorrect ==
  ASSUME ~Simd
  PROVE  Spec => []BestIsExtreme
<1>1. TotalsFitVector
  BY DEF TotalsFitVector, VectorSafe
<1> QED
  BY <1>1, VectorBestCorrect, PTL

-----------------------------------------------------------------------------
(* An execution takes the shares it publishes off one order. *)

LEMMA UnitOf ==
  ASSUME NEW t, NEW rs, NEW u
  PROVE  u \in SharesOf(t, rs) <=>
           \E q \in rs : \E i \in 1 .. t[q].shares : u = <<q, i>>
BY DEF SharesOf

\* The units that leave a table whose order r loses qty shares are the last
\* qty of that order.
LEMMA TakeUnits ==
  ASSUME NEW t \in Table, NEW r \in LiveIn(t), NEW qty \in U32,
         qty # 0, qty <= t[r].shares
  PROVE  LET before == SharesOf(t, LiveIn(t))
             after  == SharesOf(After(t, r, qty), LiveIn(After(t, r, qty)))
         IN  /\ after \subseteq before
             /\ Cardinality(before \ after) = qty
             /\ \A u \in before \ after : u[1] = r
<1> DEFINE n == t[r].shares
           a == After(t, r, qty)
           Gone == {r} \X (n - qty + 1 .. n)
           before == SharesOf(t, LiveIn(t))
           after == SharesOf(a, LiveIn(a))
<1>1. n \in Nat /\ qty \in Nat /\ qty <= n
  BY LiveIsOrder DEF Order, U32
<1>2. /\ \A q \in LiveIn(t) \ {r} : q \in LiveIn(a) /\ a[q] = t[q]
      /\ LiveIn(a) \subseteq LiveIn(t)
      /\ qty = n => r \notin LiveIn(a)
      /\ qty # n => r \in LiveIn(a) /\ a[r].shares = n - qty
  <2>1. r \in RefIds /\ t[r] \in Order
    BY EraseType
  <2>2. CASE qty = n
    BY <2>1, <2>2, EraseType DEF After, Erase, Table, LiveIn
  <2>3. CASE qty # n
    <3>1. [t[r] EXCEPT !.shares = @ - qty] \in Order
      BY <1>1, <2>1, <2>3, MaxU32Assumption DEF Order, U32
    <3>2. a = Insert(t, r, [t[r] EXCEPT !.shares = @ - qty])
      BY <2>1, <2>3 DEF After, Insert, Table
    <3>3. [t[r] EXCEPT !.shares = @ - qty].shares = n - qty
      BY <2>1 DEF Order
    <3> DEFINE o == [t[r] EXCEPT !.shares = @ - qty]
    <3> HIDE DEF o
    <3>4. /\ LiveIn(a) = LiveIn(t) \cup {r}
          /\ \A q \in RefIds : a[q] = IF q = r THEN o ELSE t[q]
      BY <2>1, <3>1, <3>2, InsertType DEF o
    <3>5. o.shares = n - qty /\ LiveIn(t) \subseteq RefIds
      BY <3>3, LiveFinite DEF o
    <3> HIDE DEF a, n
    <3> QED
      BY <2>1, <2>3, <3>4, <3>5 DEF n
  <2> QED
    BY <2>2, <2>3
<1> HIDE DEF n, a
<1>3. \A i : i \in 1 .. n - qty <=> i \in 1 .. n /\ i \notin n - qty + 1 .. n
  BY <1>1
<1>4. ASSUME NEW u
      PROVE  /\ u \in after => u \in before /\ u \notin Gone
             /\ u \in before /\ u \notin Gone => u \in after
             /\ u \in Gone => u \in before
  <2>1. ASSUME u \in after PROVE u \in before /\ u \notin Gone
    <3>0. PICK q \in LiveIn(a) : \E i \in 1 .. a[q].shares : u = <<q, i>>
      BY <2>1, UnitOf
    <3>1. PICK i \in 1 .. a[q].shares : u = <<q, i>>
      BY <3>0
    <3>2. q \in LiveIn(t) /\ i \in 1 .. t[q].shares /\ <<q, i>> \notin Gone
      <4>1. CASE q = r
        BY <4>1, <1>2, <1>3, <3>1 DEF n
      <4>2. CASE q # r
        BY <4>2, <1>2, <3>1
      <4> QED
        BY <4>1, <4>2
    <3> QED
      BY <3>1, <3>2, UnitOf
  <2>2. ASSUME u \in before, u \notin Gone PROVE u \in after
    <3>0. PICK q \in LiveIn(t) : \E i \in 1 .. t[q].shares : u = <<q, i>>
      BY <2>2, UnitOf
    <3>1. PICK i \in 1 .. t[q].shares : u = <<q, i>>
      BY <3>0
    <3>2. q \in LiveIn(a) /\ i \in 1 .. a[q].shares
      <4>1. CASE q = r
        <5>1. i \in 1 .. n /\ i \notin n - qty + 1 .. n
          BY <4>1, <2>2, <3>1 DEF n
        <5>2. i \in 1 .. n - qty
          BY <5>1, <1>3
        <5>3. qty # n
          BY <5>2, <1>1
        <5> QED
          BY <4>1, <5>2, <5>3, <1>2
      <4>2. CASE q # r
        BY <4>2, <1>2, <3>1
      <4> QED
        BY <4>1, <4>2
    <3> QED
      BY <3>1, <3>2, UnitOf
  <2>3. ASSUME u \in Gone PROVE u \in before
    <3>1. PICK i \in n - qty + 1 .. n : u = <<r, i>>
      BY <2>3
    <3>2. i \in 1 .. t[r].shares
      BY <1>1, <3>1 DEF n
    <3> QED
      BY <3>1, <3>2, UnitOf
  <2> QED
    BY <2>1, <2>2, <2>3
<1>5. before \ after = Gone /\ after \subseteq before
  BY <1>4
<1>6. Cardinality(Gone) = qty
  <2>1. IsFiniteSet({r}) /\ Cardinality({r}) = 1
    BY FS_Singleton
  <2>2. /\ IsFiniteSet(n - qty + 1 .. n)
        /\ Cardinality(n - qty + 1 .. n) = qty
    BY <1>1, FS_Interval
  <2>3. Cardinality(Gone) = 1 * Cardinality(n - qty + 1 .. n)
    BY <2>1, <2>2, FS_Product, Zenon
  <2> QED
    BY <1>1, <2>2, <2>3
<1>7. \A u \in Gone : u[1] = r
  OBVIOUS
<1> HIDE DEF Gone
<1> QED
  BY <1>5, <1>6, <1>7 DEF a

LEMMA PublishedStep ==
  ASSUME IInv, [Next]_vars, exec' # NoExec, refs' # refs
  PROVE  \E r \in LiveRefs : \E qty \in U32 :
           /\ qty # 0 /\ qty <= refs[r].shares
           /\ refs' = After(refs, r, qty)
           /\ exec'.shares = qty /\ exec'.locate = refs[r].locate
<1>1. PICK m \in ReduceMsgs : OnReduce(m)
  BY DEF Next, vars, OnAdd, OnDelete, OnReplace, OnTrade, OnOther
<1>2. ReduceStatus(m) = "Applied" /\ exec' = ExecOf(m)
  BY <1>1 DEF OnReduce
<1>3. /\ m.ref \in LiveRefs /\ m.shares # 0 /\ m.shares \in U32
      /\ ~(m.shares > refs[m.ref].shares)
  BY <1>2, MsgType DEF ReduceFields, ReduceStatus
<1>4. m.shares <= refs[m.ref].shares
  BY <1>3, LiveLocate, MaxU32Assumption DEF U32, IInv
<1>5. refs' = After(refs, m.ref, m.shares)
  BY <1>1, <1>2 DEF OnReduce, RefsAfterReduce, After
<1>6. exec'.shares = m.shares /\ exec'.locate = refs[m.ref].locate
  BY <1>2 DEF ExecOf
<1> QED
  BY <1>3, <1>4, <1>5, <1>6

\* What is published to the statistics as executed left the table: exactly
\* that many shares, all of them from a live order of the published locate.
THEOREM ExecutionsAreTaken == Spec => ExecutionsLeaveTheBook
<1>1. IInv /\ [Next]_vars =>
        [exec' # NoExec /\ refs' # refs =>
           LET before == SharesOf(refs, LiveRefs)
               after  == SharesOf(refs', LiveIn(refs'))
           IN  /\ after \subseteq before
               /\ Cardinality(before \ after) = exec'.shares
               /\ \A u \in before \ after : refs[u[1]].locate = exec'.locate]_vars
  <2> SUFFICES ASSUME IInv, [Next]_vars, exec' # NoExec, refs' # refs
               PROVE  LET before == SharesOf(refs, LiveRefs)
                          after  == SharesOf(refs', LiveIn(refs'))
                      IN  /\ after \subseteq before
                          /\ Cardinality(before \ after) = exec'.shares
                          /\ \A u \in before \ after :
                               refs[u[1]].locate = exec'.locate
    OBVIOUS
  <2>1. PICK r \in LiveRefs, qty \in U32 :
          /\ qty # 0 /\ qty <= refs[r].shares
          /\ refs' = After(refs, r, qty)
          /\ exec'.shares = qty /\ exec'.locate = refs[r].locate
    BY PublishedStep
  <2>2. refs \in Table /\ r \in LiveIn(refs)
    BY DEF IInv, TypeOK, Table, LiveRefs
  <2> QED
    BY <2>1, <2>2, TakeUnits DEF LiveRefs
<1> QED
  BY <1>1, Inductive, PTL DEF Spec, ExecutionsLeaveTheBook
=============================================================================
