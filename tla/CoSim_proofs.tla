---------------------------- MODULE CoSim_proofs ----------------------------
(***************************************************************************)
(* Proofs about CoSim, for every set of references, locates and messages   *)
(* and for every band of prices of the generator: the engine and the       *)
(* oracle agree, and the generator keeps in step with the engine.          *)
(***************************************************************************)
EXTENDS CoSim, BookEngine_proofs, SequenceTheorems

-----------------------------------------------------------------------------
(* The oracle's arithmetic and maps. *)

\* uint32_t arithmetic that does not leave 0 .. MaxU32 is that of integers.
LEMMA NoWrap ==
  ASSUME NEW x \in U32, NEW y \in U32
  PROVE  /\ x <= MaxU32 - y => Oracle!U32Add(x, y) = x + y
         /\ y <= x => Oracle!U32Sub(x, y) = x - y
<1> DEFINE n == MaxU32 + 1
<1>1. n \in Nat \ {0} /\ \A d \in 0 .. n - 1 : d % n = d /\ (d + n) % n = d
  BY MaxU32Assumption
<1>2. ASSUME x <= MaxU32 - y PROVE Oracle!U32Add(x, y) = x + y
  <2>1. x + y \in 0 .. n - 1
    BY <1>2, MaxU32Assumption DEF U32
  <2> QED
    BY <1>1, <2>1 DEF Oracle!U32Add
<1>3. ASSUME y <= x PROVE Oracle!U32Sub(x, y) = x - y
  <2>1. x - y \in 0 .. n - 1 /\ x + (MaxU32 + 1) - y = (x - y) + n
    BY <1>3, MaxU32Assumption DEF U32
  <2>2. ((x - y) + n) % n = x - y
    BY <1>1, <2>1
  <2> QED
    BY <2>1, <2>2 DEF Oracle!U32Sub
<1> QED
  BY <1>2, <1>3

\* A side of the oracle holds what the level arrays of a side of the engine hold.
SideIs(sd, shares, orders) ==
  /\ DOMAIN sd.shares = NonEmpty(shares) /\ DOMAIN sd.orders = NonEmpty(shares)
  /\ \A p \in NonEmpty(shares) :
       sd.shares[p] = shares[p] /\ sd.orders[p] = orders[p]

LEMMA SideIsAt ==
  ASSUME NEW sd, NEW shares, NEW orders, SideIs(sd, shares, orders),
         NEW p \in Prices, shares[p] = 0 <=> orders[p] = 0
  PROVE  /\ Oracle!At(sd.shares, p) = shares[p]
         /\ Oracle!At(sd.orders, p) = orders[p]
BY DEF SideIs, NonEmpty, Oracle!At

LEMMA SideIsSame ==
  ASSUME NEW sd, NEW shares, NEW orders, SideIs(sd, shares, orders),
         NEW sh, NEW od,
         \A p \in Prices : sh[p] = shares[p] /\ od[p] = orders[p]
  PROVE  SideIs(sd, sh, od)
BY DEF SideIs, NonEmpty

\* Side::add does what add() does to the two arrays.
LEMMA SideAddIs ==
  ASSUME NEW sd, NEW shares \in [Prices -> U32], NEW orders \in [Prices -> U32],
         SideIs(sd, shares, orders), NEW price \in Prices, NEW qty \in U32,
         qty # 0, shares[price] = 0 <=> orders[price] = 0,
         shares[price] <= MaxU32 - qty, orders[price] # MaxU32
  PROVE  SideIs(Oracle!SideAdd(sd, price, qty),
                [shares EXCEPT ![price] = @ + qty],
                [orders EXCEPT ![price] = @ + 1])
<1> DEFINE c == Oracle!SideAdd(sd, price, qty)
           sh == [shares EXCEPT ![price] = @ + qty]
           od == [orders EXCEPT ![price] = @ + 1]
<1>1. /\ Oracle!At(sd.shares, price) = shares[price]
      /\ Oracle!At(sd.orders, price) = orders[price]
  BY SideIsAt
<1>2. /\ shares[price] \in U32 /\ orders[price] \in U32 /\ 1 \in U32
      /\ orders[price] <= MaxU32 - 1
  BY MaxU32Assumption DEF U32
<1>3. /\ Oracle!U32Add(shares[price], qty) = shares[price] + qty
      /\ Oracle!U32Add(orders[price], 1) = orders[price] + 1
  BY <1>2, NoWrap
<1>4. shares[price] + qty # 0
  BY <1>2, MaxU32Assumption DEF U32
<1>5. NonEmpty(sh) = NonEmpty(shares) \cup {price}
  BY <1>4 DEF NonEmpty
<1>6. /\ c.shares = Oracle!Put(sd.shares, price, shares[price] + qty)
      /\ c.orders = Oracle!Put(sd.orders, price, orders[price] + 1)
  BY <1>1, <1>3 DEF Oracle!SideAdd
<1> HIDE DEF c
<1>7. DOMAIN c.shares = NonEmpty(sh) /\ DOMAIN c.orders = NonEmpty(sh)
  BY <1>5, <1>6 DEF Oracle!Put, SideIs
<1>8. ASSUME NEW p \in NonEmpty(sh)
      PROVE  c.shares[p] = sh[p] /\ c.orders[p] = od[p]
  <2>1. p \in Prices
    BY DEF NonEmpty
  <2> QED
    BY <2>1, <1>5, <1>6, <1>8 DEF Oracle!Put, SideIs
<1> QED
  BY <1>7, <1>8 DEF SideIs, c

\* Side::reduce does what remove() does to the two arrays.
LEMMA SideReduceIs ==
  ASSUME NEW sd, NEW shares \in [Prices -> U32], NEW orders \in [Prices -> U32],
         SideIs(sd, shares, orders), NEW price \in Prices, NEW qty \in U32,
         qty # 0, qty <= shares[price], NEW gone \in BOOLEAN,
         gone => orders[price] # 0
  PROVE  SideIs(Oracle!SideReduce(sd, price, qty, gone),
                [shares EXCEPT ![price] = @ - qty],
                [orders EXCEPT ![price] = IF gone THEN @ - 1 ELSE @])
<1> DEFINE c == Oracle!SideReduce(sd, price, qty, gone)
           sh == [shares EXCEPT ![price] = @ - qty]
           od == [orders EXCEPT ![price] = IF gone THEN @ - 1 ELSE @]
           left == shares[price] - qty
<1>1. shares[price] \in U32 /\ shares[price] # 0 /\ orders[price] \in U32
  BY MaxU32Assumption DEF U32
<1>2. /\ price \in NonEmpty(shares) /\ sd.shares[price] = shares[price]
      /\ price \in DOMAIN sd.shares /\ Oracle!At(sd.orders, price) = orders[price]
  BY <1>1 DEF NonEmpty, SideIs, Oracle!At
<1>3. Oracle!U32Sub(sd.shares[price], qty) = left
  BY <1>1, <1>2, NoWrap
<1>4. \A p \in Prices : /\ p # price => sh[p] = shares[p] /\ od[p] = orders[p]
                        /\ p = price => sh[p] = left
  OBVIOUS
<1>5. gone => orders[price] > 0
  BY <1>1 DEF U32
<1>6. NonEmpty(sh) = IF left = 0 THEN NonEmpty(shares) \ {price} ELSE NonEmpty(shares)
  BY <1>1, <1>4 DEF NonEmpty
<1>7. CASE left = 0
  <2>1. /\ c.shares = Oracle!Drop(sd.shares, price)
        /\ c.orders = Oracle!Drop(sd.orders, price)
    BY <1>2, <1>3, <1>7 DEF Oracle!SideReduce
  <2> HIDE DEF c, left, sh, od
  <2>2. NonEmpty(shares) \subseteq Prices
    BY DEF NonEmpty
  <2>3. SideIs(c, sh, od)
    BY <2>1, <2>2, <1>4, <1>6, <1>7 DEF Oracle!Drop, SideIs
  <2> QED
    BY <2>3 DEF c, sh, od
<1>8. CASE left # 0
  <2>1. /\ c.shares = Oracle!Put(sd.shares, price, left)
        /\ c.orders = IF gone THEN Oracle!Put(sd.orders, price, orders[price] - 1)
                      ELSE sd.orders
    BY <1>2, <1>3, <1>5, <1>8 DEF Oracle!SideReduce
  <2>2. od[price] = IF gone THEN orders[price] - 1 ELSE orders[price]
    OBVIOUS
  <2> HIDE DEF c, left, sh, od
  <2>3. NonEmpty(shares) \subseteq Prices
    BY DEF NonEmpty
  <2>4. DOMAIN c.shares = NonEmpty(sh) /\ DOMAIN c.orders = NonEmpty(sh)
    BY <2>1, <1>2, <1>6, <1>8 DEF Oracle!Put, SideIs
  <2>5. ASSUME NEW p \in NonEmpty(sh)
        PROVE  c.shares[p] = sh[p] /\ c.orders[p] = od[p]
    BY <2>1, <2>2, <2>3, <1>2, <1>4, <1>6, <1>8 DEF Oracle!Put, SideIs
  <2>6. SideIs(c, sh, od)
    BY <2>4, <2>5 DEF SideIs
  <2> QED
    BY <2>6 DEF c, sh, od
<1> QED
  BY <1>7, <1>8

-----------------------------------------------------------------------------
(* The agreement of the two books. *)

OracleSide(l, s) == Oracle!SideOf(Oracle!BookAt(l), s)

\* The agreement that a step preserves: the oracle's keys are the engine's
\* nonempty levels, with the same totals and counts.
Agree ==
  /\ OrdersAgree
  /\ \A l \in Locates : LET b == Oracle!BookAt(l)
                        IN  b = [bid |-> b.bid, ask |-> b.ask]
  /\ \A l \in Locates, s \in Sides :
       SideIs(OracleSide(l, s), BookOf(l).shares[s], BookOf(l).orders[s])

CoInv == clean => Agree

\* Storing a side of a book changes no other.
LEMMA PutSideIs ==
  ASSUME \A k \in Locates : LET b == Oracle!BookAt(k)
                            IN  b = [bid |-> b.bid, ask |-> b.ask],
         NEW l \in Locates, NEW side \in Sides, NEW sd,
         Oracle!PutSide(l, side, sd)
  PROVE  /\ \A k \in Locates : LET b == Oracle!BookAt(k)'
                               IN  b = [bid |-> b.bid, ask |-> b.ask]
         /\ \A k \in Locates, s \in Sides :
              OracleSide(k, s)' = IF k = l /\ s = side THEN sd ELSE OracleSide(k, s)
<1> DEFINE b == Oracle!BookAt(l)
           c == Oracle!WithSide(b, side, sd)
<1>1. \A k \in Locates : Oracle!BookAt(k)' = IF k = l THEN c ELSE Oracle!BookAt(k)
  BY DEF Oracle!BookAt, Oracle!PutSide, Oracle!Put
<1>2. b = [bid |-> b.bid, ask |-> b.ask]
  OBVIOUS
<1>3. c = IF side = BUY THEN [bid |-> sd, ask |-> b.ask]
          ELSE [bid |-> b.bid, ask |-> sd]
  BY <1>2 DEF Oracle!WithSide
<1>4. c = [bid |-> c.bid, ask |-> c.ask]
  BY <1>3
<1>5. \A s \in Sides : Oracle!SideOf(c, s) = IF s = side THEN sd ELSE Oracle!SideOf(b, s)
  BY <1>3, BuyIsNotSell DEF Oracle!SideOf, Sides
<1> HIDE DEF c
<1>6. ASSUME NEW k \in Locates, NEW s \in Sides
      PROVE  OracleSide(k, s)' = IF k = l /\ s = side THEN sd ELSE OracleSide(k, s)
  <2>1. OracleSide(k, s)' = Oracle!SideOf(Oracle!BookAt(k)', s)
    BY DEF OracleSide, Oracle!SideOf
  <2> QED
    BY <2>1, <1>1, <1>5 DEF OracleSide
<1> QED
  BY <1>1, <1>4, <1>6

\* A level of the engine has shares exactly when it has orders.
LEMMA LevelsEmptyTogether ==
  ASSUME IInv, NEW l \in Locates, NEW s \in Sides, NEW p \in Prices
  PROVE  BookOf(l).shares[s][p] = 0 <=> BookOf(l).orders[s][p] = 0
<1>1. refs \in Table
  BY DEF IInv, TypeOK, Table
<1> QED
  BY <1>1, EmptyTogether DEF IInv, LevelsMatchRefs

\* What the operations of OrderBook do to a side, next to the oracle's.
LEMMA AddAgrees ==
  ASSUME NEW b \in Book, NEW side, NEW price, NEW qty \in U32,
         CanAdd(b, side, price, qty), NEW sd,
         SideIs(sd, b.shares[side], b.orders[side])
  PROVE  SideIs(Oracle!SideAdd(sd, price, qty), Add(b, side, price, qty).shares[side],
                Add(b, side, price, qty).orders[side])
<1> DEFINE c == Add(b, side, price, qty)
           sh == [b.shares[side] EXCEPT ![price] = @ + qty]
           od == [b.orders[side] EXCEPT ![price] = @ + 1]
<1>1. /\ side \in Sides /\ price \in Prices /\ qty # 0
      /\ b.shares[side][price] = 0 <=> b.orders[side][price] = 0
      /\ b.shares[side][price] <= MaxU32 - qty /\ b.orders[side][price] # MaxU32
  BY DEF CanAdd
<1>2. b.shares[side] \in [Prices -> U32] /\ b.orders[side] \in [Prices -> U32]
  BY <1>1 DEF Book
<1>3. SideIs(Oracle!SideAdd(sd, price, qty), sh, od)
  BY <1>1, <1>2, SideAddIs
<1>4. ASSUME NEW p \in Prices
      PROVE  c.shares[side][p] = sh[p] /\ c.orders[side][p] = od[p]
  <2>1. /\ c.shares[side][p] = b.shares[side][p] + Here(side, p, side, price, qty)
        /\ c.orders[side][p] = b.orders[side][p] + Here(side, p, side, price, 1)
    BY <1>1, AddLevels
  <2>2. b.shares[side][p] \in Int /\ b.orders[side][p] \in Int
    BY <1>2 DEF U32
  <2> HIDE DEF c
  <2> QED
    BY <2>1, <2>2, <1>1, <1>2 DEF Here
<1> HIDE DEF c, sh, od
<1>5. SideIs(Oracle!SideAdd(sd, price, qty), c.shares[side], c.orders[side])
  BY <1>3, <1>4, SideIsSame
<1> QED
  BY <1>5 DEF c

LEMMA RemoveAgrees ==
  ASSUME NEW b \in Book, NEW side, NEW price, NEW qty \in U32, NEW gone \in BOOLEAN,
         CanRemove(b, side, price, qty, gone), NEW sd,
         SideIs(sd, b.shares[side], b.orders[side])
  PROVE  SideIs(Oracle!SideReduce(sd, price, qty, gone),
                Remove(b, side, price, qty, gone).shares[side],
                Remove(b, side, price, qty, gone).orders[side])
<1> DEFINE c == Remove(b, side, price, qty, gone)
           sh == [b.shares[side] EXCEPT ![price] = @ - qty]
           od == [b.orders[side] EXCEPT ![price] = IF gone THEN @ - 1 ELSE @]
<1>1. /\ side \in Sides /\ price \in Prices /\ qty # 0
      /\ qty <= b.shares[side][price]
      /\ gone => b.orders[side][price] # 0
  BY DEF CanRemove
<1>2. b.shares[side] \in [Prices -> U32] /\ b.orders[side] \in [Prices -> U32]
  BY <1>1 DEF Book
<1>3. SideIs(Oracle!SideReduce(sd, price, qty, gone), sh, od)
  BY <1>1, <1>2, SideReduceIs
<1>4. ASSUME NEW p \in Prices
      PROVE  c.shares[side][p] = sh[p] /\ c.orders[side][p] = od[p]
  <2>1. /\ c.shares[side][p] = b.shares[side][p] - Here(side, p, side, price, qty)
        /\ c.orders[side][p] = b.orders[side][p]
                               - Here(side, p, side, price, IF gone THEN 1 ELSE 0)
    BY <1>1, RemoveLevels
  <2>2. b.shares[side][p] \in Int /\ b.orders[side][p] \in Int
    BY <1>2 DEF U32
  <2> HIDE DEF c
  <2> QED
    BY <2>1, <2>2, <1>1, <1>2 DEF Here
<1> HIDE DEF c, sh, od
<1>5. SideIs(Oracle!SideReduce(sd, price, qty, gone), c.shares[side], c.orders[side])
  BY <1>3, <1>4, SideIsSame
<1> QED
  BY <1>5 DEF c

\* They leave the other side as it is.
OtherSideKept(b, c, side) ==
  \A s \in Sides \ {side}, p \in Prices :
    c.shares[s][p] = b.shares[s][p] /\ c.orders[s][p] = b.orders[s][p]

LEMMA AddKeepsOther ==
  ASSUME NEW b \in Book, NEW side \in Sides, NEW price \in Prices, NEW qty \in U32
  PROVE  OtherSideKept(b, Add(b, side, price, qty), side)
<1> SUFFICES ASSUME NEW s \in Sides \ {side}, NEW p \in Prices
             PROVE  /\ Add(b, side, price, qty).shares[s][p] = b.shares[s][p]
                    /\ Add(b, side, price, qty).orders[s][p] = b.orders[s][p]
  BY DEF OtherSideKept
<1>1. b.shares[s][p] \in Int /\ b.orders[s][p] \in Int
  BY BookType DEF U32
<1>2. Here(s, p, side, price, qty) = 0 /\ Here(s, p, side, price, 1) = 0
  BY DEF Here
<1> QED
  BY <1>1, <1>2, AddLevels

LEMMA RemoveKeepsOther ==
  ASSUME NEW b \in Book, NEW side \in Sides, NEW price \in Prices, NEW qty \in U32,
         NEW gone \in BOOLEAN
  PROVE  OtherSideKept(b, Remove(b, side, price, qty, gone), side)
<1> SUFFICES ASSUME NEW s \in Sides \ {side}, NEW p \in Prices
             PROVE  /\ Remove(b, side, price, qty, gone).shares[s][p] = b.shares[s][p]
                    /\ Remove(b, side, price, qty, gone).orders[s][p] = b.orders[s][p]
  BY DEF OtherSideKept
<1>1. b.shares[s][p] \in Int /\ b.orders[s][p] \in Int
  BY BookType DEF U32
<1>2. \A n : Here(s, p, side, price, n) = 0
  BY DEF Here
<1> QED
  BY <1>1, <1>2, RemoveLevels

\* A step that stores c as the engine's book of l, which differs from the one
\* before in one side only, and that side in the oracle's, keeps the agreement.
LEMMA BookStepAgrees ==
  ASSUME IInv, Agree, NEW l \in Locates, NEW side \in Sides, NEW c \in Book,
         books' = PutBook(l, c),
         OtherSideKept(BookOf(l), c, side),
         NEW sd, SideIs(sd, c.shares[side], c.orders[side]),
         Oracle!PutSide(l, side, sd), OrdersAgree'
  PROVE  Agree'
<1>1. /\ \A k \in Locates : LET b == Oracle!BookAt(k)'
                            IN  b = [bid |-> b.bid, ask |-> b.ask]
      /\ \A k \in Locates, s \in Sides :
           OracleSide(k, s)' = IF k = l /\ s = side THEN sd ELSE OracleSide(k, s)
  BY PutSideIs DEF Agree
<1>2. \A k \in Locates : BookOf(k)' = IF k = l THEN c ELSE BookOf(k)
  BY PutBookOf DEF IInv
<1>3. ASSUME NEW k \in Locates, NEW s \in Sides
      PROVE  SideIs(OracleSide(k, s)', BookOf(k)'.shares[s], BookOf(k)'.orders[s])
  <2>1. CASE k = l /\ s = side
    BY <1>1, <1>2, <2>1
  <2>2. CASE k # l
    BY <1>1, <1>2, <2>2 DEF Agree
  <2>3. CASE k = l /\ s # side
    <3>1. SideIs(OracleSide(k, s)', BookOf(l).shares[s], BookOf(l).orders[s])
      BY <1>1, <2>3 DEF Agree
    <3>2. SideIs(OracleSide(k, s)', c.shares[s], c.orders[s])
      BY <2>3, <3>1, SideIsSame DEF OtherSideKept
    <3> QED
      BY <1>2, <2>3, <3>2
  <2> QED
    BY <2>1, <2>2, <2>3
<1> QED
  BY <1>1, <1>3 DEF Agree, SideIs

-----------------------------------------------------------------------------
(* The handlers side by side, on a message the engine applies. *)

LEMMA AddKeepsAgreement ==
  ASSUME IInv, Agree, NEW m, AddFields(m), OnAdd(m), AddStatus(m) = "Applied",
         Oracle!OnAdd(m)
  PROVE  Agree'
<1> DEFINE l == m.locate
           b == BookOf(l)
           c == Add(b, m.side, m.price, m.shares)
           sd == Oracle!SideAdd(OracleSide(l, m.side), m.price, m.shares)
<1>1. /\ l \in Locates /\ m.side \in Sides /\ m.price \in Prices /\ m.shares \in U32
      /\ m.ref \in RefIds /\ m.ref \notin LiveRefs
      /\ CanAdd(b, m.side, m.price, m.shares)
      /\ books' = PutBook(l, c) /\ refs' = Insert(refs, m.ref, OrderOf(m))
  BY DEF AddFields, AddStatus, ValidAdd, CanInsert, OnAdd, MsgLocates
<1>2. OrderOf(m) \in Order /\ refs \in Table
  <2>1. m.shares # 0
    BY DEF AddStatus, ValidAdd
  <2> QED
    BY <1>1, <2>1 DEF OrderOf, Order, IInv, TypeOK, Table
<1>3. b \in Book /\ c \in Book
  BY <1>1, BookOfType, AddType DEF IInv
<1>4. Oracle!PutSide(l, m.side, sd)
  BY DEF Oracle!OnAdd, OracleSide
<1>5. OrdersAgree'
  <2>1. /\ LiveIn(refs') = LiveIn(refs) \cup {m.ref}
        /\ \A q \in RefIds : refs'[q] = IF q = m.ref THEN OrderOf(m) ELSE refs[q]
    BY <1>1, <1>2, InsertType
  <2>2. ref_orders' = Oracle!Put(ref_orders, m.ref, OrderOf(m))
    BY DEF Oracle!OnAdd, OrderOf
  <2> QED
    BY <2>1, <2>2, <1>1, LiveFinite DEF Agree, OrdersAgree, LiveRefs, Oracle!Put
<1>6. SideIs(OracleSide(l, m.side), b.shares[m.side], b.orders[m.side])
  BY <1>1 DEF Agree
<1> HIDE DEF b, l
<1>7. OtherSideKept(b, c, m.side)
  BY <1>1, <1>3, AddKeepsOther
<1>8. SideIs(sd, c.shares[m.side], c.orders[m.side])
  BY <1>1, <1>3, <1>6, AddAgrees
<1> HIDE DEF c, sd
<1> QED
  BY <1>1, <1>3, <1>4, <1>5, <1>7, <1>8, BookStepAgrees DEF b

\* Taking shares off a live order: an execution, a cancel or a deletion.
LEMMA TakeKeepsAgreement ==
  ASSUME IInv, Agree, NEW r \in LiveRefs, NEW qty \in U32, qty # 0,
         qty <= refs[r].shares,
         refs' = RefsAfterReduce(r, qty),
         books' = PutBook(refs[r].locate, BookAfterReduce(r, qty)),
         LET o == ref_orders[r]
         IN  /\ Oracle!PutSide(o.locate, o.side,
                    Oracle!SideReduce(OracleSide(o.locate, o.side), o.price, qty,
                                      o.shares = qty))
             /\ ref_orders' = IF o.shares = qty THEN Oracle!Drop(ref_orders, r)
                              ELSE [ref_orders EXCEPT ![r].shares = @ - qty]
  PROVE  Agree'
<1> DEFINE o == refs[r]
           l == o.locate
           b == BookOf(l)
           gone == o.shares = qty
           c == Remove(b, o.side, o.price, qty, gone)
           sd == Oracle!SideReduce(OracleSide(l, o.side), o.price, qty, gone)
<1>1. /\ o \in Order /\ l \in Locates /\ o.side \in Sides /\ o.price \in Prices
      /\ b \in Book /\ r \in RefIds /\ refs \in Table
  BY LiveLocate DEF IInv, TypeOK, Table, LiveRefs, LiveIn
<1>2. CanRemove(b, o.side, o.price, qty, gone)
  BY CanReduceHolds DEF CanReduceBy
<1>3. gone \in BOOLEAN /\ c \in Book
  BY <1>1, <1>2, RemoveType
<1>4. ref_orders[r] = o /\ DOMAIN ref_orders = LiveRefs
  BY DEF Agree, OrdersAgree
<1>5. Oracle!PutSide(l, o.side, sd) /\ books' = PutBook(l, c)
  BY <1>4 DEF BookAfterReduce
<1>6. OrdersAgree'
  <2>1. CASE gone
    <3>1. refs' = Erase(refs, r) /\ ref_orders' = Oracle!Drop(ref_orders, r)
      BY <2>1, <1>4 DEF RefsAfterReduce
    <3>2. LiveIn(refs') = LiveIn(refs) \ {r}
      BY <3>1, <1>1, EraseType DEF LiveRefs
    <3>3. \A q \in RefIds \ {r} : refs'[q] = refs[q]
      BY <3>1, <1>1 DEF Erase, Table
    <3> QED
      BY <3>1, <3>2, <3>3, <1>4, LiveFinite DEF Agree, OrdersAgree, LiveRefs, Oracle!Drop
  <2>2. CASE ~gone
    <3>1. /\ refs' = [refs EXCEPT ![r].shares = @ - qty]
          /\ ref_orders' = [ref_orders EXCEPT ![r].shares = @ - qty]
      BY <2>2, <1>4 DEF RefsAfterReduce
    <3>2. /\ refs'[r] = [o EXCEPT !.shares = @ - qty]
          /\ \A q \in RefIds \ {r} : refs'[q] = refs[q]
          /\ refs'[r] \in Order
      BY <2>2, <3>1, <1>1, MaxU32Assumption DEF Table, Order, U32
    <3>3. LiveIn(refs') = LiveIn(refs)
      BY <3>2, AbsentAssumption DEF LiveIn, LiveRefs
    <3> QED
      BY <3>1, <3>2, <3>3, <1>4, LiveFinite DEF Agree, OrdersAgree, LiveRefs
  <2> QED
    BY <2>1, <2>2
<1>7. SideIs(OracleSide(l, o.side), b.shares[o.side], b.orders[o.side])
  BY <1>1 DEF Agree
<1> HIDE DEF b, l, o, gone
<1>8. OtherSideKept(b, c, o.side)
  BY <1>1, <1>3, RemoveKeepsOther
<1>9. SideIs(sd, c.shares[o.side], c.orders[o.side])
  BY <1>1, <1>2, <1>3, <1>7, RemoveAgrees
<1> HIDE DEF c, sd
<1> QED
  BY <1>1, <1>3, <1>5, <1>6, <1>8, <1>9, BookStepAgrees DEF b

LEMMA ReduceKeepsAgreement ==
  ASSUME IInv, Agree, NEW m, ReduceFields(m), OnReduce(m),
         ReduceStatus(m) = "Applied", Oracle!OnReduce(m)
  PROVE  Agree'
<1>1. /\ m.ref \in LiveRefs /\ m.shares # 0 /\ m.shares \in U32
      /\ ~(m.shares > refs[m.ref].shares)
      /\ refs' = RefsAfterReduce(m.ref, m.shares)
      /\ books' = PutBook(refs[m.ref].locate, BookAfterReduce(m.ref, m.shares))
  BY DEF ReduceFields, OnReduce, ReduceStatus
<1>2. m.shares <= refs[m.ref].shares
  BY <1>1, LiveLocate, MaxU32Assumption DEF U32, IInv
<1>3. m.ref \in DOMAIN ref_orders /\ ref_orders[m.ref] = refs[m.ref]
  BY <1>1 DEF Agree, OrdersAgree
<1>4. Oracle!Clamped(m.ref, m.shares) = m.shares
  BY <1>1, <1>3 DEF Oracle!Clamped
<1>5. LET o == ref_orders[m.ref]
      IN  /\ Oracle!PutSide(o.locate, o.side,
                 Oracle!SideReduce(OracleSide(o.locate, o.side), o.price, m.shares,
                                   o.shares = m.shares))
          /\ ref_orders' = IF o.shares = m.shares THEN Oracle!Drop(ref_orders, m.ref)
                           ELSE [ref_orders EXCEPT ![m.ref].shares = @ - m.shares]
  BY <1>3, <1>4 DEF Oracle!OnReduce, OracleSide
<1> QED
  BY <1>1, <1>2, <1>5, TakeKeepsAgreement

LEMMA DeleteKeepsAgreement ==
  ASSUME IInv, Agree, NEW m, OnDelete(m), DeleteStatus(m) = "Applied",
         Oracle!OnDelete(m)
  PROVE  Agree'
<1> DEFINE qty == refs[m.ref].shares
<1>1. /\ m.ref \in LiveRefs
      /\ refs' = RefsAfterReduce(m.ref, qty)
      /\ books' = PutBook(refs[m.ref].locate, BookAfterReduce(m.ref, qty))
  BY DEF OnDelete, DeleteStatus, RefsAfterReduce
<1>2. qty \in U32 /\ qty # 0 /\ qty <= refs[m.ref].shares
  BY <1>1, LiveLocate DEF Order, U32, IInv
<1>3. m.ref \in DOMAIN ref_orders /\ ref_orders[m.ref] = refs[m.ref]
  BY <1>1 DEF Agree, OrdersAgree
<1>4. LET o == ref_orders[m.ref]
      IN  /\ Oracle!PutSide(o.locate, o.side,
                 Oracle!SideReduce(OracleSide(o.locate, o.side), o.price, qty,
                                   o.shares = qty))
          /\ ref_orders' = IF o.shares = qty THEN Oracle!Drop(ref_orders, m.ref)
                           ELSE [ref_orders EXCEPT ![m.ref].shares = @ - qty]
  BY <1>3 DEF Oracle!OnDelete, OracleSide
<1> HIDE DEF qty
<1> QED
  BY <1>1, <1>2, <1>4, TakeKeepsAgreement

LEMMA ReplaceKeepsAgreement ==
  ASSUME IInv, Agree, NEW m, ReplaceFields(m), OnReplace(m),
         ReplaceStatus(m) = "Applied", Oracle!OnReplace(m)
  PROVE  Agree'
<1> DEFINE o == refs[m.ref]
           l == o.locate
           b == BookOf(l)
           a == Remove(b, o.side, o.price, o.shares, TRUE)
           c == Add(a, o.side, m.price, m.shares)
           left == Oracle!SideReduce(OracleSide(l, o.side), o.price, o.shares, TRUE)
           sd == Oracle!SideAdd(left, m.price, m.shares)
           new == [o EXCEPT !.price = m.price, !.shares = m.shares]
<1>1. /\ m.ref \in LiveRefs /\ ValidReplace(m) /\ m.new_ref \notin LiveRefs
      /\ CanReplace(b, o.side, o.price, o.shares, m.price, m.shares)
      /\ refs' = Insert(Erase(refs, m.ref), m.new_ref, new)
      /\ books' = PutBook(l, Replace(b, o.side, o.price, o.shares, m.price, m.shares))
  BY DEF OnReplace, ReplaceStatus
<1>2. /\ o \in Order /\ l \in Locates /\ o.side \in Sides /\ o.price \in Prices
      /\ o.shares \in U32 /\ b \in Book /\ refs \in Table
  BY <1>1, LiveLocate DEF IInv, TypeOK, Table
<1>3. /\ m.new_ref \in RefIds /\ m.price \in Prices /\ m.shares \in U32 /\ m.shares # 0
  BY <1>1 DEF ReplaceFields, ValidReplace, MsgRefs
<1>4. new \in Order
  BY <1>2, <1>3 DEF Order
<1>5. CanRemove(b, o.side, o.price, o.shares, TRUE) /\ CanAdd(a, o.side, m.price, m.shares)
  <2>1. ReplaceSucceeds(b, o.side, o.price, o.shares, m.price, m.shares)
    BY <1>1, <1>2, <1>3, ReplaceAlwaysSucceeds
  <2> QED
    BY <2>1 DEF ReplaceSucceeds, CanReplace, AfterRemove
<1>6. Replace(b, o.side, o.price, o.shares, m.price, m.shares) = c
  BY <1>1, <1>5 DEF Replace, AfterRemove
<1>7. ref_orders[m.ref] = o /\ DOMAIN ref_orders = LiveRefs
      /\ \A r \in LiveRefs : ref_orders[r] = refs[r]
  BY <1>1 DEF Agree, OrdersAgree
<1>8. /\ Oracle!PutSide(l, o.side, sd)
      /\ ref_orders' = Oracle!Put(Oracle!Drop(ref_orders, m.ref), m.new_ref, new)
  BY <1>1, <1>7 DEF Oracle!OnReplace, OracleSide
<1>9. OrdersAgree'
  <2> DEFINE e == Erase(refs, m.ref)
  <2>1. e \in Table /\ LiveIn(e) = LiveIn(refs) \ {m.ref}
    BY <1>1, <1>2, EraseType DEF LiveRefs
  <2>2. \A q \in RefIds \ {m.ref} : e[q] = refs[q]
    BY <1>2 DEF Table, Erase
  <2> HIDE DEF e, new
  <2>3. /\ LiveIn(refs') = LiveIn(e) \cup {m.new_ref}
        /\ \A q \in RefIds : refs'[q] = IF q = m.new_ref THEN new ELSE e[q]
    BY <2>1, <1>1, <1>3, <1>4, InsertType DEF e
  <2>4. LiveIn(refs) \subseteq RefIds
    BY LiveFinite
  <2> QED
    BY <2>1, <2>2, <2>3, <2>4, <1>1, <1>3, <1>7, <1>8
       DEF OrdersAgree, LiveRefs, Oracle!Put, Oracle!Drop
<1>10. SideIs(OracleSide(l, o.side), b.shares[o.side], b.orders[o.side])
  BY <1>2 DEF Agree
<1> HIDE DEF b, l, o
<1>11. PICK gone \in BOOLEAN : gone = TRUE
  OBVIOUS
<1>12. /\ a \in Book /\ OtherSideKept(b, a, o.side)
       /\ SideIs(left, a.shares[o.side], a.orders[o.side])
  <2>1. a = Remove(b, o.side, o.price, o.shares, gone)
        /\ CanRemove(b, o.side, o.price, o.shares, gone)
        /\ left = Oracle!SideReduce(OracleSide(l, o.side), o.price, o.shares, gone)
    BY <1>5, <1>11
  <2> HIDE DEF a, left
  <2> QED
    BY <2>1, <1>2, <1>10, RemoveType, RemoveKeepsOther, RemoveAgrees
<1> HIDE DEF a, left
<1>13. /\ c \in Book /\ OtherSideKept(a, c, o.side)
       /\ SideIs(sd, c.shares[o.side], c.orders[o.side])
  BY <1>2, <1>3, <1>5, <1>12, AddType, AddKeepsOther, AddAgrees
<1> HIDE DEF c, sd
<1>14. OtherSideKept(b, c, o.side)
  BY <1>12, <1>13 DEF OtherSideKept
<1>15. books' = PutBook(l, c)
  BY <1>1, <1>6
<1> QED
  BY <1>2, <1>8, <1>9, <1>13, <1>14, <1>15, BookStepAgrees DEF b

\* A step that touches neither book.
LEMMA QuietKeepsAgreement ==
  ASSUME Agree, refs' = refs, books' = books,
         ref_orders' = ref_orders, ref_books' = ref_books
  PROVE  Agree'
BY DEF Agree, OrdersAgree, LiveRefs, BookOf, OracleSide, Oracle!BookAt

\* What the messages of both feeds have in common: the fields their type gives them.
Fields(m) ==
  /\ m.type = "Add" => AddFields(m)
  /\ m.type \in {"Exec", "ExecPrice", "Cancel"} => ReduceFields(m)
  /\ m.type = "Replace" => ReplaceFields(m)
  /\ m.type = "Trade" => TradeFields(m)

LEMMA ApplyHandles ==
  ASSUME NEW m, Fields(m), Apply(m)
  PROVE  Handles
BY DEF Fields, Apply, Handles

LEMMA ApplyKeepsAgreement ==
  ASSUME IInv, CoInv, NEW m, Fields(m), Apply(m)
  PROVE  CoInv'
<1> SUFFICES ASSUME clean' PROVE Agree'
  BY DEF CoInv
<1>1. ASSUME NEW status, Report(status) PROVE clean /\ status \in {"Ignored", "Applied"}
  BY <1>1 DEF Report
<1>2. CASE m.type = "Add"
  <2>1. AddFields(m) /\ OnAdd(m) /\ Oracle!OnAdd(m)
    BY <1>2 DEF Fields, Apply, Alongside
  <2>2. clean /\ AddStatus(m) \in {"Ignored", "Applied"}
    BY <2>1, <1>1 DEF OnAdd
  <2>3. AddStatus(m) = "Applied"
    BY <2>2 DEF AddStatus
  <2> QED
    BY <2>1, <2>2, <2>3, AddKeepsAgreement DEF CoInv
<1>3. CASE m.type \in {"Exec", "ExecPrice", "Cancel"}
  <2>1. ReduceFields(m) /\ OnReduce(m) /\ Oracle!OnReduce(m)
    BY <1>3 DEF Fields, Apply, Alongside
  <2>2. clean /\ ReduceStatus(m) \in {"Ignored", "Applied"}
    BY <2>1, <1>1 DEF OnReduce
  <2>3. ReduceStatus(m) = "Applied"
    BY <2>2 DEF ReduceStatus
  <2> QED
    BY <2>1, <2>2, <2>3, ReduceKeepsAgreement DEF CoInv
<1>4. CASE m.type = "Delete"
  <2>1. OnDelete(m) /\ Oracle!OnDelete(m)
    BY <1>4 DEF Apply, Alongside
  <2>2. clean /\ DeleteStatus(m) \in {"Ignored", "Applied"}
    BY <2>1, <1>1 DEF OnDelete
  <2>3. DeleteStatus(m) = "Applied"
    BY <2>2 DEF DeleteStatus
  <2> QED
    BY <2>1, <2>2, <2>3, DeleteKeepsAgreement DEF CoInv
<1>5. CASE m.type = "Replace"
  <2>1. ReplaceFields(m) /\ OnReplace(m) /\ Oracle!OnReplace(m)
    BY <1>5 DEF Fields, Apply, Alongside
  <2>2. clean /\ ReplaceStatus(m) \in {"Ignored", "Applied"}
    BY <2>1, <1>1 DEF OnReplace
  <2>3. ReplaceStatus(m) = "Applied"
    BY <2>2 DEF ReplaceStatus
  <2> QED
    BY <2>1, <2>2, <2>3, ReplaceKeepsAgreement DEF CoInv
<1>6. CASE m.type \in {"Trade", "System", "Unknown"}
  <2>1. /\ OnTrade(m) \/ OnOther(m)
        /\ Oracle!OnOther(m)
    BY <1>6 DEF Apply, Alongside
  <2>2. clean /\ refs' = refs /\ books' = books
    BY <2>1, <1>1 DEF OnTrade, OnOther
  <2>3. ref_orders' = ref_orders /\ ref_books' = ref_books
    BY <2>1 DEF Oracle!OnOther
  <2> QED
    BY <2>2, <2>3, QuietKeepsAgreement DEF CoInv
<1> QED
  BY <1>2, <1>3, <1>4, <1>5, <1>6 DEF Apply

-----------------------------------------------------------------------------
(* The generator. *)

GenOrder == [ref : RefIds, locate : Locates, side : Sides, price : Prices,
             shares : 1 .. MaxShares]

\* What holds of the generator's list whatever becomes of its messages.
ListOK(t) ==
  /\ t \in Seq(GenOrder) /\ Len(t) <= MaxLive
  /\ \A i, j \in 1 .. Len(t) : t[i].ref = t[j].ref => i = j
  /\ \A i \in 1 .. Len(t) :
       t[i].price \in Generator!RandPrices(t[i].locate, t[i].side)

GenInv == ListOK(live)

Members(t) == {t[i] : i \in 1 .. Len(t)}

\* The messages of the generator.
IsFresh(r) == r \in RefIds /\ \A i \in 1 .. Len(live) : live[i].ref # r

SendsAdd(m) ==
  /\ m.type = "Add" /\ Len(live) < MaxLive /\ IsFresh(m.ref)
  /\ m.locate \in Locates /\ m.side \in Sides
  /\ m.price \in Generator!RandPrices(m.locate, m.side) /\ m.shares \in 1 .. MaxShares
SendsReduce(m, i) ==
  /\ m.type \in {"Exec", "ExecPrice", "Cancel"}
  /\ m.ref = live[i].ref /\ m.shares \in 1 .. live[i].shares
  /\ m.type = "ExecPrice" => m.price = live[i].price /\ m.printable = TRUE
SendsDelete(m, i) == m.type = "Delete" /\ m.ref = live[i].ref
SendsReplace(m, i) ==
  /\ m.type = "Replace" /\ m.ref = live[i].ref /\ IsFresh(m.new_ref)
  /\ m.price \in Generator!RandPrices(live[i].locate, live[i].side)
  /\ m.shares \in 1 .. MaxShares
SendsTrade(m) ==
  /\ m.type = "Trade" /\ m.locate \in Locates /\ m.shares \in 1 .. MaxShares
  /\ \E s \in Sides : m.price \in Generator!RandPrices(m.locate, s)

Sends(m) ==
  \/ SendsAdd(m) \/ SendsTrade(m) \/ m.type = "System"
  \/ \E i \in 1 .. Len(live) : SendsReduce(m, i) \/ SendsDelete(m, i) \/ SendsReplace(m, i)

LEMMA GeneratorSides == Generator!BID = BUY /\ Generator!ASK = SELL
BY DEF Generator!BID, Generator!ASK, BUY, SELL

LEMMA LiveType ==
  ASSUME GenInv
  PROVE  /\ Len(live) \in Nat /\ DOMAIN live = 1 .. Len(live)
         /\ \A i \in 1 .. Len(live) : live[i] \in GenOrder
BY LenProperties, ElementOfSeq DEF GenInv, ListOK

LEMMA FreshIsFresh ==
  ASSUME GenInv, NEW r \in Generator!FreshRefs
  PROVE  IsFresh(r)
BY LiveType DEF Generator!FreshRefs, Generator!Live, IsFresh

LEMMA MessageKinds ==
  ASSUME GenInv, NEW m \in Generator!Messages
  PROVE  Sends(m)
<1>1. m \in Generator!Steps \/ m \in Generator!Systems
  BY DEF Generator!Messages
<1>2. CASE m \in Generator!Systems
  BY <1>2 DEF Generator!Systems, Sends
<1>3. CASE m \in Generator!Adds
  <2> DEFINE AddsOf(l, s) ==
        [type : {"Add"}, ref : Generator!FreshRefs, locate : {l}, side : {s},
         price : Generator!RandPrices(l, s), shares : 1 .. MaxShares]
  <2>2. /\ Len(live) # MaxLive
        /\ m \in UNION {AddsOf(l, s) : l \in Locates, s \in {Generator!BID, Generator!ASK}}
    BY <1>3 DEF Generator!Adds
  <2>1. PICK l \in Locates, s \in {Generator!BID, Generator!ASK} : m \in AddsOf(l, s)
    <3> HIDE DEF AddsOf
    <3> QED
      BY <2>2
  <2>3. Len(live) < MaxLive
    BY <2>2, LiveType, GeneratorAssumption DEF GenInv, ListOK
  <2>4. s \in Sides
    BY GeneratorSides DEF Sides
  <2> QED
    BY <2>1, <2>3, <2>4, FreshIsFresh DEF SendsAdd, Sends
<1>4. ASSUME NEW o \in Generator!Live
      PROVE  \E i \in 1 .. Len(live) : o = live[i]
  BY LiveType DEF Generator!Live
<1>5. ASSUME NEW o \in Generator!Live,
             \/ m \in Generator!ExecutionsOf(o)
             \/ m \in [type : {"ExecPrice"}, ref : {o.ref}, shares : 1 .. o.shares,
                       price : {o.price}, printable : {TRUE}]
             \/ m \in [type : {"Cancel"}, ref : {o.ref}, shares : 1 .. o.shares]
      PROVE  Sends(m)
  <2>1. PICK i \in 1 .. Len(live) : o = live[i]
    BY <1>4
  <2>2. SendsReduce(m, i)
    BY <1>5, <2>1 DEF Generator!ExecutionsOf, SendsReduce
  <2> QED
    BY <2>2 DEF Sends
<1>6. CASE m \in Generator!Sweeps
  <2>1. PICK l \in Locates, s \in {Generator!BID, Generator!ASK} :
          \E o \in Generator!Touch(l, s) : m \in Generator!ExecutionsOf(o)
    BY <1>6 DEF Generator!Sweeps
  <2>2. PICK o \in Generator!Touch(l, s) : m \in Generator!ExecutionsOf(o)
    BY <2>1
  <2>3. o \in Generator!Live
    BY <2>2 DEF Generator!Touch, Generator!Live
  <2> QED
    BY <2>2, <2>3, <1>5
<1>7. CASE m \in Generator!Executions \cup Generator!Cancels
  BY <1>5, <1>7 DEF Generator!Executions, Generator!Cancels
<1>8. CASE m \in Generator!Deletes
  <2>1. PICK o \in Generator!Live : m.type = "Delete" /\ m.ref = o.ref
    BY <1>8 DEF Generator!Deletes
  <2> QED
    BY <2>1, <1>4 DEF SendsDelete, Sends
<1>9. CASE m \in Generator!Replaces
  <2>1. PICK o \in Generator!Live :
          m \in [type : {"Replace"}, ref : {o.ref}, new_ref : Generator!FreshRefs,
                 price : Generator!RandPrices(o.locate, o.side), shares : 1 .. MaxShares]
    BY <1>9 DEF Generator!Replaces
  <2>2. PICK i \in 1 .. Len(live) : o = live[i]
    BY <1>4
  <2>3. SendsReplace(m, i)
    BY <2>1, <2>2, FreshIsFresh DEF SendsReplace
  <2> QED
    BY <2>3 DEF Sends
<1>10. CASE m \in Generator!Trades
  <2>1. PICK l \in Locates :
          m \in [type : {"Trade"}, locate : {l},
                 price : Generator!RandPrices(l, Generator!BID)
                         \cup Generator!RandPrices(l, Generator!ASK),
                 shares : 1 .. MaxShares]
    BY <1>10 DEF Generator!Trades
  <2> QED
    BY <2>1, GeneratorSides DEF SendsTrade, Sends, Sides
<1> QED
  BY <1>1, <1>2, <1>3, <1>6, <1>7, <1>8, <1>9, <1>10 DEF Generator!Steps

LEMMA MidType ==
  ASSUME NEW l \in Locates
  PROVE  Generator!Mid(l) \in Int
<1>1. /\ l \in Nat \ {0} /\ BasePrice \in Nat /\ SymSpacing \in Nat
      /\ Tick \in Nat \ {0}
  BY LocatesAssumption, GeneratorAssumption
<1>2. BasePrice + (l - 1) * SymSpacing \in Int
  BY <1>1
<1>3. (BasePrice + (l - 1) * SymSpacing) \div Tick \in Int
  BY <1>1, <1>2
<1> QED
  BY <1>1, <1>3 DEF Generator!Mid

\* Prices the generator draws are prices of the book.
LEMMA DrawsPrices ==
  ASSUME NEW l \in Locates, NEW s, NEW p \in Generator!RandPrices(l, s)
  PROVE  p \in Prices /\ p \in U32
<1>1. Generator!Mid(l) \in Int
  BY MidType
<1>2. PICK k \in Generator!Distances :
        p = Generator!Clamped(IF s = Generator!BID THEN Generator!Mid(l) - k * Tick
                              ELSE Generator!Mid(l) + k * Tick)
  BY DEF Generator!RandPrices
<1>3. k * Tick \in Int
  BY GeneratorAssumption DEF Generator!Distances
<1>4. ASSUME NEW q \in Int PROVE Generator!Clamped(q) \in Prices
  BY GeneratorAssumption, PricesType DEF Generator!Clamped
<1>5. p \in Prices
  BY <1>1, <1>2, <1>3, <1>4
<1> QED
  BY <1>5, PriceLevelsAssumption, MaxU32Assumption DEF Prices, MaxPrice, U32

LEMMA SharesFit == MaxShares \in Nat /\ 1 .. MaxShares \subseteq U32 \ {0}
<1>1. /\ MaxLive \in Nat \ {0} /\ MaxShares \in Nat \ {0}
      /\ MaxLive * MaxShares <= MaxU32
  BY GeneratorAssumption
<1>2. MaxShares <= MaxLive * MaxShares
  BY <1>1
<1>3. MaxLive * MaxShares \in Nat
  BY <1>1
<1> HIDE DEF GeneratorAssumption
<1> QED
  BY <1>1, <1>2, <1>3, MaxU32Assumption DEF U32

\* Every message of the generator has the fields its type gives it.
LEMMA SendsFields ==
  ASSUME GenInv, NEW m, Sends(m)
  PROVE  Fields(m)
<1>1. CASE SendsAdd(m)
  BY <1>1, DrawsPrices, SharesFit DEF SendsAdd, IsFresh, Fields, AddFields, MsgRefs, MsgLocates
<1>2. CASE SendsTrade(m)
  BY <1>2, DrawsPrices, SharesFit DEF SendsTrade, Fields, TradeFields, MsgLocates
<1>3. CASE m.type = "System"
  BY <1>3 DEF Fields
<1>4. ASSUME NEW i \in 1 .. Len(live), SendsReduce(m, i)
      PROVE  Fields(m)
  <2>1. live[i].ref \in RefIds /\ live[i].price \in Prices /\ live[i].shares \in 1 .. MaxShares
    BY LiveType DEF GenOrder
  <2>2. m.ref \in MsgRefs /\ m.shares \in U32
    BY <1>4, <2>1, SharesFit DEF SendsReduce, MsgRefs
  <2>3. m.type = "ExecPrice" => m.price = live[i].price /\ m.printable = TRUE
    BY <1>4 DEF SendsReduce
  <2>4. live[i].price \in U32
    BY <2>1, PriceLevelsAssumption, MaxU32Assumption DEF Prices, MaxPrice, U32
  <2>5. m.type = "ExecPrice" => m.price \in U32 /\ m.printable \in BOOLEAN
    BY <2>3, <2>4, Zenon
  <2> QED
    BY <1>4, <2>2, <2>5 DEF SendsReduce, Fields, ReduceFields
<1>5. ASSUME NEW i \in 1 .. Len(live), SendsDelete(m, i)
      PROVE  Fields(m)
  BY <1>5 DEF SendsDelete, Fields
<1>6. ASSUME NEW i \in 1 .. Len(live), SendsReplace(m, i)
      PROVE  Fields(m)
  <2>1. live[i].ref \in RefIds /\ live[i].locate \in Locates
    BY LiveType DEF GenOrder
  <2> QED
    BY <1>6, <2>1, DrawsPrices, SharesFit
       DEF SendsReplace, IsFresh, Fields, ReplaceFields, MsgRefs
<1> QED
  BY <1>1, <1>2, <1>3, <1>4, <1>5, <1>6 DEF Sends

\* The three things the generator does to its list.
LEMMA ListType ==
  ASSUME NEW t, ListOK(t)
  PROVE  /\ t \in Seq(GenOrder) /\ Len(t) \in Nat
         /\ \A i \in 1 .. Len(t) : t[i] \in GenOrder
BY LenProperties, ElementOfSeq DEF ListOK

LEMMA AppendToList ==
  ASSUME NEW t, ListOK(t), Len(t) < MaxLive, NEW o \in GenOrder,
         o.price \in Generator!RandPrices(o.locate, o.side),
         \A i \in 1 .. Len(t) : t[i].ref # o.ref
  PROVE  /\ ListOK(Append(t, o)) /\ Members(Append(t, o)) = Members(t) \cup {o}
         /\ Len(Append(t, o)) = Len(t) + 1
<1> DEFINE u == Append(t, o)
           n == Len(t)
<1>1. t \in Seq(GenOrder) /\ n \in Nat /\ MaxLive \in Nat
  BY ListType, GeneratorAssumption
<1>2. /\ u \in Seq(GenOrder) /\ Len(u) = n + 1
      /\ \A i \in 1 .. n : u[i] = t[i]
      /\ u[n + 1] = o
  BY <1>1, AppendProperties
<1> HIDE DEF u
<1>3. \A i \in 1 .. Len(u) : IF i \in 1 .. n THEN u[i] = t[i] ELSE i = n + 1 /\ u[i] = o
  BY <1>1, <1>2
<1>4. Len(u) <= MaxLive
  BY <1>1, <1>2
<1>5. \A i, j \in 1 .. Len(u) : u[i].ref = u[j].ref => i = j
  BY <1>3 DEF ListOK
<1>6. \A i \in 1 .. Len(u) : u[i].price \in Generator!RandPrices(u[i].locate, u[i].side)
  BY <1>3 DEF ListOK
<1>7. Members(u) = Members(t) \cup {o}
  <2>1. Members(u) \subseteq Members(t) \cup {o}
    BY <1>3 DEF Members
  <2>2. ASSUME NEW i \in 1 .. n PROVE t[i] \in Members(u)
    BY <1>1, <1>2, <2>2 DEF Members
  <2>3. o \in Members(u)
    BY <1>1, <1>2 DEF Members
  <2> QED
    BY <2>1, <2>2, <2>3 DEF Members
<1> QED
  BY <1>2, <1>4, <1>5, <1>6, <1>7 DEF ListOK, u

LEMMA RemoveFromList ==
  ASSUME NEW t, ListOK(t), NEW i \in 1 .. Len(t)
  PROVE  LET u == Generator!RemoveAt(t, i)
         IN  /\ ListOK(u) /\ Members(u) = Members(t) \ {t[i]}
             /\ Len(u) = Len(t) - 1
<1> DEFINE n == Len(t)
           x == SubSeq(t, 1, i - 1)
           y == SubSeq(t, i + 1, n)
           u == x \o y
<1>1. t \in Seq(GenOrder) /\ n \in Nat /\ \A j \in 1 .. n : t[j] \in GenOrder
  BY ListType
<1>2. /\ x \in Seq(GenOrder) /\ Len(x) = i - 1
      /\ \A j \in 1 .. i - 1 : x[j] = t[j]
  <2>1. 1 \in Int /\ i - 1 \in Int /\ \A j \in 1 .. i - 1 : t[j] \in GenOrder
    BY <1>1
  <2>2. /\ x \in Seq(GenOrder) /\ Len(x) = IF 1 <= i - 1 THEN (i - 1) - 1 + 1 ELSE 0
        /\ \A j \in 1 .. (i - 1) - 1 + 1 : x[j] = t[1 + j - 1]
    <3> HIDE DEF x
    <3> QED
      BY <2>1, SubSeqProperties DEF x
  <2> HIDE DEF x
  <2> QED
    BY <2>2, <1>1
<1>3. /\ y \in Seq(GenOrder) /\ Len(y) = n - i
      /\ \A j \in 1 .. n - i : y[j] = t[i + j]
  <2>1. i + 1 \in Int /\ n \in Int /\ \A j \in i + 1 .. n : t[j] \in GenOrder
    BY <1>1
  <2>2. /\ y \in Seq(GenOrder)
        /\ Len(y) = IF i + 1 <= n THEN n - (i + 1) + 1 ELSE 0
        /\ \A j \in 1 .. n - (i + 1) + 1 : y[j] = t[(i + 1) + j - 1]
    <3> HIDE DEF n
    <3> QED
      BY <2>1, SubSeqProperties
  <2> HIDE DEF y
  <2> QED
    BY <2>2, <1>1
<1> HIDE DEF x, y
<1>4. /\ u \in Seq(GenOrder) /\ Len(u) = n - 1
      /\ \A j \in 1 .. n - 1 : u[j] = t[IF j < i THEN j ELSE j + 1]
  <2>1. /\ u \in Seq(GenOrder) /\ Len(u) = Len(x) + Len(y)
        /\ \A j \in 1 .. Len(x) + Len(y) :
             u[j] = IF j <= Len(x) THEN x[j] ELSE y[j - Len(x)]
    BY <1>2, <1>3, ConcatProperties
  <2>2. PICK lx, ly : lx = Len(x) /\ ly = Len(y)
    OBVIOUS
  <2> HIDE DEF u, n, x, y
  <2>3. /\ n \in Nat /\ i \in 1 .. n /\ lx = i - 1 /\ ly = n - i /\ lx + ly = n - 1
    BY <1>1, <1>2, <1>3, <2>2 DEF n
  <2>4. u \in Seq(GenOrder) /\ Len(u) = n - 1
    BY <2>1, <2>2, <2>3
  <2>5. ASSUME NEW j \in 1 .. n - 1 PROVE u[j] = t[IF j < i THEN j ELSE j + 1]
    <3>1. u[j] = IF j <= lx THEN x[j] ELSE y[j - lx]
      BY <2>1, <2>2, <2>3
    <3>2. CASE j < i
      <4>1. j <= lx /\ j \in 1 .. i - 1
        BY <2>3, <3>2
      <4> QED
        BY <1>2, <3>1, <3>2, <4>1
    <3>3. CASE ~(j < i)
      <4>1. ~(j <= lx) /\ j - lx \in 1 .. n - i /\ i + (j - lx) = j + 1
        BY <2>3, <3>3
      <4> QED
        BY <1>3, <3>1, <3>3, <4>1
    <3> QED
      BY <3>2, <3>3
  <2> QED
    BY <2>4, <2>5
<1>5. Generator!RemoveAt(t, i) = u
  BY DEF Generator!RemoveAt, x, y
<1> HIDE DEF u
<1>6. \A j \in 1 .. Len(u) :
        \E k \in 1 .. n : k # i /\ u[j] = t[k] /\ k = (IF j < i THEN j ELSE j + 1)
  <2>1. SUFFICES ASSUME NEW j \in 1 .. n - 1
        PROVE  \E k \in 1 .. n : k # i /\ u[j] = t[k] /\ k = (IF j < i THEN j ELSE j + 1)
    BY <1>4
  <2>2. PICK k : k = IF j < i THEN j ELSE j + 1
    OBVIOUS
  <2>3. k \in 1 .. n /\ k # i
    BY <1>1, <2>2
  <2>4. u[j] = t[k]
    BY <1>4, <2>2
  <2> QED
    BY <2>2, <2>3, <2>4
<1>7. \A j, k \in 1 .. Len(u) : u[j].ref = u[k].ref => j = k
  BY <1>1, <1>4, <1>6 DEF ListOK
<1>8. \A j \in 1 .. Len(u) : u[j].price \in Generator!RandPrices(u[j].locate, u[j].side)
  BY <1>6 DEF ListOK
<1>9. Members(u) = Members(t) \ {t[i]}
  <2>1. ASSUME NEW j \in 1 .. Len(u) PROVE u[j] \in Members(t) \ {t[i]}
    <3>1. PICK k \in 1 .. n : k # i /\ u[j] = t[k]
      BY <1>6
    <3>2. t[k].ref # t[i].ref
      BY <3>1 DEF ListOK
    <3> QED
      BY <3>1, <3>2 DEF Members
  <2>2. ASSUME NEW k \in 1 .. n, k # i PROVE t[k] \in Members(u)
    <3> DEFINE j == IF k < i THEN k ELSE k - 1
    <3>1. j \in 1 .. Len(u) /\ (IF j < i THEN j ELSE j + 1) = k
      BY <2>2, <1>1, <1>4
    <3> HIDE DEF j
    <3> QED
      BY <3>1, <1>4 DEF Members
  <2>3. Members(t) \ {t[i]} \subseteq {t[k] : k \in (1 .. n) \ {i}}
    BY DEF Members
  <2>4. Members(u) \subseteq Members(t) \ {t[i]}
    BY <2>1 DEF Members
  <2>5. {t[k] : k \in (1 .. n) \ {i}} \subseteq Members(u)
    BY <2>2
  <2> QED
    BY <2>3, <2>4, <2>5
<1>10. Len(u) <= MaxLive
  BY <1>1, <1>4, GeneratorAssumption DEF ListOK
<1> QED
  BY <1>4, <1>5, <1>7, <1>8, <1>9, <1>10 DEF ListOK

LEMMA UpdateList ==
  ASSUME NEW t, ListOK(t), NEW i \in 1 .. Len(t), NEW o \in GenOrder,
         o.ref = t[i].ref, o.locate = t[i].locate, o.side = t[i].side,
         o.price = t[i].price, NEW u \in Seq(GenOrder), Len(u) = Len(t),
         \A j \in 1 .. Len(t) : u[j] = IF j = i THEN o ELSE t[j]
  PROVE  /\ ListOK(u) /\ Members(u) = (Members(t) \ {t[i]}) \cup {o}
         /\ Len(u) = Len(t)
<1>1. /\ u \in Seq(GenOrder) /\ Len(u) = Len(t)
      /\ \A j \in 1 .. Len(t) : u[j] = IF j = i THEN o ELSE t[j]
  OBVIOUS
<1>2. \A j \in 1 .. Len(t) : u[j].ref = t[j].ref
  BY <1>1
<1>3. \A j, k \in 1 .. Len(u) : u[j].ref = u[k].ref => j = k
  BY <1>1, <1>2 DEF ListOK
<1>4. \A j \in 1 .. Len(u) : u[j].price \in Generator!RandPrices(u[j].locate, u[j].side)
  BY <1>1 DEF ListOK
<1>5. Members(u) = (Members(t) \ {t[i]}) \cup {o}
  <2>1. ASSUME NEW j \in 1 .. Len(t), j # i
        PROVE  t[j] \in Members(u) /\ t[j] # t[i] /\ t[j] \in Members(t) /\ u[j] = t[j]
    <3>1. t[j].ref # t[i].ref
      BY <2>1 DEF ListOK
    <3> QED
      BY <2>1, <3>1, <1>1 DEF Members
  <2>2. o \in Members(u) /\ u[i] = o
    BY <1>1 DEF Members
  <2>3. Members(t) \ {t[i]} \subseteq Members(u)
    BY <2>1 DEF Members
  <2>4. Members(u) \subseteq (Members(t) \ {t[i]}) \cup {o}
    BY <2>1, <2>2, <1>1 DEF Members
  <2> QED
    BY <2>2, <2>3, <2>4
<1>6. Len(u) <= MaxLive
  BY <1>1 DEF ListOK
<1> QED
  BY <1>1, <1>3, <1>4, <1>5, <1>6 DEF ListOK

\* What sending a message does to the list: the order it names is the only one
\* with its reference.
LEMMA NamedOrder ==
  ASSUME GenInv, NEW i \in 1 .. Len(live)
  PROVE  (CHOOSE j \in DOMAIN live : live[j].ref = live[i].ref) = i
<1>1. \A j \in DOMAIN live : live[j].ref = live[i].ref <=> j = i
  BY LiveType DEF GenInv, ListOK
<1> QED
  BY <1>1, LiveType

GenOrderOf(r, like, m) ==
  [ref |-> r, locate |-> like.locate, side |-> like.side, price |-> m.price,
   shares |-> m.shares]

LEMMA SendEffect ==
  ASSUME GenInv, NEW m, Generator!Send(m)
  PROVE  /\ m.type = "Add" => live' = Append(live, GenOrderOf(m.ref, m, m))
         /\ \A i \in 1 .. Len(live) :
              /\ SendsReduce(m, i) =>
                   live' = IF live[i].shares = m.shares THEN Generator!RemoveAt(live, i)
                           ELSE [live EXCEPT ![i].shares = @ - m.shares]
              /\ SendsDelete(m, i) => live' = Generator!RemoveAt(live, i)
              /\ SendsReplace(m, i) =>
                   live' = Append(Generator!RemoveAt(live, i),
                                  GenOrderOf(m.new_ref, live[i], m))
         /\ m.type \in {"Trade", "System"} => live' = live
<1>1. ASSUME NEW i \in 1 .. Len(live), m.ref = live[i].ref
      PROVE  (CHOOSE j \in DOMAIN live : live[j].ref = m.ref) = i
  BY <1>1, NamedOrder
<1>2. m.type = "Add" => live' = Append(live, GenOrderOf(m.ref, m, m))
  BY DEF Generator!Send, Generator!OrderOf, GenOrderOf
<1>3. m.type \in {"Trade", "System"} => live' = live
  BY DEF Generator!Send
<1>4. ASSUME NEW i \in 1 .. Len(live), SendsReduce(m, i)
      PROVE  live' = IF live[i].shares = m.shares THEN Generator!RemoveAt(live, i)
                     ELSE [live EXCEPT ![i].shares = @ - m.shares]
  <2>1. live' = Generator!LiveAfterTaking(i, m.shares)
    BY <1>4, <1>1 DEF SendsReduce, Generator!Send
  <2> QED
    BY <2>1 DEF Generator!LiveAfterTaking
<1>5. ASSUME NEW i \in 1 .. Len(live), SendsDelete(m, i)
      PROVE  live' = Generator!RemoveAt(live, i)
  BY <1>5, <1>1 DEF SendsDelete, Generator!Send
<1>6. ASSUME NEW i \in 1 .. Len(live), SendsReplace(m, i)
      PROVE  live' = Append(Generator!RemoveAt(live, i),
                            GenOrderOf(m.new_ref, live[i], m))
  BY <1>6, <1>1 DEF SendsReplace, Generator!Send, Generator!OrderOf, GenOrderOf
<1> QED
  BY <1>2, <1>3, <1>4, <1>5, <1>6

\* One step of the list: an order more, an order less, an order with fewer shares,
\* or another order in the place of one.
LEMMA ListSteps ==
  ASSUME GenInv, NEW m, Sends(m), Generator!Send(m)
  PROVE  /\ GenInv'
         /\ SendsAdd(m) => Members(live') = Members(live) \cup {GenOrderOf(m.ref, m, m)}
         /\ \A i \in 1 .. Len(live) :
              /\ SendsReduce(m, i) =>
                   Members(live') =
                     (Members(live) \ {live[i]})
                     \cup (IF live[i].shares = m.shares THEN {}
                           ELSE {[live[i] EXCEPT !.shares = @ - m.shares]})
              /\ SendsDelete(m, i) => Members(live') = Members(live) \ {live[i]}
              /\ SendsReplace(m, i) =>
                   Members(live') = (Members(live) \ {live[i]})
                                    \cup {GenOrderOf(m.new_ref, live[i], m)}
         /\ m.type \in {"Trade", "System"} => live' = live
<1>1. ASSUME SendsAdd(m)
      PROVE  /\ ListOK(live')
             /\ Members(live') = Members(live) \cup {GenOrderOf(m.ref, m, m)}
  <2> DEFINE o == GenOrderOf(m.ref, m, m)
  <2>1. live' = Append(live, o) /\ Len(live) < MaxLive
    BY <1>1, SendEffect DEF SendsAdd
  <2>2. /\ o \in GenOrder /\ o.price \in Generator!RandPrices(o.locate, o.side)
        /\ \A i \in 1 .. Len(live) : live[i].ref # o.ref
    <3>1. m.price \in Prices
      BY <1>1, DrawsPrices DEF SendsAdd
    <3> QED
      BY <1>1, <3>1 DEF SendsAdd, IsFresh, GenOrderOf, GenOrder
  <2> HIDE DEF o
  <2> QED
    BY <2>1, <2>2, AppendToList DEF GenInv, o
<1>2. ASSUME NEW i \in 1 .. Len(live), SendsReduce(m, i)
      PROVE  /\ ListOK(live')
             /\ Members(live') =
                  (Members(live) \ {live[i]})
                  \cup (IF live[i].shares = m.shares THEN {}
                        ELSE {[live[i] EXCEPT !.shares = @ - m.shares]})
  <2>1. live' = IF live[i].shares = m.shares THEN Generator!RemoveAt(live, i)
                ELSE [live EXCEPT ![i].shares = @ - m.shares]
    BY <1>2, SendEffect
  <2>2. CASE live[i].shares = m.shares
    BY <2>1, <2>2, RemoveFromList DEF GenInv
  <2>3. CASE live[i].shares # m.shares
    <3> DEFINE o == [live[i] EXCEPT !.shares = @ - m.shares]
    <3>1. live' = [live EXCEPT ![i] = o]
      BY <2>1, <2>3
    <3>2. /\ live[i] \in GenOrder /\ m.shares \in 1 .. live[i].shares
          /\ live[i].shares \in 1 .. MaxShares /\ MaxShares \in Nat
      BY <1>2, LiveType, SharesFit DEF SendsReduce, GenOrder
    <3>3. live[i].shares - m.shares \in 1 .. MaxShares
      BY <3>2, <2>3
    <3>4. /\ o \in GenOrder /\ o.ref = live[i].ref /\ o.locate = live[i].locate
          /\ o.side = live[i].side /\ o.price = live[i].price
      BY <3>2, <3>3 DEF GenOrder
    <3> HIDE DEF o
    <3>6. /\ live' \in Seq(GenOrder) /\ Len(live') = Len(live)
          /\ \A j \in 1 .. Len(live) : live'[j] = IF j = i THEN o ELSE live[j]
      <4>1. live \in Seq(GenOrder) /\ i \in 1 .. Len(live) /\ o \in GenOrder
        BY <3>4 DEF GenInv, ListOK
      <4>2. /\ [live EXCEPT ![i] = o] \in Seq(GenOrder)
            /\ Len([live EXCEPT ![i] = o]) = Len(live)
            /\ \A j \in 1 .. Len(live) :
                 [live EXCEPT ![i] = o][j] = IF j = i THEN o ELSE live[j]
        BY <4>1, ExceptSeq
      <4> QED
        BY <3>1, <4>1, <4>2
    <3>5. ListOK(live') /\ Members(live') = (Members(live) \ {live[i]}) \cup {o}
      BY <3>4, <3>6, UpdateList DEF GenInv
    <3> QED
      BY <3>5, <2>3 DEF o
  <2> QED
    BY <2>2, <2>3
<1>3. ASSUME NEW i \in 1 .. Len(live), SendsDelete(m, i)
      PROVE  ListOK(live') /\ Members(live') = Members(live) \ {live[i]}
  BY <1>3, SendEffect, RemoveFromList DEF GenInv
<1>4. ASSUME NEW i \in 1 .. Len(live), SendsReplace(m, i)
      PROVE  /\ ListOK(live')
             /\ Members(live') = (Members(live) \ {live[i]})
                                 \cup {GenOrderOf(m.new_ref, live[i], m)}
  <2> DEFINE t == Generator!RemoveAt(live, i)
             o == GenOrderOf(m.new_ref, live[i], m)
  <2>1. live' = Append(t, o)
    BY <1>4, SendEffect
  <2>2. ListOK(t) /\ Members(t) = Members(live) \ {live[i]} /\ Len(t) = Len(live) - 1
    BY RemoveFromList DEF GenInv
  <2>3. /\ o \in GenOrder /\ o.price \in Generator!RandPrices(o.locate, o.side)
        /\ o.ref = m.new_ref /\ \A j \in 1 .. Len(live) : live[j].ref # m.new_ref
    <3>1. live[i].locate \in Locates /\ live[i].side \in Sides
      BY LiveType DEF GenOrder
    <3>2. m.price \in Prices
      BY <1>4, <3>1, DrawsPrices DEF SendsReplace
    <3> QED
      BY <1>4, <3>1, <3>2 DEF SendsReplace, IsFresh, GenOrderOf, GenOrder
  <2> HIDE DEF t, o
  <2>4. \A j \in 1 .. Len(t) : t[j].ref # o.ref
    BY <2>2, <2>3 DEF Members
  <2>5. Len(t) < MaxLive
    BY <2>2, LiveType, GeneratorAssumption DEF GenInv, ListOK
  <2>6. ListOK(live') /\ Members(live') = Members(t) \cup {o}
    BY <2>1, <2>2, <2>3, <2>4, <2>5, AppendToList
  <2> QED
    BY <2>2, <2>6 DEF o
<1>5. m.type \in {"Trade", "System"} => live' = live
  BY SendEffect
<1>6. ListOK(live')
  BY <1>1, <1>2, <1>3, <1>4, <1>5 DEF Sends, SendsTrade, GenInv
<1> QED
  BY <1>1, <1>2, <1>3, <1>4, <1>5, <1>6 DEF GenInv, ListOK, Members

-----------------------------------------------------------------------------
(* A step of the two books side by side. *)

CoIInv == IInv /\ GenInv /\ CoInv

LEMMA AnyMsgFields ==
  ASSUME NEW m \in AnyMsgs
  PROVE  Fields(m)
<1>1. CASE m \in AddMsgs
  BY <1>1, MsgType DEF Fields, AddMsgs
<1>2. CASE m \in ReduceMsgs
  BY <1>2, MsgType DEF Fields, ReduceMsgs, ExecMsgs, ExecPriceMsgs, CancelMsgs
<1>3. CASE m \in DeleteMsgs
  BY <1>3 DEF Fields, DeleteMsgs
<1>4. CASE m \in ReplaceMsgs
  BY <1>4, MsgType DEF Fields, ReplaceMsgs
<1>5. CASE m \in TradeMsgs
  BY <1>5, MsgType DEF Fields, TradeMsgs
<1>6. CASE m \in OtherMsgs
  BY <1>6 DEF Fields, OtherMsgs
<1> QED
  BY <1>1, <1>2, <1>3, <1>4, <1>5, <1>6 DEF AnyMsgs

\* Whoever sends it, a step is the application of one message.
LEMMA CoNextApplies ==
  ASSUME GenInv, CoNext
  PROVE  /\ GenInv'
         /\ \E m : Fields(m) /\ Apply(m)
<1>1. CASE feed = "any" /\ (\E m \in AnyMsgs : Apply(m)) /\ UNCHANGED <<live, systems>>
  <2>1. PICK m \in AnyMsgs : Apply(m)
    BY <1>1
  <2>2. Fields(m)
    BY <2>1, AnyMsgFields
  <2> QED
    BY <1>1, <2>1, <2>2 DEF GenInv, ListOK
<1>2. CASE feed = "generator" /\ \E m \in Generator!Messages : Apply(m) /\ Generator!Send(m)
  <2>1. PICK m \in Generator!Messages : Apply(m) /\ Generator!Send(m)
    BY <1>2
  <2>2. Sends(m)
    BY <2>1, MessageKinds
  <2> QED
    BY <2>1, <2>2, SendsFields, ListSteps
<1> QED
  BY <1>1, <1>2 DEF CoNext

LEMMA CoInitInv == CoInit => CoIInv
<1> SUFFICES ASSUME CoInit PROVE IInv /\ GenInv /\ CoInv
  BY DEF CoIInv
<1>1. IInv
  BY InitInv DEF CoInit
<1>2. GenInv
  <2>1. live = <<>>
    BY DEF CoInit, Generator!GenInit
  <2>2. Len(<<>>) = 0 /\ <<>> \in Seq(GenOrder)
    OBVIOUS
  <2> QED
    BY <2>1, <2>2, GeneratorAssumption DEF GenInv, ListOK
<1>3. CoInv
  <2>1. /\ refs = [r \in RefIds |-> NoOrder] /\ books = [l \in Locates |-> NoBook]
        /\ ref_orders = Oracle!NoKeys /\ ref_books = Oracle!NoKeys
    BY DEF CoInit, Init, Oracle!Init
  <2>2. OrdersAgree
    BY <2>1 DEF OrdersAgree, LiveRefs, LiveIn, Oracle!NoKeys
  <2>3. \A l \in Locates : Oracle!BookAt(l) = Oracle!EmptySymbolBook /\ BookOf(l) = EmptyBook
    BY <2>1 DEF Oracle!BookAt, Oracle!NoKeys, BookOf
  <2>4. ASSUME NEW l \in Locates, NEW s \in Sides
        PROVE  SideIs(OracleSide(l, s), BookOf(l).shares[s], BookOf(l).orders[s])
    <3>1. OracleSide(l, s) = Oracle!EmptySide
      BY <2>3 DEF OracleSide, Oracle!SideOf, Oracle!EmptySymbolBook
    <3>2. NonEmpty(BookOf(l).shares[s]) = {}
      BY <2>3 DEF EmptyBook, NonEmpty
    <3> QED
      BY <3>1, <3>2 DEF SideIs, Oracle!EmptySide, Oracle!NoKeys
  <2> QED
    BY <2>2, <2>3, <2>4 DEF CoInv, Agree, Oracle!EmptySymbolBook
<1> QED
  BY <1>1, <1>2, <1>3

LEMMA CoNextHandles == GenInv /\ [CoNext]_coVars => [Handles]_vars
<1> SUFFICES ASSUME GenInv, [CoNext]_coVars PROVE [Handles]_vars
  OBVIOUS
<1>1. CASE CoNext
  BY <1>1, CoNextApplies, ApplyHandles
<1>2. CASE UNCHANGED coVars
  BY <1>2 DEF coVars
<1> QED
  BY <1>1, <1>2

LEMMA CoNextInv == CoIInv /\ [CoNext]_coVars => CoIInv'
<1> SUFFICES ASSUME IInv, GenInv, CoInv, [CoNext]_coVars PROVE IInv' /\ GenInv' /\ CoInv'
  BY DEF CoIInv
<1>1. CASE CoNext
  <2>1. PICK m : Fields(m) /\ Apply(m)
    BY <1>1, CoNextApplies
  <2> QED
    BY <1>1, <2>1, CoNextApplies, ApplyHandles, HandlesInv, ApplyKeepsAgreement
<1>2. CASE UNCHANGED coVars
  <2>1. UNCHANGED vars /\ live' = live /\ clean' = clean
    BY <1>2 DEF coVars, vars
  <2>2. IInv'
    BY <2>1 DEF vars, IInv, TypeOK, LevelsMatchRefs, TableFits, BookOf, LiveRefs
  <2>3. Agree => Agree'
    BY <1>2, QuietKeepsAgreement DEF coVars, vars
  <2> QED
    BY <2>1, <2>2, <2>3 DEF GenInv, CoInv
<1> QED
  BY <1>1, <1>2

\* What the oracle's maps hold shows in its queries as in the engine's.
LEMMA AgreeIsSame ==
  ASSUME IInv, BestIsExtreme, Agree
  PROVE  SameSemantics
<1>1. LevelsAgree
  BY SideIsAt, LevelsEmptyTogether
     DEF LevelsAgree, Agree, OracleSide, Oracle!SharesAt, Oracle!OrdersAt
<1>2. ASSUME NEW l \in Locates, NEW s \in Sides
      PROVE  LET best == IF s = BUY THEN Oracle!BestBid(l) ELSE Oracle!BestAsk(l)
             IN  /\ BookOf(l).best[s] = best
                 /\ BestDepth(BookOf(l), s) = Oracle!SharesAt(l, s, best)
  <2> DEFINE shares == BookOf(l).shares[s]
             P == NonEmpty(shares)
             best == IF s = BUY THEN Oracle!BestBid(l) ELSE Oracle!BestAsk(l)
  <2>1. /\ DOMAIN OracleSide(l, s).shares = P
        /\ \A p \in P : OracleSide(l, s).shares[p] = shares[p]
    BY DEF Agree, SideIs
  <2>2. best = IF s = BUY THEN Highest(P) ELSE Lowest(P)
    <3>1. CASE s = BUY
      <4>1. DOMAIN Oracle!BookAt(l).bid.shares = P
        BY <2>1, <3>1 DEF OracleSide, Oracle!SideOf
      <4>2. Oracle!BestBid(l) = Highest(DOMAIN Oracle!BookAt(l).bid.shares)
        BY DEF Oracle!BestBid, Highest
      <4> QED
        BY <3>1, <4>1, <4>2
    <3>2. CASE s # BUY
      <4>1. DOMAIN Oracle!BookAt(l).ask.shares = P
        BY <2>1, <3>2 DEF OracleSide, Oracle!SideOf
      <4>2. Oracle!BestAsk(l) = Lowest(DOMAIN Oracle!BookAt(l).ask.shares)
        BY DEF Oracle!BestAsk, Lowest
      <4> QED
        BY <3>2, <4>1, <4>2
    <3> QED
      BY <3>1, <3>2
  <2>3. BookOf(l).best[s] = best
    BY <2>2 DEF BestIsExtreme, BestPrice
  <2>4. BestDepth(BookOf(l), s) = Oracle!SharesAt(l, s, best)
    <3>1. P \subseteq Prices /\ 0 \notin P
      BY PricesType DEF NonEmpty
    <3>2. best = 0 \/ best \in P
      BY <2>2, <3>1, HighestExtreme, LowestExtreme
    <3>3. Oracle!SharesAt(l, s, best) = IF best \in P THEN shares[best] ELSE 0
      BY <2>1 DEF Oracle!SharesAt, Oracle!At, OracleSide
    <3> QED
      BY <2>3, <3>1, <3>2, <3>3 DEF BestDepth
  <2> QED
    BY <2>3, <2>4
<1>3. BestsAgree
  BY <1>2 DEF BestsAgree
<1> QED
  BY <1>1, <1>3 DEF SameSemantics, Agree

-----------------------------------------------------------------------------
(* The generator keeps in step with the engine. *)

\* The table t holds the orders T and no others.
Tracks(t, T) ==
  /\ LiveIn(t) = {o.ref : o \in T}
  /\ \A o \in T : t[o.ref] = Resting(o)

Tracking == feed = "generator" => clean /\ Tracks(refs, Members(live))

\* The sizes for which the generator's bounds keep it within the engine's.
LEMMA GeneratorBounds ==
  /\ MaxLive \in Nat /\ MaxShares \in Nat /\ MaxLive <= RefCapacity
  /\ \A n \in Nat, q \in 1 .. MaxShares :
       n < MaxLive => n < MaxU32 /\ n * MaxShares \in Nat /\ n * MaxShares <= MaxU32 - q
<1>1. /\ MaxLive \in Nat \ {0} /\ MaxShares \in Nat \ {0} /\ MaxU32 \in Nat
      /\ MaxLive * MaxShares <= MaxU32 /\ MaxLive <= RefCapacity
  BY GeneratorAssumption, MaxU32Assumption
<1>2. ASSUME NEW n \in Nat, NEW q \in 1 .. MaxShares, n < MaxLive
      PROVE  n < MaxU32 /\ n * MaxShares \in Nat /\ n * MaxShares <= MaxU32 - q
  <2> DEFINE k == MaxLive - n
  <2>1. k \in Nat \ {0} /\ MaxLive = n + k
    BY <1>1, <1>2
  <2> HIDE DEF k
  <2>2. MaxLive * MaxShares = n * MaxShares + k * MaxShares
    BY <1>1, <2>1
  <2>3. n * MaxShares \in Nat /\ k * MaxShares >= MaxShares
    BY <1>1, <2>1
  <2>4. k * MaxShares \in Nat /\ MaxLive * MaxShares \in Nat
    BY <1>1, <2>1
  <2>5. MaxLive <= MaxLive * MaxShares
    BY <1>1
  <2> QED
    BY <1>1, <1>2, <2>2, <2>3, <2>4, <2>5
<1> QED
  BY <1>1, <1>2

LEMMA MembersBound ==
  ASSUME NEW t, ListOK(t)
  PROVE  /\ IsFiniteSet({o.ref : o \in Members(t)})
         /\ Cardinality({o.ref : o \in Members(t)}) \in Nat
         /\ Cardinality({o.ref : o \in Members(t)}) <= Len(t)
<1> DEFINE n == Len(t)
           R == {o.ref : o \in Members(t)}
           f == [i \in 1 .. n |-> t[i].ref]
<1>1. n \in Nat
  BY ListType
<1>2. IsFiniteSet(1 .. n) /\ Cardinality(1 .. n) = n
  <2>1. PICK k \in Nat : k = n
    BY <1>1
  <2>2. 1 \in Int /\ k \in Int /\ 1 .. k = 1 .. n
    BY <2>1
  <2>3. IsFiniteSet(1 .. k) /\ Cardinality(1 .. k) = IF k < 1 THEN 0 ELSE k - 1 + 1
    BY <2>2, FS_Interval
  <2>4. (IF k < 1 THEN 0 ELSE k - 1 + 1) = k
    OBVIOUS
  <2> QED
    BY <2>1, <2>2, <2>3, <2>4
<1>3. f \in Surjection(1 .. n, R)
  BY DEF Members, Surjection
<1> HIDE DEF f, R, n
<1>4. IsFiniteSet(R) /\ Cardinality(R) <= n
  BY <1>2, <1>3, FS_Surjection
<1> QED
  BY <1>4, FS_CardinalityType DEF R, n

\* A level of a table totals at most the shares its orders can have.
LEMMA TotalsBound ==
  ASSUME NEW t \in Table, \A r \in LiveIn(t) : t[r].shares <= MaxShares,
         NEW l, NEW s, NEW p
  PROVE  /\ OrderCount(t, l, s, p) <= Cardinality(LiveIn(t))
         /\ ShareTotal(t, l, s, p) <= Cardinality(LiveIn(t)) * MaxShares
<1> DEFINE A == OrdersAt(t, l, s, p)
           L == LiveIn(t)
           U == SharesOf(t, A)
<1>1. A \in SUBSET L /\ IsFiniteSet(L)
  BY LiveFinite DEF OrdersAt
<1>2. Cardinality(A) <= Cardinality(L)
  BY <1>1, FS_Subset
<1>3. IsFiniteSet(1 .. MaxShares) /\ Cardinality(1 .. MaxShares) = MaxShares
  BY SharesFit, FS_Interval
<1>4. U \subseteq L \X (1 .. MaxShares)
  <2>1. \A r \in A : r \in L /\ t[r].shares \in Nat /\ t[r].shares <= MaxShares
    BY <1>1, LiveIsOrder DEF Order, U32
  <2> HIDE DEF A, L
  <2> QED
    BY <2>1, SharesFit DEF SharesOf
<1> HIDE DEF L, U
<1>5. /\ IsFiniteSet(L \X (1 .. MaxShares))
      /\ Cardinality(L \X (1 .. MaxShares)) = Cardinality(L) * Cardinality(1 .. MaxShares)
  BY <1>1, <1>3, FS_Product, Zenon
<1>6. Cardinality(U) <= Cardinality(L \X (1 .. MaxShares))
  BY <1>4, <1>5, FS_Subset, Zenon
<1>7. Cardinality(L \X (1 .. MaxShares)) = Cardinality(L) * MaxShares
  BY <1>3, <1>5, Zenon
<1>8. Cardinality(U) <= Cardinality(L) * MaxShares
  BY <1>6, <1>7, Zenon
<1> QED
  BY <1>2, <1>8 DEF OrderCount, ShareTotal, L, U

\* Where the table tracks the list, its orders are those of the list.
LEMMA TrackedOrder ==
  ASSUME GenInv, Tracks(refs, Members(live)), NEW i \in 1 .. Len(live)
  PROVE  /\ live[i].ref \in LiveRefs /\ refs[live[i].ref] = Resting(live[i])
         /\ live[i] \in GenOrder /\ live[i].shares \in 1 .. MaxShares
         /\ refs[live[i].ref].shares = live[i].shares
<1>1. live[i] \in GenOrder /\ live[i] \in Members(live)
  BY LiveType DEF Members
<1>2. live[i].ref \in LiveRefs /\ refs[live[i].ref] = Resting(live[i])
  BY <1>1 DEF Tracks, LiveRefs
<1>3. live[i].shares \in 1 .. MaxShares
  BY <1>1 DEF GenOrder
<1> QED
  BY <1>1, <1>2, <1>3 DEF Resting

LEMMA TrackedShares ==
  ASSUME GenInv, Tracks(refs, Members(live)), NEW r \in LiveRefs
  PROVE  refs[r].shares <= MaxShares
<1>1. PICK i \in 1 .. Len(live) : r = live[i].ref
  BY DEF Tracks, Members, LiveRefs
<1> QED
  BY <1>1, TrackedOrder, SharesFit

\* A table of fewer than MaxLive orders of the generator's sizes takes one more
\* at every level.
LEMMA RoomAtLevel ==
  ASSUME NEW t \in Table, \A r \in LiveIn(t) : t[r].shares <= MaxShares,
         Cardinality(LiveIn(t)) < MaxLive, NEW qty \in 1 .. MaxShares,
         NEW l, NEW s, NEW p
  PROVE  /\ ShareTotal(t, l, s, p) \in Nat /\ ShareTotal(t, l, s, p) <= MaxU32 - qty
         /\ OrderCount(t, l, s, p) \in Nat /\ OrderCount(t, l, s, p) < MaxU32
<1> DEFINE n == Cardinality(LiveIn(t))
<1>1. n \in Nat
  BY LiveFinite
<1>2. n < MaxU32 /\ n * MaxShares \in Nat /\ n * MaxShares <= MaxU32 - qty
  BY <1>1, GeneratorBounds
<1>3. OrderCount(t, l, s, p) <= n /\ ShareTotal(t, l, s, p) <= n * MaxShares
  BY TotalsBound
<1>4. OrderCount(t, l, s, p) \in Nat /\ ShareTotal(t, l, s, p) \in Nat
  BY TotalsNat
<1> HIDE DEF n
<1>5. qty \in Nat /\ MaxU32 \in Nat
  BY MaxU32Assumption, SharesFit
<1> QED
  BY <1>1, <1>2, <1>3, <1>4, <1>5

\* The engine takes every message of a generator it is in step with.
LEMMA AddIsTaken ==
  ASSUME IInv, GenInv, Tracks(refs, Members(live)), NEW m, SendsAdd(m)
  PROVE  AddStatus(m) = "Applied"
<1> DEFINE b == BookOf(m.locate)
<1>1. /\ m.side \in Sides /\ m.ref \in RefIds /\ m.locate \in Locates /\ m.shares # 0
      /\ m.shares \in 1 .. MaxShares /\ m.price \in Prices /\ Len(live) < MaxLive
  BY DrawsPrices, SharesFit DEF SendsAdd, IsFresh
<1>2. ValidAdd(m)
  BY <1>1, RefIdsAssumption, LocatesAssumption DEF ValidAdd
<1>3. m.ref \notin LiveRefs
  BY DEF SendsAdd, IsFresh, Tracks, Members, LiveRefs
<1>4. Cardinality(LiveRefs) < MaxLive /\ Cardinality(LiveRefs) \in Nat
  BY <1>1, MembersBound, LiveType, GeneratorBounds DEF GenInv, Tracks, LiveRefs
<1>5. CanInsert(refs, m.ref)
  BY <1>1, <1>4, GeneratorBounds, RefCapacityAssumption DEF CanInsert, LiveRefs
<1>6. CanAdd(b, m.side, m.price, m.shares)
  <2>1. refs \in Table
    BY DEF IInv, TypeOK, Table
  <2>2. /\ ShareTotal(refs, m.locate, m.side, m.price) <= MaxU32 - m.shares
        /\ OrderCount(refs, m.locate, m.side, m.price) < MaxU32
        /\ OrderCount(refs, m.locate, m.side, m.price) \in Nat
    BY <1>1, <1>4, <2>1, TrackedShares, RoomAtLevel DEF LiveRefs
  <2>3. /\ b.shares[m.side][m.price] = ShareTotal(refs, m.locate, m.side, m.price)
        /\ b.orders[m.side][m.price] = OrderCount(refs, m.locate, m.side, m.price)
        /\ b.shares[m.side][m.price] = 0 <=> b.orders[m.side][m.price] = 0
    BY <1>1, LevelsEmptyTogether DEF IInv, LevelsMatchRefs
  <2>4. b.orders[m.side][m.price] # MaxU32
    BY <2>2, <2>3, MaxU32Assumption
  <2> QED
    BY <1>1, <2>2, <2>3, <2>4 DEF CanAdd
<1> QED
  BY <1>2, <1>3, <1>5, <1>6 DEF AddStatus

LEMMA ReduceIsTaken ==
  ASSUME IInv, GenInv, Tracks(refs, Members(live)), NEW m, NEW i \in 1 .. Len(live),
         SendsReduce(m, i)
  PROVE  ReduceStatus(m) = "Applied"
<1>1. /\ m.ref \in LiveRefs /\ refs[m.ref].shares = live[i].shares
      /\ m.shares \in 1 .. live[i].shares /\ live[i].shares \in 1 .. MaxShares
  <2>1. m.ref = live[i].ref /\ m.shares \in 1 .. live[i].shares
    BY DEF SendsReduce
  <2> QED
    BY <2>1, TrackedOrder
<1>2. /\ m.shares \in U32 /\ m.shares # 0 /\ m.shares <= refs[m.ref].shares
      /\ ~(m.shares > refs[m.ref].shares)
  BY <1>1, SharesFit
<1>3. m.ref # NullRef
  BY <1>1, LiveFinite, RefIdsAssumption DEF LiveRefs
<1> QED
  BY <1>1, <1>2, <1>3, CanReduceHolds DEF ReduceStatus

LEMMA DeleteIsTaken ==
  ASSUME IInv, GenInv, Tracks(refs, Members(live)), NEW m, NEW i \in 1 .. Len(live),
         SendsDelete(m, i)
  PROVE  DeleteStatus(m) = "Applied"
<1>1. m.ref \in LiveRefs
  BY TrackedOrder DEF SendsDelete
<1>2. refs[m.ref].shares \in U32 /\ refs[m.ref].shares # 0
      /\ refs[m.ref].shares <= refs[m.ref].shares
  BY <1>1, LiveLocate DEF IInv, Order, U32
<1> QED
  BY <1>1, <1>2, CanReduceHolds DEF DeleteStatus

LEMMA ReplaceIsTaken ==
  ASSUME IInv, GenInv, Tracks(refs, Members(live)), NEW m, NEW i \in 1 .. Len(live),
         SendsReplace(m, i), ReplaceFields(m)
  PROVE  ReplaceStatus(m) = "Applied"
<1> DEFINE old == refs[m.ref]
           b == BookOf(old.locate)
           e == Erase(refs, m.ref)
<1>1. /\ m.ref \in LiveRefs /\ old = Resting(live[i]) /\ live[i] \in GenOrder
      /\ m.new_ref \in RefIds /\ m.shares \in 1 .. MaxShares
  BY TrackedOrder DEF SendsReplace, IsFresh
<1>2. m.price \in Prices
  BY <1>1, DrawsPrices DEF SendsReplace, GenOrder
<1>3. m.new_ref \notin LiveRefs
  BY DEF SendsReplace, IsFresh, Tracks, Members, LiveRefs
<1>4. ValidReplace(m)
  BY <1>1, <1>2, <1>3, RefIdsAssumption, SharesFit DEF ValidReplace
<1>5. /\ old \in Order /\ old.locate \in Locates /\ old.side \in Sides
      /\ old.price \in Prices /\ old.shares \in U32 /\ old.shares # 0
  BY <1>1, LiveLocate DEF IInv, Order
<1>6. refs \in Table /\ e \in Table /\ LiveIn(e) = LiveRefs \ {m.ref}
      /\ Cardinality(LiveIn(e)) = Cardinality(LiveRefs) - 1
  BY <1>1, EraseType DEF IInv, TypeOK, Table, LiveRefs
<1>7. Cardinality(LiveIn(e)) < MaxLive
  <2>1. Cardinality(LiveRefs) <= Len(live) /\ Len(live) <= MaxLive
    BY MembersBound DEF GenInv, Tracks, LiveRefs, ListOK
  <2> QED
    BY <1>6, <2>1, LiveFinite, LiveType, GeneratorBounds DEF LiveRefs
<1>8. \A r \in LiveIn(e) : e[r].shares <= MaxShares
  <2>1. ASSUME NEW r \in LiveIn(e) PROVE e[r] = refs[r] /\ r \in LiveRefs
    BY <1>6, LiveFinite DEF Erase, Table, LiveRefs
  <2> QED
    BY <2>1, TrackedShares
<1> HIDE DEF e
<1>9. \A p \in Prices :
        /\ ShareTotal(e, old.locate, old.side, p) \in Nat
        /\ ShareTotal(e, old.locate, old.side, p) <= MaxU32 - m.shares
        /\ OrderCount(e, old.locate, old.side, p) \in Nat
        /\ OrderCount(e, old.locate, old.side, p) < MaxU32
  BY <1>1, <1>6, <1>7, <1>8, RoomAtLevel
<1>10. \A p \in Prices :
         /\ b.shares[old.side][p] =
              ShareTotal(e, old.locate, old.side, p)
              + (IF p = old.price THEN old.shares ELSE 0)
         /\ p # old.price =>
              b.orders[old.side][p] = OrderCount(e, old.locate, old.side, p)
  <2> SUFFICES ASSUME NEW p \in Prices
               PROVE  /\ b.shares[old.side][p] =
                           ShareTotal(e, old.locate, old.side, p)
                           + (IF p = old.price THEN old.shares ELSE 0)
                      /\ p # old.price =>
                           b.orders[old.side][p] = OrderCount(e, old.locate, old.side, p)
    OBVIOUS
  <2>1. /\ b.shares[old.side][p] = ShareTotal(refs, old.locate, old.side, p)
        /\ b.orders[old.side][p] = OrderCount(refs, old.locate, old.side, p)
    BY <1>5 DEF IInv, LevelsMatchRefs
  <2>2. /\ OrderCount(refs, old.locate, old.side, p)
             = OrderCount(e, old.locate, old.side, p)
               + Counted(old, old.locate, old.side, p, 1)
        /\ ShareTotal(refs, old.locate, old.side, p)
             = ShareTotal(e, old.locate, old.side, p)
               + Counted(old, old.locate, old.side, p, old.shares)
    BY <1>1, <1>6, EraseTotals DEF e, LiveRefs
  <2>3. \A n : Counted(old, old.locate, old.side, p, n) = IF p = old.price THEN n ELSE 0
    BY DEF Counted, RestsAt
  <2> HIDE DEF old, b
  <2> QED
    BY <2>1, <2>2, <2>3, <1>9
<1>11. CanReplace(b, old.side, old.price, old.shares, m.price, m.shares)
  <2>1. CanRemove(b, old.side, old.price, old.shares, TRUE)
    <3>1. old.shares <= old.shares
      BY <1>5 DEF U32
    <3>2. CanReduceBy(m.ref, old.shares)
      BY <1>1, <1>5, <3>1, CanReduceHolds
    <3> QED
      BY <3>2 DEF CanReduceBy
  <2>2. m.shares # 0 /\ m.shares \in Nat /\ old.shares \in Nat
    BY <1>1, <1>5, SharesFit DEF U32
  <2>3. ASSUME m.price # old.price
        PROVE  CanAdd(b, old.side, m.price, m.shares)
    <3>1. b.shares[old.side][m.price] = 0 <=> b.orders[old.side][m.price] = 0
      BY <1>2, <1>5, LevelsEmptyTogether
    <3>2. /\ b.shares[old.side][m.price] <= MaxU32 - m.shares
          /\ b.orders[old.side][m.price] # MaxU32
      BY <1>2, <1>9, <1>10, <2>3, MaxU32Assumption, SMTT(30)
    <3> QED
      BY <3>1, <3>2, <1>2, <1>5, <2>2 DEF CanAdd
  <2>4. ASSUME m.price = old.price
        PROVE  b.shares[old.side][m.price] - old.shares <= MaxU32 - m.shares
    BY <1>2, <1>9, <1>10, <2>2, <2>4, MaxU32Assumption
  <2> QED
    BY <2>1, <2>2, <2>3, <2>4, <1>2 DEF CanReplace
<1> QED
  BY <1>1, <1>3, <1>4, <1>11, ReplaceNeverRollsBack DEF ReplaceStatus

\* The table after an order is entered or erased tracks the list with it or without.
LEMMA TracksInsert ==
  ASSUME NEW t \in Table, NEW T, Tracks(t, T), NEW o,
         o.ref \in RefIds \ LiveIn(t), Resting(o) \in Order
  PROVE  Tracks(Insert(t, o.ref, Resting(o)), T \cup {o})
<1> DEFINE u == Insert(t, o.ref, Resting(o))
<1>1. /\ LiveIn(u) = LiveIn(t) \cup {o.ref}
      /\ \A q \in RefIds : u[q] = IF q = o.ref THEN Resting(o) ELSE t[q]
  BY InsertType
<1> HIDE DEF u
<1>2. \A a \in T : a.ref \in LiveIn(t) /\ a.ref \in RefIds /\ a.ref # o.ref
  BY LiveFinite DEF Tracks
<1>3. \A a \in T \cup {o} : u[a.ref] = Resting(a)
  BY <1>1, <1>2 DEF Tracks
<1>4. LiveIn(u) = {a.ref : a \in T \cup {o}}
  BY <1>1 DEF Tracks
<1> QED
  BY <1>3, <1>4 DEF Tracks, u

LEMMA TracksErase ==
  ASSUME NEW t \in Table, NEW T, Tracks(t, T), NEW o \in T,
         \A a \in T : a.ref = o.ref => a = o
  PROVE  Tracks(Erase(t, o.ref), T \ {o})
<1> DEFINE u == Erase(t, o.ref)
<1>1. o.ref \in LiveIn(t)
  BY DEF Tracks
<1>2. LiveIn(u) = LiveIn(t) \ {o.ref}
  BY <1>1, EraseType
<1>3. \A q \in RefIds \ {o.ref} : u[q] = t[q]
  BY DEF Erase, Table
<1> HIDE DEF u
<1>4. \A a \in T \ {o} : a.ref \in RefIds \ {o.ref}
  BY LiveFinite DEF Tracks
<1>5. LiveIn(u) = {a.ref : a \in T \ {o}}
  BY <1>2 DEF Tracks
<1> QED
  BY <1>3, <1>4, <1>5 DEF Tracks, u

\* The references of the list are distinct.
LEMMA OneOfItsRef ==
  ASSUME GenInv, NEW i \in 1 .. Len(live)
  PROVE  /\ live[i] \in Members(live)
         /\ \A a \in Members(live) : a.ref = live[i].ref => a = live[i]
BY DEF GenInv, ListOK, Members

\* Erasing the order the i-th entry names, and entering another in its place.
LEMMA TracksErased ==
  ASSUME IInv, GenInv, Tracks(refs, Members(live)), NEW i \in 1 .. Len(live)
  PROVE  LET e == Erase(refs, live[i].ref)
         IN  e \in Table /\ Tracks(e, Members(live) \ {live[i]})
             /\ LiveIn(e) = LiveRefs \ {live[i].ref}
<1>1. refs \in Table /\ live[i].ref \in LiveIn(refs)
  BY TrackedOrder DEF IInv, TypeOK, Table, LiveRefs
<1> QED
  BY <1>1, EraseType, TracksErase, OneOfItsRef DEF LiveRefs

LEMMA TrackingStep ==
  ASSUME IInv, GenInv, clean, Tracks(refs, Members(live)), NEW m, Sends(m), Fields(m),
         Apply(m), Generator!Send(m)
  PROVE  clean' /\ Tracks(refs', Members(live'))
<1>1. refs \in Table /\ clean \in BOOLEAN
  BY DEF IInv, TypeOK, Table
<1>2. ASSUME Report("Applied") PROVE clean'
  BY <1>2 DEF Report
<1>3. CASE SendsAdd(m)
  <2> DEFINE o == GenOrderOf(m.ref, m, m)
  <2>1. OnAdd(m) /\ AddStatus(m) = "Applied"
    BY <1>3, AddIsTaken DEF Apply, SendsAdd
  <2>2. /\ o.ref = m.ref /\ Resting(o) = OrderOf(m)
        /\ Members(live') = Members(live) \cup {o}
    BY <1>3, ListSteps DEF GenOrderOf, Resting, OrderOf
  <2>3. /\ m.ref \in RefIds \ LiveIn(refs) /\ OrderOf(m) \in Order
    <3>1. m.ref \in RefIds /\ m.ref \notin LiveRefs
      BY <1>3, <2>1 DEF SendsAdd, IsFresh, AddStatus
    <3>2. m.price \in Prices /\ m.shares \in U32 \ {0}
      BY <1>3, DrawsPrices, SharesFit DEF SendsAdd
    <3> QED
      BY <1>3, <3>1, <3>2 DEF SendsAdd, OrderOf, Order, LiveRefs
  <2>4. refs' = Insert(refs, m.ref, OrderOf(m))
    BY <2>1 DEF OnAdd
  <2> HIDE DEF o
  <2>5. Tracks(refs', Members(live'))
    BY <1>1, <2>2, <2>3, <2>4, TracksInsert
  <2> QED
    BY <1>2, <2>1, <2>5 DEF OnAdd
<1>4. ASSUME NEW i \in 1 .. Len(live), SendsReduce(m, i)
      PROVE  clean' /\ Tracks(refs', Members(live'))
  <2> DEFINE e == Erase(refs, live[i].ref)
             o == [live[i] EXCEPT !.shares = @ - m.shares]
  <2>1. OnReduce(m) /\ ReduceStatus(m) = "Applied"
    BY <1>4, ReduceIsTaken DEF Apply, SendsReduce
  <2>2. /\ m.ref = live[i].ref /\ m.ref \in LiveRefs /\ refs[m.ref] = Resting(live[i])
        /\ live[i] \in GenOrder /\ refs[m.ref].shares = live[i].shares
    BY <1>4, TrackedOrder DEF SendsReduce
  <2>3. e \in Table /\ Tracks(e, Members(live) \ {live[i]})
        /\ LiveIn(e) = LiveRefs \ {live[i].ref}
    BY TracksErased
  <2>4. refs' = RefsAfterReduce(m.ref, m.shares)
    BY <2>1 DEF OnReduce
  <2>5. Members(live') = (Members(live) \ {live[i]})
                         \cup (IF live[i].shares = m.shares THEN {} ELSE {o})
    BY <1>4, ListSteps
  <2>6. CASE live[i].shares = m.shares
    <3>1. refs' = e /\ Members(live') = Members(live) \ {live[i]}
      BY <2>2, <2>4, <2>5, <2>6 DEF RefsAfterReduce
    <3> QED
      BY <1>2, <2>1, <2>3, <3>1 DEF OnReduce
  <2>7. CASE live[i].shares # m.shares
    <3>1. refs' = [refs EXCEPT ![m.ref].shares = @ - m.shares]
      BY <2>2, <2>4, <2>7 DEF RefsAfterReduce
    <3>2. /\ o.ref = m.ref
          /\ Resting(o) = [Resting(live[i]) EXCEPT !.shares = @ - m.shares]
      BY <2>2 DEF GenOrder, Resting
    <3>3. refs' = Insert(refs, m.ref, Resting(o))
      BY <2>2, <3>1, <3>2 DEF Insert
    <3>4. Insert(refs, m.ref, Resting(o)) = Insert(e, m.ref, Resting(o))
      BY <1>1, <2>2, EraseType DEF LiveRefs
    <3>5. Resting(o) \in Order
      <4>1. live[i].shares - m.shares \in U32 \ {0}
        <5>1. m.shares \in 1 .. live[i].shares /\ live[i].shares \in 1 .. MaxShares
          <6>1. m.shares \in 1 .. live[i].shares
            BY <1>4 DEF SendsReduce
          <6> QED
            BY <6>1, TrackedOrder
        <5>2. live[i].shares - m.shares \in 1 .. MaxShares
          BY <5>1, <2>7, SharesFit
        <5> QED
          BY <5>2, SharesFit
      <4> QED
        BY <4>1, <2>2 DEF GenOrder, Resting, Order
    <3>6. o.ref \in RefIds \ LiveIn(e)
      BY <2>2, <2>3, <3>2, LiveFinite DEF LiveRefs
    <3> HIDE DEF o, e
    <3>7. Tracks(Insert(e, o.ref, Resting(o)), (Members(live) \ {live[i]}) \cup {o})
      BY <2>3, <3>5, <3>6, TracksInsert
    <3>8. Tracks(refs', Members(live'))
      BY <2>5, <2>7, <3>2, <3>3, <3>4, <3>7
    <3> QED
      BY <1>2, <2>1, <3>8 DEF OnReduce
  <2> QED
    BY <2>6, <2>7
<1>5. ASSUME NEW i \in 1 .. Len(live), SendsDelete(m, i)
      PROVE  clean' /\ Tracks(refs', Members(live'))
  <2>1. OnDelete(m) /\ DeleteStatus(m) = "Applied" /\ m.ref = live[i].ref
    BY <1>5, DeleteIsTaken DEF Apply, SendsDelete
  <2>2. Members(live') = Members(live) \ {live[i]}
    BY <1>5, ListSteps
  <2>3. refs' = Erase(refs, live[i].ref)
    BY <2>1 DEF OnDelete
  <2> QED
    BY <1>2, <2>1, <2>2, <2>3, TracksErased DEF OnDelete
<1>6. ASSUME NEW i \in 1 .. Len(live), SendsReplace(m, i)
      PROVE  clean' /\ Tracks(refs', Members(live'))
  <2> DEFINE e == Erase(refs, live[i].ref)
             o == GenOrderOf(m.new_ref, live[i], m)
  <2>1. OnReplace(m) /\ ReplaceStatus(m) = "Applied"
    BY <1>6, ReplaceIsTaken DEF Apply, SendsReplace, Fields
  <2>2. /\ m.ref = live[i].ref /\ m.ref \in LiveRefs /\ refs[m.ref] = Resting(live[i])
        /\ live[i] \in GenOrder
    BY <1>6, TrackedOrder DEF SendsReplace
  <2>3. e \in Table /\ Tracks(e, Members(live) \ {live[i]})
        /\ LiveIn(e) = LiveRefs \ {live[i].ref}
    BY TracksErased
  <2>4. /\ o.ref = m.new_ref
        /\ Resting(o) = [refs[m.ref] EXCEPT !.price = m.price, !.shares = m.shares]
    <3> HIDE DEF e
    <3>1. refs[m.ref] = [locate |-> live[i].locate, side |-> live[i].side,
                         price |-> live[i].price, shares |-> live[i].shares]
      BY <2>2 DEF Resting
    <3>2. Resting(o) = [locate |-> live[i].locate, side |-> live[i].side,
                        price |-> m.price, shares |-> m.shares]
      BY DEF GenOrderOf, Resting
    <3> HIDE DEF o
    <3>3. Resting(o) = [refs[m.ref] EXCEPT !.price = m.price, !.shares = m.shares]
      <4> DEFINE y == [refs[m.ref] EXCEPT !.price = m.price, !.shares = m.shares]
      <4>1. refs[m.ref] \in [locate : {live[i].locate}, side : {live[i].side},
                             price : {live[i].price}, shares : {live[i].shares}]
        BY <3>1
      <4>2. y \in [locate : {live[i].locate}, side : {live[i].side},
                   price : {m.price}, shares : {m.shares}]
        BY <4>1
      <4> HIDE DEF y
      <4>3. Resting(o) = y
        BY <3>2, <4>2
      <4> QED
        BY <4>3 DEF y
    <3> QED
      BY <3>3 DEF GenOrderOf, o
  <2>5. refs' = Insert(e, o.ref, Resting(o))
    BY <2>1, <2>2, <2>4 DEF OnReplace
  <2>6. Members(live') = (Members(live) \ {live[i]}) \cup {o}
    BY <1>6, ListSteps
  <2>7. o.ref \in RefIds \ LiveIn(e) /\ Resting(o) \in Order
    <3>1. m.new_ref \in RefIds /\ m.new_ref \notin LiveRefs
      BY <1>6, <2>1 DEF SendsReplace, IsFresh, ReplaceStatus
    <3>2. live[i].locate \in Locates /\ live[i].side \in Sides
      BY <2>2 DEF GenOrder
    <3>3. m.price \in Prices /\ m.shares \in U32 \ {0}
      BY <1>6, <3>2, DrawsPrices, SharesFit DEF SendsReplace
    <3> QED
      BY <2>3, <3>1, <3>2, <3>3 DEF GenOrderOf, Resting, Order
  <2> HIDE DEF e, o
  <2>8. Tracks(refs', Members(live'))
    BY <2>3, <2>5, <2>6, <2>7, TracksInsert
  <2> QED
    BY <1>2, <2>1, <2>8 DEF OnReplace
<1>7. CASE m.type \in {"Trade", "System"}
  <2>1. OnTrade(m) \/ (OnOther(m) /\ m.type = "System")
    BY <1>7 DEF Apply
  <2>2. Report("Applied") /\ refs' = refs
    BY <2>1 DEF OnTrade, OnOther
  <2>3. live' = live
    BY <1>7, ListSteps
  <2> QED
    BY <1>2, <2>2, <2>3
<1> QED
  BY <1>3, <1>4, <1>5, <1>6, <1>7 DEF Sends, SendsTrade

-----------------------------------------------------------------------------
(* What the list says of the touch. *)

\* The orders of a side of the list and their prices.
OnSide(l, s) == {i \in 1 .. Len(live) : live[i].locate = l /\ live[i].side = s}
PricesOn(l, s) == {live[i].price : i \in OnSide(l, s)}

\* The nonempty levels of the engine are the prices of the list.
LEMMA LevelsAreListed ==
  ASSUME IInv, GenInv, Tracks(refs, Members(live)), NEW l \in Locates, NEW s \in Sides
  PROVE  NonEmpty(BookOf(l).shares[s]) = PricesOn(l, s)
<1>1. refs \in Table
  BY DEF IInv, TypeOK, Table
<1>2. ASSUME NEW p \in Prices
      PROVE  BookOf(l).shares[s][p] # 0 <=> OrdersAt(refs, l, s, p) # {}
  <2>1. BookOf(l).shares[s][p] # 0 <=> OrderCount(refs, l, s, p) # 0
    BY <1>1, EmptyTogether DEF IInv, LevelsMatchRefs
  <2>2. IsFiniteSet(OrdersAt(refs, l, s, p))
    BY <1>1, LiveFinite, FS_Subset DEF OrdersAt
  <2> QED
    BY <2>1, <2>2, FS_EmptySet DEF OrderCount
<1>3. ASSUME NEW p \in Prices
      PROVE  OrdersAt(refs, l, s, p) # {} <=> p \in PricesOn(l, s)
  <2>1. ASSUME NEW r \in OrdersAt(refs, l, s, p) PROVE p \in PricesOn(l, s)
    <3>1. r \in LiveRefs /\ RestsAt(refs[r], l, s, p)
      BY DEF OrdersAt, LiveRefs
    <3>2. PICK i \in 1 .. Len(live) : r = live[i].ref
      BY <3>1 DEF Tracks, Members, LiveRefs
    <3>3. refs[r] = Resting(live[i])
      BY <3>2, TrackedOrder
    <3> QED
      BY <3>1, <3>3 DEF RestsAt, Resting, PricesOn, OnSide
  <2>2. ASSUME NEW i \in OnSide(l, s), p = live[i].price
        PROVE  OrdersAt(refs, l, s, p) # {}
    <3>1. live[i].ref \in LiveRefs /\ refs[live[i].ref] = Resting(live[i])
      BY TrackedOrder DEF OnSide
    <3>2. live[i].ref \in OrdersAt(refs, l, s, p)
      BY <3>1, <2>2 DEF OrdersAt, LiveRefs, RestsAt, Resting, OnSide
    <3> QED
      BY <3>2
  <2> QED
    BY <2>1, <2>2 DEF PricesOn
<1>4. PricesOn(l, s) \subseteq Prices
  BY LiveType DEF PricesOn, OnSide, GenOrder
<1> QED
  BY <1>2, <1>3, <1>4 DEF NonEmpty

\* The touch is the oldest order at the extreme price, hence it exists where the
\* side has orders, and its price is the extreme one.
LEMMA TouchIsExtreme ==
  ASSUME GenInv, NEW l \in Locates, NEW s \in Sides
  PROVE  {o.price : o \in Generator!Touch(l, s)} =
           {IF s = BUY THEN Highest(PricesOn(l, s)) ELSE Lowest(PricesOn(l, s))} \ {0}
<1> DEFINE I == OnSide(l, s)
           P == PricesOn(l, s)
           best == IF s = BUY THEN Highest(P) ELSE Lowest(P)
           Better(p, q) == IF s = BUY THEN p > q ELSE p < q
           price(i) == live[i].price
           First(j) == \A k \in I \ {j} :
                         Better(price(j), price(k)) \/ (~Better(price(k), price(j)) /\ j < k)
<1>1. /\ P \subseteq Prices /\ I \subseteq Nat
      /\ \A i \in I : price(i) \in P /\ price(i) \in Nat /\ price(i) # 0
  BY LiveType, PricesType DEF PricesOn, OnSide, GenOrder
<1>2. {o.price : o \in Generator!Touch(l, s)} = {price(j) : j \in {i \in I : First(i)}}
  <2>1. I = {i \in DOMAIN live : live[i].locate = l /\ live[i].side = s}
    BY LiveType DEF OnSide
  <2>2. \A j, k \in I : Generator!Inside(live[j], live[k]) = Better(price(j), price(k))
    BY GeneratorSides DEF Generator!Inside, OnSide
  <2> DEFINE Firsts == {j \in I : \A k \in I \ {j} :
                         \/ Generator!Inside(live[j], live[k])
                         \/ ~Generator!Inside(live[k], live[j]) /\ j < k}
  <2>3. Generator!Touch(l, s) = {live[i] : i \in Firsts}
    BY <2>1 DEF Generator!Touch
  <2> HIDE DEF I, Better
  <2>4. Firsts = {i \in I : First(i)}
    BY <2>2
  <2> HIDE DEF Firsts, First
  <2>5. {o.price : o \in Generator!Touch(l, s)} = {live[i].price : i \in Firsts}
    BY <2>3
  <2> QED
    BY <2>4, <2>5
<1>3. P = {price(i) : i \in I}
  BY DEF PricesOn
<1>4. /\ P = {} => best = 0
      /\ P # {} => best \in P /\ best # 0 /\ \A q \in P : ~Better(q, best)
      /\ \A x \in P : (\A q \in P : ~Better(q, x)) => best = x
  <2>1. \A p, q \in P : p \in Nat /\ q \in Nat /\ p # 0
    BY <1>1, PricesType
  <2>2. CASE s = BUY
    <3>1. /\ P = {} => Highest(P) = 0
          /\ P # {} => Highest(P) \in P /\ \A q \in P : q <= Highest(P)
          /\ \A x \in P : (\A q \in P : q <= x) => Highest(P) = x
      BY <1>1, HighestExtreme
    <3> HIDE DEF P
    <3> QED
      BY <2>1, <2>2, <3>1
  <2>3. CASE s # BUY
    <3>1. /\ P = {} => Lowest(P) = 0
          /\ P # {} => Lowest(P) \in P /\ \A q \in P : Lowest(P) <= q
          /\ \A x \in P : (\A q \in P : x <= q) => Lowest(P) = x
      BY <1>1, LowestExtreme
    <3> HIDE DEF P
    <3> QED
      BY <2>1, <2>3, <3>1
  <2> QED
    BY <2>2, <2>3
<1> HIDE DEF I, P, best, price
<1>5. ASSUME NEW j \in I, First(j) PROVE price(j) = best /\ best # 0
  <2>1. ASSUME NEW q \in P PROVE ~Better(q, price(j))
    <3>1. PICK k \in I : q = price(k)
      BY <1>3
    <3> QED
      BY <1>1, <1>5, <3>1
  <2>2. price(j) \in P
    BY <1>1
  <2> HIDE DEF Better, First
  <2> QED
    BY <1>4, <2>1, <2>2
<1>6. ASSUME P # {} PROVE \E j \in I : First(j) /\ price(j) = best
  <2> DEFINE B == {i \in I : price(i) = best}
  <2>1. best \in P
    BY <1>4, <1>6
  <2>2. B \in SUBSET Nat /\ B # {}
    BY <1>1, <1>3, <2>1
  <2>3. PICK j \in B : \A k \in B : j <= k
    <3> HIDE DEF B
    <3> QED
      BY <2>2, LeastExists
  <2>4. ASSUME NEW k \in I \ {j}
        PROVE  Better(price(j), price(k)) \/ (~Better(price(k), price(j)) /\ j < k)
    <3>1. ~Better(price(k), best) /\ price(k) \in Nat /\ best \in Nat
      BY <1>1, <1>4, <1>6, <2>3
    <3>2. CASE price(k) = best
      BY <1>1, <2>2, <2>3, <3>1, <3>2
    <3>3. CASE price(k) # best
      BY <2>3, <3>1, <3>3
    <3> QED
      BY <3>2, <3>3
  <2> QED
    BY <2>3, <2>4
<1>7. \A j \in I : price(j) \in P
  BY <1>1
<1> HIDE DEF First, Better
<1>8. {price(j) : j \in {i \in I : First(i)}} = {best} \ {0}
  BY <1>4, <1>5, <1>6, <1>7
<1> QED
  BY <1>2, <1>8 DEF best, P

LEMMA InStep ==
  ASSUME IInv, GenInv, BestIsExtreme, Tracking
  PROVE  GeneratorKeepsStep
<1> SUFFICES ASSUME feed = "generator"
             PROVE  /\ clean
                    /\ LiveRefs = {o.ref : o \in Generator!Live}
                    /\ \A o \in Generator!Live : refs[o.ref] = Resting(o)
                    /\ \A l \in Locates, s \in Sides :
                         {o.price : o \in Generator!Touch(l, s)}
                           = {BookOf(l).best[s]} \ {0}
  BY DEF GeneratorKeepsStep
<1>1. Generator!Live = Members(live)
  BY LiveType DEF Generator!Live, Members
<1>2. clean /\ Tracks(refs, Members(live))
  BY DEF Tracking
<1>3. ASSUME NEW l \in Locates, NEW s \in Sides
      PROVE  {o.price : o \in Generator!Touch(l, s)} = {BookOf(l).best[s]} \ {0}
  <2>1. BookOf(l).best[s] = BestPrice(s, BookOf(l).shares[s])
    BY DEF BestIsExtreme
  <2>2. NonEmpty(BookOf(l).shares[s]) = PricesOn(l, s)
    BY <1>2, LevelsAreListed
  <2> QED
    BY <2>1, <2>2, TouchIsExtreme DEF BestPrice
<1> QED
  BY <1>1, <1>2, <1>3 DEF Tracks, LiveRefs

LEMMA TrackingInit == CoInit => Tracking
<1> SUFFICES ASSUME CoInit PROVE clean /\ Tracks(refs, Members(live))
  BY DEF Tracking
<1>1. live = <<>> /\ Len(<<>>) = 0 /\ clean
  BY DEF CoInit, Init, Generator!GenInit
<1>2. LiveIn(refs) = {}
  BY DEF CoInit, Init, LiveIn
<1>3. Members(live) = {}
  BY <1>1 DEF Members
<1> QED
  BY <1>1, <1>2, <1>3 DEF Tracks

LEMMA TrackingNext == CoIInv /\ Tracking /\ [CoNext]_coVars => Tracking'
<1> SUFFICES ASSUME IInv, GenInv, Tracking, [CoNext]_coVars, feed' = "generator"
             PROVE  clean' /\ Tracks(refs', Members(live'))
  BY DEF CoIInv, Tracking, Tracks, LiveIn, Members
<1>1. CASE CoNext
  <2>1. feed = "generator" /\ clean /\ Tracks(refs, Members(live))
    BY <1>1 DEF CoNext, Tracking
  <2>2. PICK m \in Generator!Messages : Apply(m) /\ Generator!Send(m)
    BY <1>1, <2>1 DEF CoNext
  <2>3. Sends(m)
    BY <2>2, MessageKinds
  <2>4. Fields(m)
    BY <2>3, SendsFields
  <2> QED
    BY <2>1, <2>2, <2>3, <2>4, TrackingStep
<1>2. CASE UNCHANGED coVars
  BY <1>2 DEF coVars, vars, Tracking
<1> QED
  BY <1>1, <1>2

\* The prices a side draws: bids below the mid, asks above it, unless the clamp takes
\* both to the same end of the band.
MidsInside ==
  /\ MinPrice < GenMaxPrice
  /\ \A l \in Locates : /\ MinPrice < Generator!Mid(l) + Tick
                        /\ Generator!Mid(l) - Tick < GenMaxPrice

LEMMA SidesApart ==
  ASSUME MidsInside, NEW l \in Locates, NEW p \in Generator!RandPrices(l, BUY),
         NEW q \in Generator!RandPrices(l, SELL)
  PROVE  p < q
<1> DEFINE mid == Generator!Mid(l)
<1>1. mid \in Int /\ Tick \in Nat \ {0} /\ MinPrice \in Nat /\ GenMaxPrice \in Nat
  BY MidType, GeneratorAssumption, PricesType
<1>2. PICK j \in Generator!Distances : p = Generator!Clamped(mid - j * Tick)
  BY GeneratorSides DEF Generator!RandPrices
<1>3. PICK k \in Generator!Distances : q = Generator!Clamped(mid + k * Tick)
  BY GeneratorSides, BuyIsNotSell DEF Generator!RandPrices
<1>4. ASSUME NEW d \in Generator!Distances PROVE d * Tick \in Int /\ Tick <= d * Tick
  <2>1. d \in Nat \ {0}
    BY GeneratorAssumption DEF Generator!Distances
  <2> QED
    BY <2>1, <1>1
<1>5. MinPrice < GenMaxPrice /\ MinPrice < mid + Tick /\ mid - Tick < GenMaxPrice
  BY DEF MidsInside
<1> DEFINE x == mid - j * Tick
           y == mid + k * Tick
<1>6. x \in Int /\ y \in Int /\ x < y /\ x < GenMaxPrice /\ MinPrice < y
  <2>1. j * Tick \in Int /\ Tick <= j * Tick /\ k * Tick \in Int /\ Tick <= k * Tick
    BY <1>4
  <2> HIDE DEF mid
  <2> QED
    BY <1>1, <1>5, <2>1
<1>7. p = Generator!Clamped(x) /\ q = Generator!Clamped(y)
  BY <1>2, <1>3
<1> HIDE DEF x, y
<1> QED
  BY <1>1, <1>5, <1>6, <1>7 DEF Generator!Clamped

LEMMA Uncrossed ==
  ASSUME IInv, GenInv, BestIsExtreme, Tracking, MidsInside
  PROVE  NeverCrossed
<1> SUFFICES ASSUME feed = "generator", NEW l \in Locates,
                    BookOf(l).best[BUY] # 0, BookOf(l).best[SELL] # 0
             PROVE  BookOf(l).best[BUY] < BookOf(l).best[SELL]
  BY DEF NeverCrossed
<1>1. ASSUME NEW s \in Sides, BookOf(l).best[s] # 0
      PROVE  BookOf(l).best[s] \in Generator!RandPrices(l, s)
  <2> DEFINE P == NonEmpty(BookOf(l).shares[s])
  <2>1. BookOf(l).best[s] = IF s = BUY THEN Highest(P) ELSE Lowest(P)
    BY DEF BestIsExtreme, BestPrice
  <2>2. P \subseteq Prices
    BY DEF NonEmpty
  <2>3. BookOf(l).best[s] \in P
    <3> HIDE DEF P
    <3> QED
      BY <1>1, <2>1, <2>2, HighestExtreme, LowestExtreme
  <2>4. P = PricesOn(l, s)
    BY LevelsAreListed DEF Tracking
  <2> QED
    BY <2>3, <2>4 DEF PricesOn, OnSide, GenInv, ListOK
<1> QED
  BY <1>1, SidesApart DEF Sides

-----------------------------------------------------------------------------
(* Theorems. *)

\* Engine, oracle and generator keep the inductive invariant.
THEOREM CoInductive == CoSpec => []CoIInv
<1> QED
  BY CoInitInv, CoNextInv, PTL DEF CoSpec

\* A vectorised build ends every run without a rejection in the oracle's book, as
\* long as no level total has its top bit set.
THEOREM VectorAgreesWithOracle == CoSpec /\ []TotalsFitVector => []CleanRunsAgree
<1>1. CoInit => BestIsExtreme
  BY BestInit DEF CoInit
<1>2. CoIInv /\ BestIsExtreme /\ TotalsFitVector /\ [CoNext]_coVars => BestIsExtreme'
  BY CoNextHandles, BestStep DEF CoIInv
<1>3. CoIInv /\ BestIsExtreme => CleanRunsAgree
  BY AgreeIsSame DEF CoIInv, CoInv, CleanRunsAgree
<1> QED
  BY CoInductive, <1>1, <1>2, <1>3, PTL DEF CoSpec

\* The scalar build always does: whatever decoded messages come, well-formed or not,
\* from a feed or from the generator, if none is rejected, the orders, the levels,
\* the best prices and their depths are those of the oracle.
THEOREM AgreesWithOracle ==
  ASSUME ~Simd
  PROVE  CoSpec => []CleanRunsAgree
<1>1. TotalsFitVector
  BY DEF TotalsFitVector, VectorSafe
<1> QED
  BY VectorAgreesWithOracle, <1>1, PTL

LEMMA ScalarTracking ==
  ASSUME ~Simd
  PROVE  CoSpec => [](CoIInv /\ BestIsExtreme /\ Tracking)
<1>1. CoInit => BestIsExtreme
  BY BestInit DEF CoInit
<1>2. CoIInv /\ BestIsExtreme /\ [CoNext]_coVars => BestIsExtreme'
  <2>1. TotalsFitVector
    BY DEF TotalsFitVector, VectorSafe
  <2> QED
    BY <2>1, CoNextHandles, BestStep DEF CoIInv
<1> QED
  BY <1>1, <1>2, CoInductive, TrackingInit, TrackingNext, PTL DEF CoSpec

\* In a scalar build the engine rejects no message of the generator, its live orders
\* are those of the generator's list, and the order a sweep takes rests at the best
\* price of the engine's book: the generator needs no book of its own.
THEOREM GeneratorInStep ==
  ASSUME ~Simd
  PROVE  CoSpec => []GeneratorKeepsStep
<1>1. CoSpec => [](CoIInv /\ BestIsExtreme /\ Tracking)
  BY ScalarTracking
<1>2. CoIInv /\ BestIsExtreme /\ Tracking => GeneratorKeepsStep
  BY InStep DEF CoIInv
<1> QED
  BY <1>1, <1>2, PTL

\* What a generated stream builds is never crossed nor locked, whatever is executed,
\* cancelled and replaced, as long as the clamp of the prices to the band cannot take
\* a bid and an ask of a stock to the same end of it.
THEOREM GeneratedBooksUncrossed ==
  ASSUME ~Simd, MidsInside
  PROVE  CoSpec => []NeverCrossed
<1>1. CoSpec => [](CoIInv /\ BestIsExtreme /\ Tracking)
  BY ScalarTracking
<1>2. CoIInv /\ BestIsExtreme /\ Tracking => NeverCrossed
  BY Uncrossed DEF CoIInv
<1> QED
  BY <1>1, <1>2, PTL
=============================================================================
