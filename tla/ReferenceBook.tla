--------------------------- MODULE ReferenceBook ---------------------------
(***************************************************************************)
(* The oracle of the software book (class ReferenceBook of                 *)
(* sw/book/reference_book.hpp): std::map from price to shares and to order *)
(* count per side, std::unordered_map from reference to order.  It         *)
(* validates nothing: a key that is absent is created or ignored, and      *)
(* uint32_t totals wrap.  A map is a function whose domain is its keys.    *)
(***************************************************************************)
EXTENDS Integers

CONSTANTS
  MaxU32,     \* 2^32 - 1
  BUY         \* the side character that selects the bid side

VARIABLES
  orders,     \* orders_: live order references -> order
  books       \* books_: stock locate -> the two sides of its book

-----------------------------------------------------------------------------
NoKeys == [k \in {} |-> 0]
Put(f, k, v) == [x \in DOMAIN f \cup {k} |-> IF x = k THEN v ELSE f[x]]
Drop(f, k) == [x \in DOMAIN f \ {k} |-> f[x]]
At(f, k) == IF k \in DOMAIN f THEN f[k] ELSE 0

U32Add(x, y) == (x + y) % (MaxU32 + 1)
U32Sub(x, y) == (x + (MaxU32 + 1) - y) % (MaxU32 + 1)

EmptySide == [shares |-> NoKeys, orders |-> NoKeys]
EmptySymbolBook == [bid |-> EmptySide, ask |-> EmptySide]

\* Side::add and Side::reduce.
SideAdd(sd, price, qty) ==
  [shares |-> Put(sd.shares, price, U32Add(At(sd.shares, price), qty)),
   orders |-> Put(sd.orders, price, U32Add(At(sd.orders, price), 1))]

SideReduce(sd, price, qty, orderGone) ==
  LET left == U32Sub(sd.shares[price], qty)
      count == At(sd.orders, price)
  IN  IF price \notin DOMAIN sd.shares THEN sd
      ELSE IF left = 0
      THEN [shares |-> Drop(sd.shares, price), orders |-> Drop(sd.orders, price)]
      ELSE [shares |-> Put(sd.shares, price, left),
            orders |-> IF orderGone /\ count > 0
                       THEN Put(sd.orders, price, count - 1) ELSE sd.orders]

\* books_[locate], which makes a book that is not there, and side_ref: every
\* side other than the buy side is the ask side.
BookAt(l) == IF l \in DOMAIN books THEN books[l] ELSE EmptySymbolBook
SideOf(b, side) == IF side = BUY THEN b.bid ELSE b.ask
WithSide(b, side, sd) ==
  IF side = BUY THEN [b EXCEPT !.bid = sd] ELSE [b EXCEPT !.ask = sd]
PutSide(l, side, sd) == books' = Put(books, l, WithSide(BookAt(l), side, sd))

-----------------------------------------------------------------------------
Init == orders = NoKeys /\ books = NoKeys

OnAdd(m) ==
  /\ PutSide(m.locate, m.side,
             SideAdd(SideOf(BookAt(m.locate), m.side), m.price, m.shares))
  /\ orders' = Put(orders, m.ref, [locate |-> m.locate, side |-> m.side,
                                   price |-> m.price, shares |-> m.shares])

\* What a message can take off an order is clamped to what the order has.
Clamped(r, qty) == IF qty > orders[r].shares THEN orders[r].shares ELSE qty

\* on_exec and on_cancel.
OnReduce(m) ==
  LET o == orders[m.ref]
      qty == Clamped(m.ref, m.shares)
      gone == o.shares = qty
  IN  IF m.ref \notin DOMAIN orders THEN UNCHANGED <<orders, books>>
      ELSE /\ PutSide(o.locate, o.side,
                      SideReduce(SideOf(BookAt(o.locate), o.side), o.price,
                                 qty, gone))
           /\ orders' = IF gone THEN Drop(orders, m.ref)
                        ELSE [orders EXCEPT ![m.ref].shares = @ - qty]

OnDelete(m) ==
  LET o == orders[m.ref]
  IN  IF m.ref \notin DOMAIN orders THEN UNCHANGED <<orders, books>>
      ELSE /\ PutSide(o.locate, o.side,
                      SideReduce(SideOf(BookAt(o.locate), o.side), o.price,
                                 o.shares, TRUE))
           /\ orders' = Drop(orders, m.ref)

OnReplace(m) ==
  LET o == orders[m.ref]
      left == SideReduce(SideOf(BookAt(o.locate), o.side), o.price, o.shares, TRUE)
  IN  IF m.ref \notin DOMAIN orders THEN UNCHANGED <<orders, books>>
      ELSE /\ PutSide(o.locate, o.side, SideAdd(left, m.price, m.shares))
           /\ orders' = Put(Drop(orders, m.ref), m.new_ref,
                            [o EXCEPT !.price = m.price, !.shares = m.shares])

\* Trades, system events and unknown messages have no effect on a book.
OnOther(m) == UNCHANGED <<orders, books>>

-----------------------------------------------------------------------------
(* Queries: the largest bid and the smallest ask key, 0 for an empty side. *)

BestBid(l) ==
  LET P == DOMAIN BookAt(l).bid.shares
  IN  IF P = {} THEN 0 ELSE CHOOSE p \in P : \A q \in P : q <= p

BestAsk(l) ==
  LET P == DOMAIN BookAt(l).ask.shares
  IN  IF P = {} THEN 0 ELSE CHOOSE p \in P : \A q \in P : p <= q

SharesAt(l, side, p) == At(SideOf(BookAt(l), side).shares, p)
OrdersAt(l, side, p) == At(SideOf(BookAt(l), side).orders, p)
=============================================================================
