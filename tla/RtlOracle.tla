------------------------------ MODULE RtlOracle ------------------------------
(***************************************************************************)
(* The oracle of the hardware benches (class RefBook of                    *)
(* sim/reference_model.cpp): std::map levels per side, an unordered_map    *)
(* of orders, running volumes and VWAP sums.  It knows no band and no      *)
(* table size, and overwrites a reference that is already live.            *)
(*                                                                         *)
(* A book is a record; a map is a function whose domain is its keys.  The  *)
(* VWAP sums and the trade count are left as the trade a message adds.     *)
(***************************************************************************)
EXTENDS Integers

NoKeys == [k \in {} |-> 0]
EmptyRef ==
  [orders |-> NoKeys, level |-> [bid |-> NoKeys, ask |-> NoKeys],
   tot |-> [bid |-> 0, ask |-> 0]]

Put(f, k, v) == [x \in DOMAIN f \cup {k} |-> IF x = k THEN v ELSE f[x]]
Drop(f, k) == [x \in DOMAIN f \ {k} |-> f[x]]

LevelOf(b, side, price) ==
  IF price \in DOMAIN b.level[side] THEN b.level[side][price]
  ELSE [shares |-> 0, count |-> 0]

RefAdd(b, r, side, price, shares) ==
  LET lv == LevelOf(b, side, price)
  IN  [b EXCEPT
         !.orders = Put(@, r, [side |-> side, price |-> price, shares |-> shares]),
         !.level[side] = Put(@, price, [shares |-> lv.shares + shares,
                                        count |-> lv.count + 1]),
         !.tot[side] = @ + shares]

\* reduce_order and remove_order: amt off a live order, the level erased when
\* its shares are.
RefTake(b, r, amt) ==
  LET o == b.orders[r]
      gone == amt = o.shares
      lv == LevelOf(b, o.side, o.price)
  IN  [b EXCEPT
         !.orders = IF gone THEN Drop(@, r)
                    ELSE Put(@, r, [o EXCEPT !.shares = @ - amt]),
         !.level[o.side] =
            IF gone /\ lv.shares = amt THEN Drop(@, o.price)
            ELSE Put(@, o.price, [shares |-> lv.shares - amt,
                                  count |-> IF gone THEN lv.count - 1
                                            ELSE lv.count]),
         !.tot[o.side] = @ - amt]

Takes(b, m) ==
  LET has == b.orders[m.ref].shares
  IN  IF m.type \in {"delete", "replace"} \/ has < m.shares THEN has ELSE m.shares

\* RefBook::apply.
RefApply(b, m) ==
  CASE m.type = "add" -> RefAdd(b, m.ref, m.side, m.price, m.shares)
    [] m.type \in {"exec", "exec_pr", "cancel", "delete"}
         /\ m.ref \in DOMAIN b.orders -> RefTake(b, m.ref, Takes(b, m))
    [] m.type = "replace" /\ m.ref \in DOMAIN b.orders ->
         RefAdd(RefTake(b, m.ref, Takes(b, m)), m.nref,
                b.orders[m.ref].side, m.price, m.shares)
    [] OTHER -> b

\* What apply adds to vwap_num_, vwap_den_ and trade_count_.
RefTrades(b, m) ==
  CASE m.type = "trade" -> << <<m.price, m.shares>> >>
    [] m.type = "exec" /\ m.ref \in DOMAIN b.orders ->
         << <<b.orders[m.ref].price, Takes(b, m)>> >>
    [] m.type = "exec_pr" /\ m.ref \in DOMAIN b.orders /\ m.printable ->
         << <<m.price, Takes(b, m)>> >>
    [] OTHER -> <<>>

\* The best price is the last key of the bids and the first of the asks.
RefBest(b, side) ==
  LET keys == DOMAIN b.level[side]
  IN  CHOOSE p \in keys : \A q \in keys : IF side = "bid" THEN p >= q ELSE p <= q
=============================================================================
