----------------------------- MODULE OrderBook -----------------------------
(***************************************************************************)
(* The direct-indexed order book of one stock (class OrderBook of          *)
(* sw/book/order_book.hpp) as a value and the operators its methods apply  *)
(* to it.  A side is an array of price levels indexed by price; the best   *)
(* price of a side is cached and rescanned only when the level it names is *)
(* emptied.  Both members of a level and every quantity are uint32_t.      *)
(***************************************************************************)
EXTENDS Integers, FiniteSets

CONSTANTS
  PriceLevels,   \* length of the level arrays; index 0 is never used
  MaxU32,        \* 2^32 - 1: the largest value of a uint32_t
  Lanes,         \* levels one vector instruction gathers (8 in the code)
  Simd           \* TRUE: built with OB_SIMD_AVX2 or OB_SIMD_AVX512

ASSUME MaxU32Assumption == MaxU32 \in Nat /\ MaxU32 > 0
ASSUME PriceLevelsAssumption == PriceLevels \in 2 .. MaxU32
ASSUME LanesAssumption == Lanes \in Nat /\ Lanes > 0
ASSUME SimdAssumption == Simd \in BOOLEAN

BUY == "B"
SELL == "S"
Sides == {BUY, SELL}

\* max_price_ and the prices at which a level may hold shares.
MaxPrice == PriceLevels - 1
Prices == 1 .. MaxPrice

U32 == 0 .. MaxU32

\* The largest value of a level total that is positive as an int32_t.
MaxI32 == MaxU32 \div 2

\* A book: the two members of PriceLevel, per side and price, and best_bid_
\* and best_ask_, where 0 says that the side is empty.
Book == [shares : [Sides -> [Prices -> U32]],
         orders : [Sides -> [Prices -> U32]],
         best   : [Sides -> 0 .. MaxPrice]]

EmptyBook == [shares |-> [s \in Sides |-> [p \in Prices |-> 0]],
              orders |-> [s \in Sides |-> [p \in Prices |-> 0]],
              best   |-> [s \in Sides |-> 0]]

-----------------------------------------------------------------------------
(* Scanning for the next best price. *)

\* The extreme of a set of prices, 0 when there is none.
Highest(S) == IF S = {} THEN 0 ELSE CHOOSE p \in S : \A q \in S : q <= p
Lowest(S)  == IF S = {} THEN 0 ELSE CHOOSE p \in S : \A q \in S : p <= q

\* What a scan takes for a level with shares: the scalar loop tests for a
\* nonzero total, the vector compare for a total greater than zero as a
\* signed number.
ScalarSees(shares, p) == shares[p] # 0
VectorSees(shares, p) == shares[p] \in 1 .. MaxI32

\* The vector loop of scan_down takes Lanes levels at a time from start and
\* leaves the lowest start % Lanes levels to the scalar loop; that of scan_up
\* leaves the highest ones.
InDownBlocks(start, p) == Simd /\ p > start % Lanes
InUpBlocks(start, p) ==
  Simd /\ p < start + Lanes * ((MaxPrice + 1 - start) \div Lanes)

ScanDown(shares, start) ==
  Highest({p \in 1 .. start : IF InDownBlocks(start, p)
                              THEN VectorSees(shares, p)
                              ELSE ScalarSees(shares, p)})

ScanUp(shares, start) ==
  Lowest({p \in start .. MaxPrice : IF InUpBlocks(start, p)
                                    THEN VectorSees(shares, p)
                                    ELSE ScalarSees(shares, p)})

-----------------------------------------------------------------------------
(* The guards and the updates of the three operations. *)

\* Mutant of CanAdd: the level total may pass the largest uint32_t.
CanAddUnbounded(b, side, price, qty) ==
  /\ side \in Sides /\ price \in Prices /\ qty # 0
  /\ (b.shares[side][price] = 0) <=> (b.orders[side][price] = 0)
  /\ b.orders[side][price] # MaxU32

CanAdd(b, side, price, qty) ==
  /\ side \in Sides /\ price \in Prices /\ qty # 0
  /\ (b.shares[side][price] = 0) <=> (b.orders[side][price] = 0)
  /\ b.shares[side][price] <= MaxU32 - qty
  /\ b.orders[side][price] # MaxU32

\* Mutant of IsBetter: an empty ask side is taken for a best ask of 0.
IsBetterNoEmptyAsk(side, price, best) ==
  IF side = BUY THEN price > best ELSE price < best

IsBetter(side, price, best) ==
  IF side = BUY THEN price > best ELSE best = 0 \/ price < best

Add(b, side, price, qty) ==
  [shares |-> [b.shares EXCEPT ![side][price] = @ + qty],
   orders |-> [b.orders EXCEPT ![side][price] = @ + 1],
   best   |-> [b.best EXCEPT ![side] = IF IsBetter(side, price, @)
                                       THEN price ELSE @]]

CanRemove(b, side, price, qty, orderGone) ==
  /\ side \in Sides /\ price \in Prices /\ qty # 0
  /\ qty <= b.shares[side][price]
  /\ orderGone => b.orders[side][price] # 0
  /\ LET remaining == b.orders[side][price] - (IF orderGone THEN 1 ELSE 0)
     IN  (b.shares[side][price] = qty) <=> (remaining = 0)

Rescan(shares, side, price) ==
  IF side = BUY THEN ScanDown(shares, price - 1) ELSE ScanUp(shares, price + 1)

Remove(b, side, price, qty, orderGone) ==
  LET shares == [b.shares EXCEPT ![side][price] = @ - qty]
      emptied == shares[side][price] = 0 /\ price = b.best[side]
  IN  [shares |-> shares,
       orders |-> [b.orders EXCEPT ![side][price] =
                     IF orderGone THEN @ - 1 ELSE @],
       best   |-> [b.best EXCEPT ![side] =
                     IF emptied THEN Rescan(shares[side], side, price) ELSE @]]

\* Mutant of CanReplace: a Replace at its own price is not bounded.
CanReplaceInPlace(b, side, oldPrice, oldQty, price, qty) ==
  /\ CanRemove(b, side, oldPrice, oldQty, TRUE)
  /\ price \in Prices /\ qty # 0
  /\ price # oldPrice => CanAdd(b, side, price, qty)

CanReplace(b, side, oldPrice, oldQty, price, qty) ==
  /\ CanRemove(b, side, oldPrice, oldQty, TRUE)
  /\ price \in Prices /\ qty # 0
  /\ IF price # oldPrice
     THEN CanAdd(b, side, price, qty)
     ELSE b.shares[side][price] - oldQty <= MaxU32 - qty

\* replace() calls remove and then add; each changes nothing when its own
\* guard fails, and the call succeeds when both did.
AfterRemove(b, side, oldPrice, oldQty) == Remove(b, side, oldPrice, oldQty, TRUE)

ReplaceSucceeds(b, side, oldPrice, oldQty, price, qty) ==
  /\ CanReplace(b, side, oldPrice, oldQty, price, qty)
  /\ CanAdd(AfterRemove(b, side, oldPrice, oldQty), side, price, qty)

Replace(b, side, oldPrice, oldQty, price, qty) ==
  IF ~CanReplace(b, side, oldPrice, oldQty, price, qty) THEN b
  ELSE LET removed == AfterRemove(b, side, oldPrice, oldQty)
       IN  IF CanAdd(removed, side, price, qty)
           THEN Add(removed, side, price, qty) ELSE removed

-----------------------------------------------------------------------------
(* Queries. *)

\* What best_bid_ and best_ask_ stand for.
NonEmpty(shares) == {p \in Prices : shares[p] # 0}
BestPrice(side, shares) ==
  IF side = BUY THEN Highest(NonEmpty(shares)) ELSE Lowest(NonEmpty(shares))

\* best_bid_depth and best_ask_depth.
BestDepth(b, side) ==
  IF b.best[side] = 0 THEN 0 ELSE b.shares[side][b.best[side]]
=============================================================================
