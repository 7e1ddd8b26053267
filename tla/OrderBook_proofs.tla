-------------------------- MODULE OrderBook_proofs --------------------------
(***************************************************************************)
(* Lemmas about the operators of OrderBook, for every number of levels and *)
(* every width of the counters.                                            *)
(***************************************************************************)
EXTENDS OrderBook, WellFoundedInduction, TLAPS

\* A nonempty set of naturals has a least element, and a bounded one a
\* greatest.
LEMMA LessThanRelation ==
  OpToRel(<, Nat) = {ss \in Nat \X Nat : ss[1] < ss[2]}
BY DEF OpToRel

LEMMA LeastExists ==
  ASSUME NEW T \in SUBSET Nat, T # {}
  PROVE  \E x \in T : \A y \in T : x <= y
<1>1. PICK R : R = {ss \in Nat \X Nat : ss[1] < ss[2]}
  OBVIOUS
<1>2. IsWellFoundedOn(R, Nat)
  BY <1>1, LessThanRelation, NatLessThanWellFounded
<1>3. PICK x \in T : \A y \in T : ~(<<y, x>> \in R)
  BY <1>2, WFMin
<1>4. ASSUME NEW y \in T PROVE x <= y
  <2>1. <<y, x>> \in Nat \X Nat
    OBVIOUS
  <2>2. ~(y < x)
    BY <2>1, <1>1, <1>3
  <2> QED
    BY <2>2
<1> QED
  BY <1>4

LEMMA GreatestExists ==
  ASSUME NEW n \in Nat, NEW T \in SUBSET (1 .. n), T # {}
  PROVE  \E x \in T : \A y \in T : y <= x
<1> DEFINE U == {k \in Nat : \E y \in T : y + k = n}
<1>1. ASSUME NEW y \in T PROVE n - y \in U
  <2>1. n - y \in Nat /\ y + (n - y) = n
    OBVIOUS
  <2> QED
    BY <2>1
<1>2. U \in SUBSET Nat /\ U # {}
  BY <1>1
<1>3. PICK t \in U : \A u \in U : t <= u
  BY <1>2, LeastExists
<1>4. PICK x \in T : x + t = n
  BY <1>3
<1>5. ASSUME NEW y \in T PROVE y <= x
  <2>1. t <= n - y
    BY <1>1, <1>3
  <2> QED
    BY <2>1, <1>4
<1> QED
  BY <1>5

LEMMA PricesType ==
  /\ MaxPrice \in Nat /\ MaxPrice >= 1
  /\ Prices = 1 .. MaxPrice /\ Prices \subseteq Nat
BY PriceLevelsAssumption, MaxU32Assumption DEF MaxPrice, Prices

\* The extreme of a set of prices is a member of it that bounds it, and the
\* only one.
LEMMA HighestExtreme ==
  ASSUME NEW S \in SUBSET Prices
  PROVE  /\ Highest(S) \in 0 .. MaxPrice
         /\ S = {} => Highest(S) = 0
         /\ S # {} => Highest(S) \in S /\ \A q \in S : q <= Highest(S)
         /\ \A x \in S : (\A q \in S : q <= x) => Highest(S) = x
<1>1. S # {} => Highest(S) \in S /\ \A q \in S : q <= Highest(S)
  BY PricesType, GreatestExists DEF Highest
<1>2. S = {} => Highest(S) = 0
  BY DEF Highest
<1>3. MaxPrice \in Nat /\ \A q \in S : q \in Int /\ 1 <= q /\ q <= MaxPrice
  BY PricesType
<1>4. Highest(S) \in 0 .. MaxPrice
  BY <1>1, <1>2, <1>3
<1>5. ASSUME NEW x \in S, \A q \in S : q <= x PROVE Highest(S) = x
  BY <1>1, <1>3, <1>5
<1> QED
  BY <1>1, <1>2, <1>4, <1>5

LEMMA LowestExtreme ==
  ASSUME NEW S \in SUBSET Prices
  PROVE  /\ Lowest(S) \in 0 .. MaxPrice
         /\ S = {} => Lowest(S) = 0
         /\ S # {} => Lowest(S) \in S /\ \A q \in S : Lowest(S) <= q
         /\ \A x \in S : (\A q \in S : x <= q) => Lowest(S) = x
<1>1. S # {} => Lowest(S) \in S /\ \A q \in S : Lowest(S) <= q
  BY PricesType, LeastExists DEF Lowest
<1>2. S = {} => Lowest(S) = 0
  BY DEF Lowest
<1>3. MaxPrice \in Nat /\ \A q \in S : q \in Int /\ 1 <= q /\ q <= MaxPrice
  BY PricesType
<1>4. Lowest(S) \in 0 .. MaxPrice
  BY <1>1, <1>2, <1>3
<1>5. ASSUME NEW x \in S, \A q \in S : x <= q PROVE Lowest(S) = x
  BY <1>1, <1>3, <1>5
<1> QED
  BY <1>1, <1>2, <1>4, <1>5

-----------------------------------------------------------------------------
LEMMA BookType ==
  ASSUME NEW b \in Book, NEW s \in Sides
  PROVE  /\ b.shares \in [Sides -> [Prices -> U32]]
         /\ b.orders \in [Sides -> [Prices -> U32]]
         /\ b.best \in [Sides -> 0 .. MaxPrice]
         /\ b.shares[s] \in [Prices -> U32]
         /\ b.best[s] \in 0 .. MaxPrice
         /\ \A p \in Prices : b.shares[s][p] \in U32 /\ b.orders[s][p] \in U32
BY DEF Book

\* add() and remove(), called under their guards, return a book: no counter
\* overflows or goes below zero and the best price stays a level or 0.
LEMMA AddType ==
  ASSUME NEW b \in Book, NEW side, NEW price, NEW qty \in U32,
         CanAdd(b, side, price, qty)
  PROVE  Add(b, side, price, qty) \in Book
<1> DEFINE c == Add(b, side, price, qty)
<1>1. side \in Sides /\ price \in Prices
  BY DEF CanAdd
<1>2. b.shares[side][price] + qty \in U32 /\ b.orders[side][price] + 1 \in U32
  <2>1. b.shares[side][price] \in U32 /\ b.orders[side][price] \in U32
    BY <1>1, BookType
  <2>2. /\ b.shares[side][price] <= MaxU32 - qty
        /\ b.orders[side][price] # MaxU32
    BY DEF CanAdd
  <2> QED
    BY <2>1, <2>2, MaxU32Assumption DEF U32
<1>3. c.shares \in [Sides -> [Prices -> U32]]
  BY <1>1, <1>2, BookType DEF Add
<1>4. c.orders \in [Sides -> [Prices -> U32]]
  BY <1>1, <1>2, BookType DEF Add
<1>5. c.best \in [Sides -> 0 .. MaxPrice]
  <2>1. price \in 0 .. MaxPrice
    BY <1>1, PricesType
  <2> QED
    BY <1>1, <2>1, BookType DEF Add
<1> QED
  BY <1>3, <1>4, <1>5 DEF Add, Book

LEMMA ScanType ==
  ASSUME NEW shares, NEW side \in Sides, NEW price \in Prices
  PROVE  Rescan(shares, side, price) \in 0 .. MaxPrice
<1>1. 1 .. price - 1 \subseteq Prices /\ price + 1 .. MaxPrice \subseteq Prices
  BY PricesType
<1>2. ScanDown(shares, price - 1) \in 0 .. MaxPrice
  BY <1>1, HighestExtreme DEF ScanDown
<1>3. ScanUp(shares, price + 1) \in 0 .. MaxPrice
  BY <1>1, LowestExtreme DEF ScanUp
<1> QED
  BY <1>2, <1>3 DEF Rescan

LEMMA RemoveType ==
  ASSUME NEW b \in Book, NEW side, NEW price, NEW qty \in U32,
         NEW gone \in BOOLEAN, CanRemove(b, side, price, qty, gone)
  PROVE  Remove(b, side, price, qty, gone) \in Book
<1> DEFINE c == Remove(b, side, price, qty, gone)
<1>1. side \in Sides /\ price \in Prices
  BY DEF CanRemove
<1>2. /\ b.shares[side][price] - qty \in U32
      /\ gone => b.orders[side][price] - 1 \in U32
  <2>1. b.shares[side][price] \in U32 /\ b.orders[side][price] \in U32
    BY <1>1, BookType
  <2>2. /\ qty <= b.shares[side][price]
        /\ gone => b.orders[side][price] # 0
    BY DEF CanRemove
  <2> QED
    BY <2>1, <2>2, MaxU32Assumption DEF U32
<1>3. c.shares \in [Sides -> [Prices -> U32]]
  BY <1>1, <1>2, BookType DEF Remove
<1>4. c.orders \in [Sides -> [Prices -> U32]]
  BY <1>1, <1>2, BookType DEF Remove
<1>5. c.best \in [Sides -> 0 .. MaxPrice]
  BY <1>1, ScanType, BookType DEF Remove
<1> QED
  BY <1>3, <1>4, <1>5 DEF Remove, Book

LEMMA ReplaceType ==
  ASSUME NEW b \in Book, NEW side, NEW oldPrice, NEW oldQty \in U32,
         NEW price, NEW qty \in U32
  PROVE  Replace(b, side, oldPrice, oldQty, price, qty) \in Book
<1>1. CASE ~CanReplace(b, side, oldPrice, oldQty, price, qty)
  BY <1>1 DEF Replace
<1>2. CASE CanReplace(b, side, oldPrice, oldQty, price, qty)
  <2>1. AfterRemove(b, side, oldPrice, oldQty) \in Book
    BY <1>2, RemoveType DEF CanReplace, AfterRemove
  <2> QED
    BY <1>2, <2>1, AddType DEF Replace
<1> QED
  BY <1>1, <1>2

-----------------------------------------------------------------------------
\* A book whose cached best prices are right, and one whose levels the vector
\* compare reads as the scalar loop does.
BestIsRight(b) == \A s \in Sides : b.best[s] = BestPrice(s, b.shares[s])
VectorSafe(shares) == Simd => \A p \in Prices : shares[p] <= MaxI32

LEMMA BuyIsNotSell == BUY \in Sides /\ SELL \in Sides /\ BUY # SELL
BY DEF BUY, SELL, Sides

\* add() keeps the best prices right.
LEMMA AddBest ==
  ASSUME NEW b \in Book, NEW side, NEW price, NEW qty \in U32,
         CanAdd(b, side, price, qty), BestIsRight(b)
  PROVE  BestIsRight(Add(b, side, price, qty))
<1> DEFINE c == Add(b, side, price, qty)
           N == NonEmpty(b.shares[side])
           M == NonEmpty(c.shares[side])
<1>1. side \in Sides /\ price \in Prices /\ qty # 0
  BY DEF CanAdd
<1>2. ASSUME NEW s \in Sides, s # side
      PROVE  c.best[s] = BestPrice(s, c.shares[s])
  <2>1. c.best[s] = b.best[s] /\ c.shares[s] = b.shares[s]
    BY <1>1, <1>2, BookType DEF Add
  <2> QED
    BY <2>1 DEF BestIsRight
<1>3. M = N \cup {price}
  <2>1. c.shares[side] = [b.shares[side] EXCEPT ![price] = @ + qty]
    BY <1>1, BookType DEF Add
  <2>2. b.shares[side] \in [Prices -> U32] /\ b.shares[side][price] \in U32
    BY <1>1, BookType
  <2>3. b.shares[side][price] + qty # 0
    BY <1>1, <2>2, MaxU32Assumption DEF U32
  <2> QED
    BY <1>1, <2>1, <2>2, <2>3 DEF NonEmpty
<1>4. N \in SUBSET Prices /\ M \in SUBSET Prices
  BY DEF NonEmpty
<1>5. c.best[side] = IF IsBetter(side, price, b.best[side])
                     THEN price ELSE b.best[side]
  BY <1>1, BookType DEF Add
<1>6. \A q \in Prices : q \in Int /\ 1 <= q
  BY PricesType
<1>7. CASE side = BUY
  <2> HIDE DEF N, M, c
  <2>1. b.best[side] = Highest(N)
    BY <1>1, <1>7 DEF BestIsRight, BestPrice, N
  <2>2. Highest(N) \in Int
    BY <1>4, HighestExtreme, PricesType
  <2>3. ASSUME price > Highest(N)
       PROVE  c.best[side] = BestPrice(side, c.shares[side])
    <3>1. \A q \in M : q <= price
      BY <1>1, <1>3, <1>4, <1>6, <2>2, <2>3, HighestExtreme
    <3>2. Highest(M) = price
      BY <3>1, <1>3, <1>4, HighestExtreme
    <3> QED
      BY <3>2, <2>1, <2>3, <1>5, <1>7 DEF IsBetter, BestPrice, M
  <2>4. ASSUME ~(price > Highest(N))
       PROVE  c.best[side] = BestPrice(side, c.shares[side])
    <3>1. N # {} /\ Highest(N) \in N /\ \A q \in N : q <= Highest(N)
      BY <1>1, <1>4, <1>6, <2>4, HighestExtreme
    <3>2. \A q \in M : q <= Highest(N)
      BY <3>1, <1>1, <1>3, <1>6, <2>2, <2>4
    <3>3. Highest(M) = Highest(N)
      BY <3>1, <3>2, <1>3, <1>4, HighestExtreme
    <3> QED
      BY <3>3, <2>1, <2>4, <1>5, <1>7 DEF IsBetter, BestPrice, M
  <2>5. c.best[side] = BestPrice(side, c.shares[side])
    BY <2>3, <2>4 DEF M
  <2> QED
    BY <2>5, <1>2, <1>1 DEF BestIsRight, c
<1>8. CASE side = SELL
  <2> HIDE DEF N, M, c
  <2>1. b.best[side] = Lowest(N)
    BY <1>1, <1>8, BuyIsNotSell DEF BestIsRight, BestPrice, N
  <2>2. Lowest(N) \in Int
    BY <1>4, LowestExtreme, PricesType
  <2>3. ASSUME Lowest(N) = 0 \/ price < Lowest(N)
       PROVE  c.best[side] = BestPrice(side, c.shares[side])
    <3>1. \A q \in M : price <= q
      BY <1>1, <1>3, <1>4, <1>6, <2>2, <2>3, LowestExtreme
    <3>2. Lowest(M) = price
      BY <3>1, <1>3, <1>4, LowestExtreme
    <3> QED
      BY <3>2, <2>1, <2>3, <1>5, <1>8, BuyIsNotSell DEF IsBetter, BestPrice, M
  <2>4. ASSUME ~(Lowest(N) = 0 \/ price < Lowest(N))
       PROVE  c.best[side] = BestPrice(side, c.shares[side])
    <3>1. N # {} /\ Lowest(N) \in N /\ \A q \in N : Lowest(N) <= q
      BY <1>4, <2>4, LowestExtreme
    <3>2. \A q \in M : Lowest(N) <= q
      BY <3>1, <1>1, <1>3, <1>6, <2>2, <2>4
    <3>3. Lowest(M) = Lowest(N)
      BY <3>1, <3>2, <1>3, <1>4, LowestExtreme
    <3> QED
      BY <3>3, <2>1, <2>4, <1>5, <1>8, BuyIsNotSell DEF IsBetter, BestPrice, M
  <2>5. c.best[side] = BestPrice(side, c.shares[side])
    BY <2>3, <2>4 DEF M
  <2> QED
    BY <2>5, <1>2, <1>1 DEF BestIsRight, c
<1> QED
  BY <1>1, <1>7, <1>8 DEF Sides

\* A scan below or above a price finds the extreme nonempty level there, in
\* the scalar build always and in a vector build when no total has its top
\* bit set.
LEMMA SeesIsNonEmpty ==
  ASSUME NEW shares \in [Prices -> U32], VectorSafe(shares),
         NEW inBlocks, inBlocks => Simd, NEW p \in Prices
  PROVE  (IF inBlocks THEN VectorSees(shares, p) ELSE ScalarSees(shares, p))
            <=> p \in NonEmpty(shares)
<1>1. shares[p] \in U32
  OBVIOUS
<1>2. ScalarSees(shares, p) <=> p \in NonEmpty(shares)
  BY DEF ScalarSees, NonEmpty
<1>3. Simd => (VectorSees(shares, p) <=> shares[p] # 0)
  BY <1>1, MaxU32Assumption DEF VectorSafe, VectorSees, U32, MaxI32
<1> QED
  BY <1>2, <1>3 DEF NonEmpty

LEMMA ScanDownFinds ==
  ASSUME NEW shares \in [Prices -> U32], VectorSafe(shares),
         NEW price \in Prices
  PROVE  ScanDown(shares, price - 1) =
           Highest({p \in NonEmpty(shares) : p < price})
<1>1. \A p : p \in 1 .. price - 1 <=> p \in Prices /\ p < price
  BY PricesType
<1>2. \A p \in Prices : InDownBlocks(price - 1, p) => Simd
  BY DEF InDownBlocks
<1>3. {p \in 1 .. price - 1 : IF InDownBlocks(price - 1, p)
                              THEN VectorSees(shares, p)
                              ELSE ScalarSees(shares, p)}
        = {p \in NonEmpty(shares) : p < price}
  <2>1. ASSUME NEW p \in Prices
        PROVE  (IF InDownBlocks(price - 1, p) THEN VectorSees(shares, p)
                ELSE ScalarSees(shares, p)) <=> p \in NonEmpty(shares)
    BY <1>2, SeesIsNonEmpty
  <2>2. NonEmpty(shares) \subseteq Prices
    BY DEF NonEmpty
  <2> QED
    BY <1>1, <2>1, <2>2
<1> QED
  BY <1>3 DEF ScanDown

LEMMA ScanUpFinds ==
  ASSUME NEW shares \in [Prices -> U32], VectorSafe(shares),
         NEW price \in Prices
  PROVE  ScanUp(shares, price + 1) =
           Lowest({p \in NonEmpty(shares) : price < p})
<1>1. \A p : p \in price + 1 .. MaxPrice <=> p \in Prices /\ price < p
  BY PricesType
<1>2. \A p \in Prices : InUpBlocks(price + 1, p) => Simd
  BY DEF InUpBlocks
<1>3. {p \in price + 1 .. MaxPrice : IF InUpBlocks(price + 1, p)
                                     THEN VectorSees(shares, p)
                                     ELSE ScalarSees(shares, p)}
        = {p \in NonEmpty(shares) : price < p}
  <2>1. ASSUME NEW p \in Prices
        PROVE  (IF InUpBlocks(price + 1, p) THEN VectorSees(shares, p)
                ELSE ScalarSees(shares, p)) <=> p \in NonEmpty(shares)
    BY <1>2, SeesIsNonEmpty
  <2>2. NonEmpty(shares) \subseteq Prices
    BY DEF NonEmpty
  <2> QED
    BY <1>1, <2>1, <2>2
<1> QED
  BY <1>3 DEF ScanUp

\* remove() keeps the best prices right, rescanning when it empties the best
\* level.
LEMMA RemoveBest ==
  ASSUME NEW b \in Book, NEW side, NEW price, NEW qty \in U32,
         NEW gone \in BOOLEAN, CanRemove(b, side, price, qty, gone),
         BestIsRight(b), VectorSafe(b.shares[side])
  PROVE  BestIsRight(Remove(b, side, price, qty, gone))
<1> DEFINE c == Remove(b, side, price, qty, gone)
           N == NonEmpty(b.shares[side])
           M == NonEmpty(c.shares[side])
<1>1. side \in Sides /\ price \in Prices /\ qty # 0
  BY DEF CanRemove
<1>2. ASSUME NEW s \in Sides, s # side
      PROVE  c.best[s] = BestPrice(s, c.shares[s])
  <2>1. c.best[s] = b.best[s] /\ c.shares[s] = b.shares[s]
    BY <1>1, <1>2, BookType DEF Remove
  <2> QED
    BY <2>1 DEF BestIsRight
<1>3. c.shares[side] = [b.shares[side] EXCEPT ![price] = @ - qty]
  BY <1>1, BookType DEF Remove
<1>4. /\ b.shares[side] \in [Prices -> U32]
      /\ b.shares[side][price] \in U32
      /\ qty <= b.shares[side][price]
  BY <1>1, BookType DEF CanRemove
<1>5. b.shares[side][price] - qty \in U32 /\ b.shares[side][price] # 0
  BY <1>1, <1>4, MaxU32Assumption DEF U32
<1>6. c.shares[side] \in [Prices -> U32]
  BY <1>1, <1>3, <1>4, <1>5
<1>7. price \in N
  BY <1>1, <1>5 DEF NonEmpty
<1>8. c.shares[side][price] = b.shares[side][price] - qty
  BY <1>1, <1>3, <1>4
<1>9. M = IF c.shares[side][price] = 0 THEN N \ {price} ELSE N
  BY <1>1, <1>3, <1>4, <1>5, <1>8 DEF NonEmpty
<1>10. VectorSafe(c.shares[side])
  <2>1. ASSUME NEW p \in Prices, Simd PROVE c.shares[side][p] <= MaxI32
    <3>1. b.shares[side][p] <= MaxI32 /\ b.shares[side][p] \in U32
      BY <2>1, <1>4 DEF VectorSafe
    <3>2. c.shares[side][p] <= b.shares[side][p] /\ c.shares[side][p] \in U32
      BY <1>3, <1>4, <1>5, <1>6, <3>1, MaxU32Assumption DEF U32
    <3> QED
      BY <3>1, <3>2, MaxU32Assumption DEF U32, MaxI32
  <2> QED
    BY <2>1 DEF VectorSafe
<1>11. N \in SUBSET Prices /\ M \in SUBSET Prices
  BY DEF NonEmpty
<1>12. c.best[side] = IF c.shares[side][price] = 0 /\ price = b.best[side]
                      THEN Rescan(c.shares[side], side, price)
                      ELSE b.best[side]
  BY <1>1, BookType DEF Remove
<1>13. \A q \in Prices : q \in Int /\ 1 <= q
  BY PricesType
<1>14. ASSUME c.shares[side][price] # 0
       PROVE  c.best[side] = BestPrice(side, c.shares[side])
  BY <1>1, <1>9, <1>12, <1>14 DEF BestIsRight, BestPrice
<1>15. ASSUME c.shares[side][price] = 0, side = BUY
       PROVE  c.best[side] = BestPrice(side, c.shares[side])
  <2> HIDE DEF N, M, c
  <2>1. b.best[side] = Highest(N) /\ Highest(N) \in N /\ \A q \in N : q <= Highest(N)
    BY <1>1, <1>7, <1>11, <1>15, HighestExtreme DEF BestIsRight, BestPrice, N
  <2>2. BestPrice(side, c.shares[side]) = Highest(M)
    BY <1>15 DEF BestPrice, M
  <2>3. CASE price = b.best[side]
    <3>1. c.best[side] = Highest({p \in M : p < price})
      BY <2>3, <1>1, <1>6, <1>10, <1>12, <1>15, ScanDownFinds DEF Rescan, M
    <3>2. {p \in M : p < price} = M
      BY <2>1, <2>3, <1>1, <1>9, <1>11, <1>13, <1>15
    <3> QED
      BY <3>1, <3>2, <2>2
  <2>4. CASE price # b.best[side]
    <3>1. Highest(N) \in M /\ \A q \in M : q <= Highest(N)
      BY <2>1, <2>4, <1>9, <1>15
    <3>2. Highest(M) = Highest(N)
      BY <3>1, <1>11, HighestExtreme
    <3> QED
      BY <3>2, <2>1, <2>2, <2>4, <1>12
  <2> QED
    BY <2>3, <2>4
<1>16. ASSUME c.shares[side][price] = 0, side = SELL
       PROVE  c.best[side] = BestPrice(side, c.shares[side])
  <2> HIDE DEF N, M, c
  <2>1. b.best[side] = Lowest(N) /\ Lowest(N) \in N /\ \A q \in N : Lowest(N) <= q
    BY <1>1, <1>7, <1>11, <1>16, LowestExtreme, BuyIsNotSell
       DEF BestIsRight, BestPrice, N
  <2>2. BestPrice(side, c.shares[side]) = Lowest(M)
    BY <1>16, BuyIsNotSell DEF BestPrice, M
  <2>3. CASE price = b.best[side]
    <3>1. c.best[side] = Lowest({p \in M : price < p})
      BY <2>3, <1>1, <1>6, <1>10, <1>12, <1>16, ScanUpFinds, BuyIsNotSell
         DEF Rescan, M
    <3>2. {p \in M : price < p} = M
      BY <2>1, <2>3, <1>1, <1>9, <1>11, <1>13, <1>16
    <3> QED
      BY <3>1, <3>2, <2>2
  <2>4. CASE price # b.best[side]
    <3>1. Lowest(N) \in M /\ \A q \in M : Lowest(N) <= q
      BY <2>1, <2>4, <1>9, <1>16
    <3>2. Lowest(M) = Lowest(N)
      BY <3>1, <1>11, LowestExtreme
    <3> QED
      BY <3>2, <2>1, <2>2, <2>4, <1>12
  <2> QED
    BY <2>3, <2>4
<1>17. c.best[side] = BestPrice(side, c.shares[side])
  BY <1>1, <1>14, <1>15, <1>16 DEF Sides
<1> QED
  BY <1>2, <1>17 DEF BestIsRight

\* A replace() that passes its guard always succeeds: once the old order is
\* off the book, the guard of the addition holds.
LEMMA ReplaceAlwaysSucceeds ==
  ASSUME NEW b \in Book, NEW side, NEW oldPrice, NEW oldQty \in U32,
         NEW price, NEW qty \in U32,
         CanReplace(b, side, oldPrice, oldQty, price, qty)
  PROVE  ReplaceSucceeds(b, side, oldPrice, oldQty, price, qty)
<1> DEFINE c == AfterRemove(b, side, oldPrice, oldQty)
<1>1. CanRemove(b, side, oldPrice, oldQty, TRUE) /\ price \in Prices /\ qty # 0
  BY DEF CanReplace
<1>2. side \in Sides /\ oldPrice \in Prices
  BY <1>1 DEF CanRemove
<1>3. /\ c.shares[side][price] = b.shares[side][price]
                                  - (IF price = oldPrice THEN oldQty ELSE 0)
      /\ c.orders[side][price] = b.orders[side][price]
                                  - (IF price = oldPrice THEN 1 ELSE 0)
  <2>1. /\ c.shares[side] = [b.shares[side] EXCEPT ![oldPrice] = @ - oldQty]
        /\ c.orders[side] = [b.orders[side] EXCEPT ![oldPrice] = @ - 1]
    BY <1>2, BookType DEF AfterRemove, Remove
  <2>2. /\ b.shares[side] \in [Prices -> U32] /\ b.orders[side] \in [Prices -> U32]
        /\ b.shares[side][price] \in Int /\ b.orders[side][price] \in Int
    BY <1>1, <1>2, BookType DEF Book, U32
  <2> QED
    BY <1>1, <1>2, <2>1, <2>2
<1>4. CanAdd(c, side, price, qty)
  <2>1. CASE price # oldPrice
    <3>1. CanAdd(b, side, price, qty)
      BY <2>1 DEF CanReplace
    <3>2. b.shares[side][price] \in Int /\ b.orders[side][price] \in Int
      BY <1>1, <1>2, BookType DEF U32
    <3>3. /\ c.shares[side][price] = b.shares[side][price]
          /\ c.orders[side][price] = b.orders[side][price]
      BY <2>1, <1>3, <3>2
    <3> QED
      BY <3>1, <3>3 DEF CanAdd
  <2>2. CASE price = oldPrice
    <3>1. b.shares[side][price] \in U32 /\ b.orders[side][price] \in U32
      BY <1>1, <1>2, BookType
    <3>2. b.shares[side][price] - oldQty <= MaxU32 - qty
      BY <2>2 DEF CanReplace
    <3>3. /\ oldQty <= b.shares[side][price] /\ b.orders[side][price] # 0
          /\ b.shares[side][price] = oldQty <=> b.orders[side][price] - 1 = 0
      BY <1>1, <2>2 DEF CanRemove
    <3>4. /\ c.shares[side][price] = b.shares[side][price] - oldQty
          /\ c.orders[side][price] = b.orders[side][price] - 1
      BY <2>2, <1>3
    <3>5. c.shares[side][price] = 0 <=> c.orders[side][price] = 0
      BY <3>1, <3>3, <3>4 DEF U32
    <3>6. c.shares[side][price] <= MaxU32 - qty /\ c.orders[side][price] # MaxU32
      BY <3>1, <3>2, <3>4, MaxU32Assumption DEF U32
    <3> QED
      BY <1>1, <1>2, <3>5, <3>6 DEF CanAdd
  <2> QED
    BY <2>1, <2>2
<1> QED
  BY <1>4 DEF ReplaceSucceeds

LEMMA ReplaceBest ==
  ASSUME NEW b \in Book, NEW side, NEW oldPrice, NEW oldQty \in U32,
         NEW price, NEW qty \in U32, BestIsRight(b),
         \A s \in Sides : VectorSafe(b.shares[s])
  PROVE  BestIsRight(Replace(b, side, oldPrice, oldQty, price, qty))
<1> DEFINE c == AfterRemove(b, side, oldPrice, oldQty)
<1>1. ASSUME CanReplace(b, side, oldPrice, oldQty, price, qty)
      PROVE  c \in Book /\ BestIsRight(c)
  <2>1. CanRemove(b, side, oldPrice, oldQty, TRUE) /\ side \in Sides
    BY <1>1 DEF CanReplace, CanRemove
  <2> QED
    BY <2>1, RemoveType, RemoveBest DEF AfterRemove
<1>2. ASSUME CanReplace(b, side, oldPrice, oldQty, price, qty),
             CanAdd(c, side, price, qty)
      PROVE  BestIsRight(Add(c, side, price, qty))
  BY <1>1, <1>2, AddBest
<1> QED
  BY <1>1, <1>2 DEF Replace

-----------------------------------------------------------------------------
\* What the operations do to each level.
Here(s, p, side, price, n) == IF s = side /\ p = price THEN n ELSE 0

LEMMA AddLevels ==
  ASSUME NEW b \in Book, NEW side \in Sides, NEW price \in Prices,
         NEW qty \in U32, NEW s \in Sides, NEW p \in Prices
  PROVE  /\ Add(b, side, price, qty).shares[s][p]
              = b.shares[s][p] + Here(s, p, side, price, qty)
         /\ Add(b, side, price, qty).orders[s][p]
              = b.orders[s][p] + Here(s, p, side, price, 1)
<1>1. /\ b.shares \in [Sides -> [Prices -> U32]]
      /\ b.orders \in [Sides -> [Prices -> U32]]
      /\ b.shares[s] \in [Prices -> U32] /\ b.orders[s] \in [Prices -> U32]
      /\ b.shares[s][p] \in Int /\ b.orders[s][p] \in Int
  BY BookType DEF Book, U32
<1> QED
  BY <1>1 DEF Add, Here

LEMMA RemoveLevels ==
  ASSUME NEW b \in Book, NEW side \in Sides, NEW price \in Prices,
         NEW qty \in U32, NEW gone \in BOOLEAN,
         NEW s \in Sides, NEW p \in Prices
  PROVE  /\ Remove(b, side, price, qty, gone).shares[s][p]
              = b.shares[s][p] - Here(s, p, side, price, qty)
         /\ Remove(b, side, price, qty, gone).orders[s][p]
              = b.orders[s][p] - Here(s, p, side, price, IF gone THEN 1 ELSE 0)
<1>1. /\ b.shares \in [Sides -> [Prices -> U32]]
      /\ b.orders \in [Sides -> [Prices -> U32]]
      /\ b.shares[s] \in [Prices -> U32] /\ b.orders[s] \in [Prices -> U32]
      /\ b.shares[s][p] \in Int /\ b.orders[s][p] \in Int
  BY BookType DEF Book, U32
<1> QED
  BY <1>1 DEF Remove, Here

LEMMA ReplaceLevels ==
  ASSUME NEW b \in Book, NEW side, NEW oldPrice, NEW oldQty \in U32,
         NEW price, NEW qty \in U32, NEW s \in Sides, NEW p \in Prices,
         CanReplace(b, side, oldPrice, oldQty, price, qty)
  PROVE  /\ Replace(b, side, oldPrice, oldQty, price, qty).shares[s][p]
              = b.shares[s][p] - Here(s, p, side, oldPrice, oldQty)
                               + Here(s, p, side, price, qty)
         /\ Replace(b, side, oldPrice, oldQty, price, qty).orders[s][p]
              = b.orders[s][p] - Here(s, p, side, oldPrice, 1)
                               + Here(s, p, side, price, 1)
<1> DEFINE c == AfterRemove(b, side, oldPrice, oldQty)
<1>1. /\ CanRemove(b, side, oldPrice, oldQty, TRUE)
      /\ side \in Sides /\ oldPrice \in Prices /\ price \in Prices
  BY DEF CanReplace, CanRemove
<1>2. c \in Book
  BY <1>1, RemoveType DEF AfterRemove
<1>3. /\ c.shares[s][p] = b.shares[s][p] - Here(s, p, side, oldPrice, oldQty)
      /\ c.orders[s][p] = b.orders[s][p] - Here(s, p, side, oldPrice, 1)
  <2>1. PICK gone \in BOOLEAN : gone = TRUE
    OBVIOUS
  <2>2. c = Remove(b, side, oldPrice, oldQty, gone)
    BY <2>1 DEF AfterRemove
  <2>3. /\ c.shares[s][p] = b.shares[s][p] - Here(s, p, side, oldPrice, oldQty)
        /\ c.orders[s][p] =
             b.orders[s][p] - Here(s, p, side, oldPrice, IF gone THEN 1 ELSE 0)
    BY <1>1, <2>2, RemoveLevels
  <2> QED
    BY <2>1, <2>3
<1>4. Replace(b, side, oldPrice, oldQty, price, qty) = Add(c, side, price, qty)
  BY ReplaceAlwaysSucceeds DEF Replace, ReplaceSucceeds
<1> HIDE DEF c
<1> QED
  BY <1>1, <1>2, <1>3, <1>4, AddLevels
=============================================================================
