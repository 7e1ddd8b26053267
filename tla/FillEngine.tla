----------------------------- MODULE FillEngine -----------------------------
(***************************************************************************)
(* The queue-aware fill simulation (class FillEngine of                    *)
(* sw/trade/fill_engine.hpp) on top of the book engine whose stream it     *)
(* shares: it sees each message before the engine applies it, and looks up *)
(* in the engine's table which resting order the message is about.  Own    *)
(* orders never enter the market's book.                                   *)
(*                                                                         *)
(* open_ is a sequence in insertion order, so that the position of an      *)
(* order stands for its seq.  fills holds what take_fills() returns after  *)
(* each call.  Order references are numbers here: the simulation compares  *)
(* them with <=.                                                           *)
(***************************************************************************)
EXTENDS BookEngine, Sequences, FiniteSetsExt

CONSTANTS
  Locate,       \* locate_: the stock that is traded
  OwnQtys,      \* share quantities of own orders
  OwnPrices,    \* limit prices of own orders
  MaxSubmits    \* bound on the calls of submit_limit

ASSUME FillAssumption ==
  /\ RefIds \subseteq Nat \ {0} /\ NullRef = 0
  /\ Locate \in Locates
  /\ OwnQtys \subseteq U32 /\ OwnPrices \subseteq U32
  /\ MaxSubmits \in Nat

VARIABLES
  open,             \* open_
  max_market_ref,   \* max_market_ref_: the highest market reference seen
  next_ref,         \* next_ref_, counted from 1
  fills,            \* fills_ when the last call returned
  increasing        \* every new market reference was above all before it

ownVars == <<open, max_market_ref, next_ref, fills, increasing>>
fillVars == <<vars, ownVars>>

Least(a, b) == IF a < b THEN a ELSE b
Greatest(a, b) == IF a > b THEN a ELSE b

\* a minus b, but not below 0.
LessAtMost(a, b) == IF a > b THEN a - b ELSE 0

\* bid_shares_at and ask_shares_at.
Displayed(side, p) ==
  IF p \in Prices THEN BookOf(Locate).shares[side][p] ELSE 0

Opposite(side) == IF side = BUY THEN SELL ELSE BUY

\* Price p of an order on a side has priority over price q.
Superior(side, p, q) == IF side = BUY THEN p > q ELSE p < q

FillRec(ref, side, price, shares, maker) ==
  [ref |-> ref, side |-> side, price |-> price, shares |-> shares,
   maker |-> maker]

\* The sum of the values f has on S, and the elements of s at the positions I, in
\* their order.
SumOver(f, S) == MapThenSumSet(LAMBDA i : f[i], S)
Keep(s, I) ==
  MapThenFoldSet(LAMBDA e, kept : Append(kept, e), <<>>, LAMBDA i : s[i],
                 LAMBDA J : Max(J), I)

Shares(fs) == [k \in DOMAIN fs |-> fs[k].shares]
Remaining(os) == [i \in DOMAIN os |-> os[i].remaining]

\* What i gets of q shares that are handed out in order, to each at most what it
\* asks for.
InTurn(q, asks, i) ==
  Least(LessAtMost(q, SumOver(asks, {j \in DOMAIN asks : j < i})), asks[i])

FillInit ==
  /\ Init
  /\ open = <<>>
  /\ max_market_ref = 0
  /\ next_ref = 1
  /\ fills = <<>>
  /\ increasing = TRUE

-----------------------------------------------------------------------------
(* Own orders. *)

\* Mutant of WalkPrice: from the limit to the touch.
WalkFromLimit(side, i) == IF side = BUY THEN PriceLevels - i ELSE i

\* The i-th price of the walk over the other side: up for a buyer, down for a
\* seller.
WalkPrice(side, i) == IF side = BUY THEN i ELSE PriceLevels - i

\* What an own order can trade with at each price of its walk: the displayed
\* shares from the cached best of the other side to the limit.  An empty side
\* and price 0 end the walk at once.
Marketable(side, price) ==
  LET best == BookOf(Locate).best[Opposite(side)]
      InReach(p) == best # 0 /\ ~Superior(Opposite(side), p, best)
                    /\ ~Superior(side, p, price)
  IN  [i \in Prices |-> IF InReach(WalkPrice(side, i))
                        THEN Displayed(Opposite(side), WalkPrice(side, i))
                        ELSE 0]

SweepFills(side, price, shares) ==
  LET asks == Marketable(side, price)
      all == [i \in Prices |-> FillRec(next_ref, side, WalkPrice(side, i),
                                       InTurn(shares, asks, i), FALSE)]
  IN  Keep(all, {i \in Prices : all[i].shares # 0})

SameLevel(o, side, price) == o.side = side /\ o.price = price

\* Mutant of QueueAtEntry: own earlier orders do not count.
QueueAtEntryDisplayed(os, side, price) == Displayed(side, price)

\* The queue a new order rests behind: all that is displayed at its level and
\* the earlier own orders os there.
QueueAtEntry(os, side, price) ==
  Displayed(side, price) +
  SumOver(Remaining(os), {i \in DOMAIN os : SameLevel(os[i], side, price)})

\* submit_limit, with os in open_.
SubmitTo(os, side, price, shares) ==
  LET taken == SweepFills(side, price, shares)
      left == shares - SumOver(Shares(taken), DOMAIN taken)
  IN  /\ fills' = taken
      /\ open' = IF left = 0 THEN os
                 ELSE Append(os,
                        [ref |-> next_ref, side |-> side, price |-> price,
                         remaining |-> left,
                         queue_ahead |-> QueueAtEntry(os, side, price),
                         watermark |-> max_market_ref])
      /\ next_ref' = next_ref + 1
      /\ UNCHANGED <<max_market_ref, increasing>>

SubmitLimit(side, price, shares) ==
  SubmitTo(open, side, price, shares) /\ UNCHANGED vars

\* Mutant of Later: an order at the level counts whenever it came.
LaterAnytime(i, j) == SameLevel(open[i], open[j].side, open[j].price)

\* Order i came after order j at the same level, whose shares it counted.
Later(i, j) == i > j /\ SameLevel(open[i], open[j].side, open[j].price)

\* open_ without order j: the later orders at its level move up by what was
\* left of it.
Without(j) ==
  Keep([i \in DOMAIN open |->
          IF Later(i, j)
          THEN [open[i] EXCEPT !.queue_ahead = LessAtMost(@, open[j].remaining)]
          ELSE open[i]],
       DOMAIN open \ {j})

\* cancel.
Cancel(j) ==
  /\ open' = Without(j)
  /\ fills' = <<>>
  /\ UNCHANGED <<vars, max_market_ref, next_ref, increasing>>

-----------------------------------------------------------------------------
(* What the market does to own orders. *)

\* A message that concerns an order of the traded stock.
Concerns(r) == r \in LiveRefs /\ refs[r].locate = Locate

\* Mutant of IsAhead: the order at the watermark is taken to be behind.
IsAheadStrictly(o, r) == r < o.watermark

\* The market order r had arrived when the own order o was submitted.
IsAhead(o, r) == r <= o.watermark

\* Mutant of FifoShare: the quantity is not used up by earlier orders.
FifoShareEach(q, S, i) == Least(q, open[i].remaining)

\* What order i gets when the orders S share q shares first in, first out.
FifoShare(q, S, i) ==
  InTurn(q, [j \in DOMAIN open |-> IF j \in S THEN open[j].remaining ELSE 0], i)

\* handle_exec: q shares of the market order r traded at a level.  Two
\* quantities of q are shared out: one among own orders at superior prices,
\* which the aggressor would have met first, one among the own orders at the
\* level that r was behind.  Both move up the later orders at their levels.
\* Orders that r was ahead of use up their queue and get what exceeds it.
\* Superior orders are filled before those at the level.
Executed(r, side, price, q) ==
  LET level == {i \in DOMAIN open : SameLevel(open[i], side, price)}
      ahead == {i \in level : IsAhead(open[i], r)}
      superior == {i \in DOMAIN open :
                     open[i].side = side /\ Superior(side, open[i].price, price)}
      through ==
        [i \in DOMAIN open |->
           CASE i \in superior      -> FifoShare(q, superior, i)
             [] i \in level \ ahead -> FifoShare(q, level \ ahead, i)
             [] OTHER               -> 0]
      Queue(i) ==
        LessAtMost(open[i].queue_ahead,
                   SumOver(through, {j \in DOMAIN open : Later(i, j)}))
      Filled(i) ==
        IF i \in ahead
        THEN Least(LessAtMost(q, Queue(i)), open[i].remaining)
        ELSE through[i]
      after == [i \in DOMAIN open |->
                  [open[i] EXCEPT
                     !.remaining = @ - Filled(i),
                     !.queue_ahead = IF i \in ahead THEN LessAtMost(Queue(i), q)
                                     ELSE Queue(i)]]
      records == [i \in DOMAIN open |->
                    FillRec(open[i].ref, side, open[i].price, Filled(i), TRUE)]
      FillsOf(S) == Keep(records, {i \in S : Filled(i) # 0})
  IN  /\ open' = Keep(after, {i \in DOMAIN open : after[i].remaining # 0})
      /\ fills' = FillsOf(superior) \o FillsOf(level)

\* handle_remove: x shares of the market order r leave a level.
RemovedFrom(r, side, price, x) ==
  /\ open' = [i \in DOMAIN open |->
                IF SameLevel(open[i], side, price) /\ IsAhead(open[i], r)
                THEN [open[i] EXCEPT !.queue_ahead = LessAtMost(@, x)]
                ELSE open[i]]
  /\ fills' = <<>>

NoEffect == UNCHANGED open /\ fills' = <<>>

\* A new market reference, whatever the book will make of it.
SeesNewRef(r) ==
  /\ max_market_ref' = Greatest(max_market_ref, r)
  /\ increasing' = (increasing /\ r > max_market_ref)

\* on_market_message, by the type of the message.
SeesAdd(m) == SeesNewRef(m.ref) /\ NoEffect /\ UNCHANGED next_ref

SeesReduction(m) ==
  /\ UNCHANGED <<max_market_ref, next_ref, increasing>>
  /\ IF ~Concerns(m.ref) THEN NoEffect
     ELSE LET o == refs[m.ref]
              q == Least(m.shares, o.shares)
          IN  IF m.type = "Cancel" THEN RemovedFrom(m.ref, o.side, o.price, q)
              ELSE Executed(m.ref, o.side, o.price, q)

Leaves(r) ==
  IF ~Concerns(r) THEN NoEffect
  ELSE RemovedFrom(r, refs[r].side, refs[r].price, refs[r].shares)

SeesDelete(m) ==
  Leaves(m.ref) /\ UNCHANGED <<max_market_ref, next_ref, increasing>>

SeesReplace(m) == Leaves(m.ref) /\ SeesNewRef(m.new_ref) /\ UNCHANGED next_ref

SeesOther == NoEffect /\ UNCHANGED <<max_market_ref, next_ref, increasing>>

-----------------------------------------------------------------------------
\* Messages whose fields are valid; whether they fit the book is another matter.
FeedAdds == {m \in AddMsgs : /\ m.ref # NullRef /\ m.locate # 0
                             /\ m.side \in Sides}
FeedReductions == {m \in ReduceMsgs : m.ref # NullRef}
FeedReplaces == {m \in ReplaceMsgs : NullRef \notin {m.ref, m.new_ref}}

\* One message, first for the simulation and then for the book.
FeedMessage ==
  \/ \E m \in FeedAdds : SeesAdd(m) /\ OnAdd(m)
  \/ \E m \in FeedReductions : SeesReduction(m) /\ OnReduce(m)
  \/ \E m \in DeleteMsgs : SeesDelete(m) /\ OnDelete(m)
  \/ \E m \in FeedReplaces : SeesReplace(m) /\ OnReplace(m)
  \/ \E m \in TradeMsgs : SeesOther /\ OnTrade(m)
  \/ \E m \in OtherMsgs : SeesOther /\ OnOther(m)

FillNext ==
  \/ FeedMessage
  \/ /\ next_ref <= MaxSubmits
     /\ \E side \in Sides, price \in OwnPrices, shares \in OwnQtys :
          SubmitLimit(side, price, shares)
  \/ \E j \in DOMAIN open : Cancel(j)

FillSpec == FillInit /\ [][FillNext]_fillVars

-----------------------------------------------------------------------------
(* Properties. *)

OwnOrder == [ref : Nat \ {0}, side : Sides, price : U32,
             remaining : U32 \ {0}, queue_ahead : Nat, watermark : RefIds \cup {0}]

FillTypeOK ==
  /\ open \in Seq(OwnOrder)
  /\ max_market_ref \in RefIds \cup {0}
  /\ next_ref \in Nat \ {0}
  /\ fills \in Seq([ref : Nat \ {0}, side : Sides, price : U32,
                    shares : U32 \ {0}, maker : BOOLEAN])
  /\ increasing \in BOOLEAN

\* A feed as the exchange sends it: the book accepted every message and new
\* references increase.
CleanFeed == clean /\ increasing

\* queue_ahead is the truth under a clean feed: the shares of the market orders
\* at the level that arrived before the own order, and what remains of earlier
\* own orders there, after any executions, cancels, deletes, replaces and own
\* cancels.
QueueIsExact ==
  CleanFeed => \A i \in DOMAIN open :
    LET o == open[i]
        market == {r \in LiveRefs : /\ RestsAt(refs[r], Locate, o.side, o.price)
                                    /\ r <= o.watermark}
        own == {j \in DOMAIN open : Later(i, j)}
    IN  o.queue_ahead =
          Cardinality(SharesOf(refs, market))
          + SumOver(Remaining(open), own)

\* The simulation's state: own orders, fills and counters as declared, and exact
\* queue positions.
FillInv == FillTypeOK /\ QueueIsExact

\* The order whose shares the book took in this step, if any.
Touched == {r \in LiveRefs : refs'[r] # refs[r]}
ExecutionStep == exec' # NoExec /\ Touched # {}

\* An own order is filled by an execution only if it had priority over the
\* market order that was executed: by price, or by time at the same price.
FilledByPriority ==
  ExecutionStep =>
    \A r \in Touched, i \in DOMAIN open, k \in DOMAIN fills' :
      fills'[k].ref = open[i].ref =>
        /\ open[i].side = refs[r].side
        /\ \/ Superior(open[i].side, open[i].price, refs[r].price)
           \/ open[i].price = refs[r].price /\ r > open[i].watermark

\* Under a clean feed no fill jumps the queue.
PriceTimePriority == [][CleanFeed' => FilledByPriority]_fillVars

\* The own orders at one level share the executed quantity, and so do those at
\* superior prices: nobody is filled for shares another one got.
FillsShareExecution ==
  [][CleanFeed' /\ ExecutionStep =>
       \A r \in Touched :
         LET level == {k \in DOMAIN fills' : fills'[k].price = refs[r].price}
         IN  /\ SumOver(Shares(fills'), level) <= exec'.shares
             /\ SumOver(Shares(fills'), DOMAIN fills' \ level) <= exec'.shares
    ]_fillVars

\* Own orders at one level are filled first in, first out, and an order gives
\* up exactly the shares its fills report.
OwnFifo ==
  [][CleanFeed' /\ ExecutionStep =>
       \A i \in DOMAIN open :
         LET mine == {k \in DOMAIN fills' : fills'[k].ref = open[i].ref}
             got == SumOver(Shares(fills'), mine)
             left == {k \in DOMAIN open' : open'[k].ref = open[i].ref}
         IN  /\ mine # {} =>
                  \A j \in DOMAIN open : Later(i, j) =>
                    \A k \in DOMAIN open' : open'[k].ref # open[j].ref
             /\ IF left = {} THEN got = open[i].remaining
                ELSE \A k \in left :
                       open'[k].remaining = open[i].remaining - got
    ]_fillVars

\* A marketable order takes displayed levels best first: it takes a level only
\* after all that is displayed at every better one, never more than there is, and
\* rests only when nothing is left that it could trade with.
SweepIsBestFirst ==
  [][next_ref' # next_ref =>
       LET At(p) == {k \in DOMAIN fills' : fills'[k].price = p}
           Takes(side, p) ==
             SumOver(Shares(fills'), At(p)) = Displayed(Opposite(side), p)
           rests == Len(open') > Len(open)
           rest == open'[Len(open')]
       IN  /\ \A k \in DOMAIN fills' :
                LET f == fills'[k]
                IN  /\ f.shares <= Displayed(Opposite(f.side), f.price)
                    /\ \A p \in Prices :
                         Superior(Opposite(f.side), p, f.price) => Takes(f.side, p)
           /\ rests => \A p \in Prices :
                         Superior(rest.side, p, rest.price) \/ Takes(rest.side, p)
    ]_fillVars
=============================================================================
