------------------------------- MODULE CoSim -------------------------------
(***************************************************************************)
(* One stream of decoded messages applied to the engine and to its oracle, *)
(* as run_diff of sw/tests/test_book_engine.cpp does to compare the two.   *)
(***************************************************************************)
EXTENDS BookEngine

CONSTANTS
  BasePrice, SymSpacing, Tick, BandTicks, MinPrice, GenMaxPrice, MaxShares,
  Inventory, MaxLive  \* of the generator

ASSUME GeneratorAssumption ==
  /\ {BandTicks, Tick, MaxShares, Inventory, MaxLive} \subseteq Nat \ {0}
  /\ BasePrice \in Nat /\ SymSpacing \in Nat
  /\ MinPrice \in Prices /\ GenMaxPrice \in Prices
  /\ MaxLive <= RefCapacity /\ MaxLive * MaxShares <= MaxU32

VARIABLES
  ref_orders,   \* orders_ of the oracle
  ref_books,    \* books_ of the oracle
  feed,         \* where the messages come from
  live, systems \* the generator's state

Oracle == INSTANCE ReferenceBook WITH orders <- ref_orders, books <- ref_books

Generator == INSTANCE ItchGenerator WITH GenRefs <- RefIds, Symbols <- Locates

\* Any decoded messages, well-formed or not, or those of the generator.
Feeds == {"any", "generator"}

CoInit == Init /\ Oracle!Init /\ feed \in Feeds /\ Generator!GenInit

AnyMsgs ==
  AddMsgs \cup ReduceMsgs \cup DeleteMsgs \cup ReplaceMsgs \cup TradeMsgs \cup OtherMsgs

\* The comparison ends with the first rejected message: after it the oracle, which
\* validates nothing, is given up and the engine goes on alone.
Alongside(oracle_step) ==
  IF clean' THEN oracle_step
  ELSE ref_orders' = Oracle!NoKeys /\ ref_books' = Oracle!NoKeys

Apply(m) ==
  \/ m.type = "Add" /\ OnAdd(m) /\ Alongside(Oracle!OnAdd(m))
  \/ m.type \in {"Exec", "ExecPrice", "Cancel"} /\ OnReduce(m) /\ Alongside(Oracle!OnReduce(m))
  \/ m.type = "Delete" /\ OnDelete(m) /\ Alongside(Oracle!OnDelete(m))
  \/ m.type = "Replace" /\ OnReplace(m) /\ Alongside(Oracle!OnReplace(m))
  \/ m.type = "Trade" /\ OnTrade(m) /\ Alongside(Oracle!OnOther(m))
  \/ m.type \in {"System", "Unknown"} /\ OnOther(m) /\ Alongside(Oracle!OnOther(m))

CoNext ==
  /\ UNCHANGED feed
  /\ \/ feed = "any" /\ (\E m \in AnyMsgs : Apply(m)) /\ UNCHANGED <<live, systems>>
     \/ feed = "generator" /\ \E m \in Generator!Messages : Apply(m) /\ Generator!Send(m)

coVars == <<vars, ref_orders, ref_books, feed, live, systems>>

CoSpec == CoInit /\ [][CoNext]_coVars

-----------------------------------------------------------------------------
(* Properties. *)

LevelsAgree ==
  \A l \in Locates, s \in Sides, p \in Prices :
    /\ BookOf(l).shares[s][p] = Oracle!SharesAt(l, s, p)
    /\ BookOf(l).orders[s][p] = Oracle!OrdersAt(l, s, p)

BestsAgree ==
  \A l \in Locates, s \in Sides :
    LET best == IF s = BUY THEN Oracle!BestBid(l) ELSE Oracle!BestAsk(l)
    IN  /\ BookOf(l).best[s] = best
        /\ BestDepth(BookOf(l), s) = Oracle!SharesAt(l, s, best)

OrdersAgree ==
  /\ DOMAIN ref_orders = LiveRefs
  /\ \A r \in LiveRefs : ref_orders[r] = refs[r]

SameSemantics == OrdersAgree /\ LevelsAgree /\ BestsAgree

\* As long as no message was rejected, the two agree on the orders, the levels
\* and the best prices: a replay whose integrity counters are all zero ends in
\* the oracle's book.
CleanRunsAgree == clean => SameSemantics

Resting(o) == [locate |-> o.locate, side |-> o.side, price |-> o.price, shares |-> o.shares]

\* The generator, which sees no book, never parts from the engine's: none of its
\* messages is rejected, its orders are those of the table ("self-consistent
\* stream", sw/util/itch_gen.hpp:13-16), and a sweep executes at the best price of the
\* engine's book (prints happen at the touch only, sw/util/itch_gen.hpp:189-193).
GeneratorKeepsStep ==
  feed = "generator" =>
    /\ clean
    /\ LiveRefs = {o.ref : o \in Generator!Live}
    /\ \A o \in Generator!Live : refs[o.ref] = Resting(o)
    /\ \A l \in Locates, s \in Sides :
         {o.price : o \in Generator!Touch(l, s)} = {BookOf(l).best[s]} \ {0}

\* What a generated stream builds is never crossed nor locked
\* (sw/util/itch_gen.hpp:54-57).
NeverCrossed ==
  feed = "generator" =>
    \A l \in Locates :
      BookOf(l).best[BUY] # 0 /\ BookOf(l).best[SELL] # 0
        => BookOf(l).best[BUY] < BookOf(l).best[SELL]
=============================================================================
