--------------------------- MODULE ItchGenerator ---------------------------
(***************************************************************************)
(* The synthetic order flow the tests and benches are built on (class      *)
(* ItchGenerator of sw/util/itch_gen.hpp).  It has no book: it keeps the   *)
(* orders it has added, sends only messages about those, and relies on its *)
(* list and a receiver's book never parting.  Each emitter is the set of   *)
(* messages its random draws may give.                                     *)
(*                                                                         *)
(* The code never uses a reference twice; here one that is no longer live  *)
(* may come again.  live is kept in the order of the references, so that   *)
(* the older of two orders is the one that comes first.                    *)
(***************************************************************************)
EXTENDS Integers, Sequences, SequencesExt

CONSTANTS
  GenRefs,        \* references of orders
  Symbols,        \* stock locates, symbol s + 1
  BasePrice, SymSpacing, Tick, BandTicks, MinPrice, GenMaxPrice, MaxShares,
  Inventory,      \* live orders below which a step adds or sweeps (16)
  MaxLive         \* bound: live orders

VARIABLES
  live,     \* live_, by age of the reference
  systems   \* System messages sent: two before the flow, two after it

genVars == <<live, systems>>

GenInit == live = <<>> /\ systems = 0

-----------------------------------------------------------------------------
BID == "B"
ASK == "S"

Mid(l) == ((BasePrice + (l - 1) * SymSpacing) \div Tick) * Tick

\* Mutant of Distances: a draw may stay at the mid.
DistancesFromZero == 0 .. BandTicks - 1

\* k: how many ticks from the mid an order may rest.
Distances == 1 .. BandTicks

Clamped(p) == IF p < MinPrice THEN MinPrice ELSE IF p > GenMaxPrice THEN GenMaxPrice ELSE p

\* The prices rand_price may draw.
RandPrices(l, side) ==
  {Clamped(IF side = BID THEN Mid(l) - k * Tick ELSE Mid(l) + k * Tick) : k \in Distances}

Live == {live[i] : i \in DOMAIN live}
FreshRefs == GenRefs \ {o.ref : o \in Live}

-----------------------------------------------------------------------------
(* The emitters. *)

Systems == {[type |-> "System"]}

Adds ==
  IF Len(live) = MaxLive THEN {}
  ELSE UNION {[type : {"Add"}, ref : FreshRefs, locate : {l}, side : {s},
               price : RandPrices(l, s), shares : 1 .. MaxShares]
              : l \in Symbols, s \in {BID, ASK}}

\* o is nearer to the touch than b, an order of the same side.
Inside(o, b) == IF o.side = BID THEN o.price > b.price ELSE o.price < b.price

\* The order a sweep of a side takes: the first of the best price, where live
\* has one.
Touch(l, s) ==
  LET side == {i \in DOMAIN live : live[i].locate = l /\ live[i].side = s}
  IN  {live[i] : i \in {j \in side :
         \A k \in side \ {j} : Inside(live[j], live[k]) \/ (~Inside(live[k], live[j]) /\ j < k)}}

ExecutionsOf(o) == [type : {"Exec"}, ref : {o.ref}, shares : 1 .. o.shares]

Sweeps == UNION {ExecutionsOf(o) : o \in UNION {Touch(l, s) : l \in Symbols, s \in {BID, ASK}}}

Executions ==
  UNION {ExecutionsOf(o)
         \cup [type : {"ExecPrice"}, ref : {o.ref}, shares : 1 .. o.shares,
               price : {o.price}, printable : {TRUE}] : o \in Live}

Cancels == UNION {[type : {"Cancel"}, ref : {o.ref}, shares : 1 .. o.shares] : o \in Live}

Deletes == [type : {"Delete"}, ref : {o.ref : o \in Live}]

Replaces ==
  UNION {[type : {"Replace"}, ref : {o.ref}, new_ref : FreshRefs,
          price : RandPrices(o.locate, o.side), shares : 1 .. MaxShares] : o \in Live}

Trades ==
  UNION {[type : {"Trade"}, locate : {l}, price : RandPrices(l, BID) \cup RandPrices(l, ASK),
          shares : 1 .. MaxShares] : l \in Symbols}

\* step: with too few orders it adds one, unless it sweeps.
Steps ==
  Adds \cup Sweeps \cup
  IF Len(live) < Inventory THEN {}
  ELSE Executions \cup Cancels \cup Deletes \cup Replaces \cup Trades

\* What generate may send next: nothing once the stream is complete.
Messages ==
  CASE systems = 2 -> Steps \cup Systems
    [] systems < 4 -> Systems
    [] OTHER       -> {}

-----------------------------------------------------------------------------
OrderOf(r, like, m) ==
  [ref |-> r, locate |-> like.locate, side |-> like.side, price |-> m.price,
   shares |-> m.shares]

\* Mutant of LiveAfterTaking: an order that is used up stays listed.
LiveUntilDeleted(i, n) == [live EXCEPT ![i].shares = @ - n]

\* exec_at and emit_cancel: n shares off the i-th order.
LiveAfterTaking(i, n) ==
  IF live[i].shares = n THEN RemoveAt(live, i) ELSE [live EXCEPT ![i].shares = @ - n]

\* What sending m does to the generator.
Send(m) ==
  LET i == CHOOSE j \in DOMAIN live : live[j].ref = m.ref
  IN  /\ live' = CASE m.type = "Add" -> Append(live, OrderOf(m.ref, m, m))
                   [] m.type \in {"Exec", "ExecPrice", "Cancel"} -> LiveAfterTaking(i, m.shares)
                   [] m.type = "Delete" -> RemoveAt(live, i)
                   [] m.type = "Replace" ->
                        Append(RemoveAt(live, i), OrderOf(m.new_ref, live[i], m))
                   [] OTHER -> live
      /\ systems' = IF m.type = "System" THEN systems + 1 ELSE systems
=============================================================================
