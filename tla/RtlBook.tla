------------------------------- MODULE RtlBook -------------------------------
(***************************************************************************)
(* The hardware book next to its oracle: the engine with the statistics    *)
(* behind it (VWAP sums of rtl/stats_engine.sv, msg_total of               *)
(* rtl/perf_counters.sv), compared with RefBook whenever msg_total counts  *)
(* a message, as RtlDriver::drive lets the benches do.  The decoder may    *)
(* present the next message as soon as the engine is in S_IDLE, also in    *)
(* the cycle in which engine_done of the one before is high.               *)
(***************************************************************************)
EXTENDS RtlEngine, Sequences, FiniteSets, FiniteSetsExt

CONSTANTS
  Prices,      \* prices of messages
  AddQtys,     \* shares of an Add or a Replace
  TakeQtys,    \* shares of an Execute or a Cancel
  CfgBases     \* bases a host may pin the band to

ASSUME BookAssumption ==
  /\ IsFiniteSet(Refs)
  /\ Prices \subseteq 0 .. PriceMod - 1 /\ CfgBases \subseteq 0 .. PriceMod - 1
  /\ AddQtys \subseteq 0 .. SharesMod - 1 /\ AddQtys # {}
  /\ TakeQtys \subseteq 0 .. SharesMod - 1 /\ TakeQtys # {}

VARIABLES
  tv,       \* tv_q, with prod_q and sh_q as the trade they come from
  since,    \* trades added to the sums since a message was counted
  counted,  \* msg_total has just counted a message; the oracle's trades for it
  ref,      \* the oracle's book, Diverged when the stream is outside its model
  before    \* the orders in the table when the message under way was taken

bookVars == <<engineVars, tv, since, counted, ref, before>>

Ref == INSTANCE RtlOracle

Diverged == [diverged |-> TRUE]
NoOrders == [r \in {} |-> NoOrder]

Msgs ==
  [type : {"add"}, ref : Refs, side : Sides, price : Prices, shares : AddQtys]
  \cup [type : {"exec", "cancel"}, ref : Refs, shares : TakeQtys]
  \cup [type : {"exec_pr"}, ref : Refs, price : {Max(Prices)}, shares : {Min(TakeQtys)},
        printable : BOOLEAN]
  \cup [type : {"delete"}, ref : Refs]
  \cup [type : {"replace"}, ref : Refs, nref : Refs, price : Prices,
        shares : {Min(AddQtys)}]
  \cup [type : {"trade"}, price : {Min(Prices)}, shares : {1}]
  \cup {[type |-> "system"]}

\* The orders the reference table holds.
LiveRefs == {r \in Refs : Orders(r) # {}}
LiveOrders == [r \in LiveRefs |-> mem[CHOOSE i \in Orders(r) : TRUE].order]

BookInit ==
  /\ EngineInit
  /\ tv = NoTrade
  /\ since = <<>>
  /\ counted = [now |-> FALSE, trades |-> <<>>]
  /\ ref = Ref!EmptyRef
  /\ before = NoOrders

-----------------------------------------------------------------------------
\* stats_engine: the product register first, then the sums.
StatsClock ==
  /\ tv' = pulse.trade
  /\ since' = (IF counted.now THEN <<>> ELSE since) \o
              (IF tv = NoTrade THEN <<>> ELSE <<tv>>)

\* What RefBook has no notion of: references used twice, the band, a full table.
Modelled(m) ==
  LET fresh(r) == r \notin DOMAIN ref.orders
  IN  /\ m.type = "add" => fresh(m.ref) /\ InWindow(band.base, m.price)
      /\ m.type = "replace" /\ ~fresh(m.ref) =>
           /\ fresh(m.nref) \/ m.nref = m.ref
           /\ InWindow(band.base, m.price)
      /\ ~resp.fails

\* perf_counters counts the message; the bench gives it to the oracle.
CountClock ==
  LET m == pulse.done
      follows == m # NoMsg /\ ref # Diverged /\ Modelled(m)
  IN  /\ counted' = [now |-> m # NoMsg,
                     trades |-> IF follows THEN Ref!RefTrades(ref, m) ELSE <<>>]
      /\ ref' = IF m = NoMsg THEN ref
                ELSE IF follows THEN Ref!RefApply(ref, m) ELSE Diverged

Idle == eng.state = "idle"

\* A cycle in which the decoder presents m, or nothing.  Bound: no message after a
\* failed insertion, "tbl_ins_fails signals that resync is needed".
Cycle(m) ==
  /\ m # NoMsg => Idle /\ ~resp.fails
  /\ EngineClock(m)
  /\ StatsClock /\ CountClock
  /\ before' = IF m # NoMsg THEN LiveOrders
               ELSE IF Idle THEN NoOrders ELSE before

\* "before streaming traffic"
Configure(base) ==
  /\ Idle /\ pulse = NoPulse /\ ~band.valid
  /\ ref = Ref!EmptyRef
  /\ BandConfig(base)
  /\ StatsClock /\ CountClock
  /\ before' = NoOrders

Ticks == \E m \in Msgs \cup {NoMsg} : Cycle(m)

BookNext == Ticks \/ \E base \in CfgBases : Configure(base)

\* The clock runs.
BookSpec == BookInit /\ [][BookNext]_bookVars /\ WF_bookVars(Ticks)

-----------------------------------------------------------------------------
(* Properties. *)

\* Every register holds a value of its width and every memory an entry.
RtlTypeOK ==
  /\ \A i \in Slots : mem[i] \in {Empty, Tomb} \/ mem[i].ref \in Refs
  /\ probe.idx \in Slots /\ probe.n \in 0 .. MaxProbe
  /\ probe.tomb \in Slots \cup {NoTomb}
  /\ resp.done \in BOOLEAN /\ resp.found \in BOOLEAN /\ resp.fails \in BOOLEAN
  /\ \A side \in Sides :
       /\ best[side].addr \in Addrs /\ best[side].idx \in Addrs
       /\ \A x \in Addrs : depth[side].level[x].shares \in 0 .. SharesMod - 1
  /\ eng.addr \in Addrs /\ eng.rem \in Nat
  /\ band.valid \in BOOLEAN /\ band.base \in 0 .. PriceMod - 1

\* "Never create depth that has no corresponding reference-table entry", nor lose
\* any: between messages the levels, the counts and the volumes of a side are those
\* of the orders in the reference table, whatever adds, partial and full removals,
\* replaces and drops came before, as long as no insertion has found its probe
\* window full (a failed one leaves res_found as it was and depth may be added).
LevelsMatchTable ==
  Idle /\ ~resp.fails =>
    \A side \in Sides :
      LET at(x) == {r \in LiveRefs : LiveOrders[r].side = side
                                     /\ LevelAddr(LiveOrders[r].price) = x}
          shares(rs) == MapThenSumSet(LAMBDA r : LiveOrders[r].shares, rs)
          all == UNION {at(x) : x \in Addrs}
      IN  /\ \A x \in Addrs :
               depth[side].level[x] = [shares |-> shares(at(x)),
                                       count |-> Cardinality(at(x))]
          /\ depth[side].cnt = Cardinality(all)
          /\ depth[side].tot = shares(all)

\* Between messages no scan is under way and each tracker has the extreme level of
\* its side, whatever the order of adds, emptied levels and scans was.
BestIsExtreme ==
  Idle =>
    \A side \in Sides :
      LET full == {x \in Addrs : depth[side].level[x].shares # 0}
      IN  /\ ~best[side].scanning
          /\ best[side].valid <=> full # {}
          /\ best[side].valid =>
               /\ best[side].addr \in full
               /\ \A x \in full : ~Beats(side, x, best[side].addr)

\* The memories are consistent between messages: table, levels and best prices.
BookConsistent == RtlTypeOK /\ TableIsMap /\ LevelsMatchTable /\ BestIsExtreme

\* What a message makes of the orders: an Add in the band of a new reference is
\* added, a Replace takes the old order off and adds the new one where an Add would
\* be taken, and all else takes shares off an order that is there.
Outcome(os, m) ==
  LET adds(held, r, side) ==
        IF r \in DOMAIN held \/ ~InWindow(band.base, m.price) THEN held
        ELSE Ref!Put(held, r, Order(side, m.price, m.shares))
      left == IF m.type \in {"delete", "replace"} \/ os[m.ref].shares <= m.shares
              THEN Ref!Drop(os, m.ref)
              ELSE [os EXCEPT ![m.ref].shares = @ - m.shares]
  IN  CASE m.type = "add" -> adds(os, m.ref, m.side)
        [] m.type \in {"trade", "system"} -> os
        [] OTHER -> IF m.ref \notin DOMAIN os THEN os
                    ELSE IF m.type = "replace"
                    THEN adds(left, m.nref, os[m.ref].side)
                    ELSE left

\* When engine_done is high the orders are what the message makes of those there
\* were when it was taken: dropped whole outside the band, a Replace outside it or
\* to a live reference cancel-only, nothing left over from the message before.
MessagesAreWhole ==
  pulse.done # NoMsg /\ ~resp.fails => LiveOrders = Outcome(before, pulse.done)

\* When msg_total counts a message the outputs are the oracle's: best prices and
\* sizes, levels, volumes, and the trades in the VWAP sums, although the next
\* message may be in the engine already and the sums lag trade_valid by a register.
CommitAgrees ==
  counted.now /\ ref # Diverged =>
    /\ since = counted.trades
    /\ \A side \in Sides :
         LET d == depth[side]
             t == best[side]
         IN  /\ d.tot = ref.tot[side]
             /\ t.valid <=> DOMAIN ref.level[side] # {}
             /\ t.valid => band.base + t.addr = Ref!RefBest(ref, side)
             /\ \A p \in band.base .. band.base + PriceLevels - 1 :
                  d.level[LevelAddr(p)] = Ref!LevelOf(ref, side, p)

\* The engine never waits for a table answer or a scan that does not come.
EveryMessageCommits == []<>Idle
=============================================================================
