------------------------------ MODULE RtlEngine ------------------------------
(***************************************************************************)
(* The book update engine of the hardware (rtl/book_update_engine.sv),     *)
(* cycle by cycle, with the reference table and the two best trackers it   *)
(* drives.  A message is latched in S_IDLE and taken through the FSM; the  *)
(* pulses the engine raises towards the table, the trackers and the        *)
(* statistics are registers, seen by their readers one clock later.        *)
(*                                                                         *)
(* Level addresses are prices less the band's base modulo 2^LEVEL_AW.      *)
(* Registers of the message are dead in S_IDLE and then have one value.    *)
(***************************************************************************)
EXTENDS RtlRefTable, RtlTracker

CONSTANTS
  SharesMod,    \* 2^SHARES_W
  PriceMod,     \* 2^PRICE_W
  AutoInit      \* BAND_AUTO_INIT: the first Add centres the band

ASSUME EngineAssumption ==
  /\ SharesMod \in Nat \ {0} /\ PriceMod \in Nat
  /\ PriceLevels <= PriceMod
  /\ AutoInit \in BOOLEAN

VARIABLES
  eng,      \* the FSM's state and the registers of the message
  pulse,    \* trade_, tbl_cmd_ and bt_ registers; engine_done as the message done
  depth,    \* per side: the level memories, cnt_ and tot_
  band      \* band_valid, band_base

engineVars == <<tableVars, best, eng, pulse, depth, band>>

NoMsg == [type |-> "none"]
NoTrade == <<>>

IdleEng ==
  [state |-> "idle", msg |-> NoMsg, rest |-> NoOrder, rem |-> 0,
   emptied |-> FALSE, addr |-> 0, req |-> FALSE, expect |-> FALSE,
   seen |-> FALSE]
NoPulse == [trade |-> NoTrade, cmd |-> NoCmd, bt |-> NoRequest, done |-> NoMsg]

NoLevel == [shares |-> 0, count |-> 0]
NoDepth == [level |-> [x \in Addrs |-> NoLevel], cnt |-> 0, tot |-> 0]

EngineInit ==
  /\ TableInit /\ TrackerInit
  /\ eng = IdleEng
  /\ pulse = NoPulse
  /\ depth = [side \in Sides |-> NoDepth]
  /\ band = [valid |-> FALSE, base |-> 0]

-----------------------------------------------------------------------------
(* The band: level addresses and what is inside the window. *)

\* A price below the base wraps to a huge offset: one compare for both ends.
InWindow(base, price) == (price - base) % PriceMod < PriceLevels

BandHalf == PriceLevels \div 2
BaseEff(price) ==
  IF band.valid \/ ~AutoInit THEN band.base
  ELSE IF price > BandHalf THEN price - BandHalf ELSE 0

LevelAddr(price) == (price - band.base) % PriceLevels

-----------------------------------------------------------------------------
(* The two updates of the level memories. *)

Order(side, price, shares) == [side |-> side, price |-> price, shares |-> shares]

AddTo(side, addr, shares) ==
  depth' = [depth EXCEPT
              ![side].level[addr] = [shares |-> (@.shares + shares) % SharesMod,
                                     count |-> @.count + 1],
              ![side].cnt = @ + 1,
              ![side].tot = @ + shares]

TakeFrom(side, addr, amt, gone) ==
  depth' = [depth EXCEPT
              ![side].level[addr] =
                 [shares |-> (@.shares - amt) % SharesMod,
                  count |-> IF gone THEN @.count - 1 ELSE @.count],
              ![side].cnt = IF gone THEN @ - 1 ELSE @,
              ![side].tot = @ - amt]

-----------------------------------------------------------------------------
(* The FSM, one action per state. *)

Quietly == pulse' = NoPulse
KeepsBook == UNCHANGED <<depth, band>>
Goes(state) == eng' = [eng EXCEPT !.state = state]

\* No message: what a cycle of S_IDLE without dec_valid does.
Rest ==
  /\ eng.state = "idle"
  /\ eng' = IdleEng
  /\ Quietly /\ KeepsBook

\* S_IDLE with dec_valid, an Add: an out-of-band one is dropped whole.
TakeAdd(m) ==
  LET base == BaseEff(m.price)
      in == InWindow(base, m.price)
  IN  /\ eng.state = "idle" /\ m.type = "add"
      /\ eng' = [IdleEng EXCEPT !.msg = m, !.state = IF in THEN "add_tbl"
                                                     ELSE "finish"]
      /\ band' = IF in THEN [valid |-> TRUE, base |-> base] ELSE band
      /\ Quietly /\ UNCHANGED depth

\* Execute, Execute-with-price, Cancel, Delete and Replace.
TakeModify(m) ==
  /\ eng.state = "idle"
  /\ m.type \in {"exec", "exec_pr", "cancel", "delete", "replace"}
  /\ eng' = [IdleEng EXCEPT !.msg = m, !.state = "lk"]
  /\ Quietly /\ KeepsBook

\* Trade is passed on to the statistics; System and the like do nothing.
TakeOther(m) ==
  /\ eng.state = "idle" /\ m.type \in {"trade", "system"}
  /\ eng' = [IdleEng EXCEPT !.msg = m, !.state = "finish"]
  /\ pulse' = IF m.type = "trade"
              THEN [NoPulse EXCEPT !.trade = <<m.price, m.shares>>] ELSE NoPulse
  /\ KeepsBook

\* The states that hold one table request open: the command is raised once, then
\* the answer is waited for; answered is the register update it brings.
Requests(state, cmd, answered) ==
  /\ eng.state = state
  /\ eng' = IF ~eng.req THEN [eng EXCEPT !.req = TRUE]
            ELSE IF resp.done THEN [answered EXCEPT !.req = FALSE]
            ELSE eng
  /\ pulse' = IF eng.req THEN NoPulse ELSE [NoPulse EXCEPT !.cmd = cmd]
  /\ KeepsBook

\* Mutant of AddTbl: the table's answer is not looked at.
AddTblUnchecked ==
  LET m == eng.msg
  IN  Requests("add_tbl", Insert(m.ref, Order(m.side, m.price, m.shares), TRUE),
               [eng EXCEPT !.state = "add_lvl", !.addr = LevelAddr(m.price)])

AddTbl ==
  LET m == eng.msg
  IN  Requests("add_tbl", Insert(m.ref, Order(m.side, m.price, m.shares), TRUE),
               IF resp.found
               THEN [eng EXCEPT !.state = "add_lvl", !.addr = LevelAddr(m.price)]
               ELSE [eng EXCEPT !.state = "finish"])

AddLvl ==
  /\ eng.state = "add_lvl"
  /\ AddTo(eng.msg.side, eng.addr, eng.msg.shares)
  /\ pulse' = [NoPulse EXCEPT !.bt = AddAt(eng.msg.side, eng.addr)]
  /\ Goes("finish") /\ UNCHANGED band

Lk ==
  Requests("lk", Lookup(eng.msg.ref),
           IF ~resp.found THEN [eng EXCEPT !.state = "finish"]
           ELSE [eng EXCEPT !.state = "mod_lvl", !.rest = resp.order,
                            !.addr = LevelAddr(resp.order.price)])

\* What the message takes off the resting order.
Amount ==
  IF eng.msg.type \in {"delete", "replace"} \/ eng.rest.shares < eng.msg.shares
  THEN eng.rest.shares ELSE eng.msg.shares

\* Mutant of TradeOf: Execute trades at no more than it asks for.
TradeOfAsked ==
  CASE eng.msg.type = "exec" -> <<eng.rest.price, eng.msg.shares>>
    [] eng.msg.type = "exec_pr" /\ eng.msg.printable -> <<eng.msg.price, Amount>>
    [] OTHER -> NoTrade

\* Execute trades at the resting price, Execute-with-price at its own if printable.
TradeOf ==
  CASE eng.msg.type = "exec" -> <<eng.rest.price, Amount>>
    [] eng.msg.type = "exec_pr" /\ eng.msg.printable -> <<eng.msg.price, Amount>>
    [] OTHER -> NoTrade

ModLvl ==
  LET side == eng.rest.side
      rem == eng.rest.shares - Amount
      left == (depth[side].level[eng.addr].shares - Amount) % SharesMod
  IN  /\ eng.state = "mod_lvl"
      /\ TakeFrom(side, eng.addr, Amount, rem = 0)
      /\ eng' = [eng EXCEPT !.state = "mod_tbl", !.rem = rem, !.emptied = left = 0]
      /\ pulse' = [NoPulse EXCEPT !.trade = TradeOf]
      /\ UNCHANGED band

\* The remaining shares overwrite the entry in place, or the entry is deleted.
ModTbl ==
  Requests("mod_tbl",
           IF eng.rem = 0 THEN Delete(eng.msg.ref)
           ELSE Insert(eng.msg.ref, [eng.rest EXCEPT !.shares = eng.rem], FALSE),
           [eng EXCEPT !.state = "empty"])

\* Mutant of ExpectsScan: a side that has become empty is expected to scan too.
ExpectsScanAlways ==
  eng.emptied /\ best[eng.rest.side].valid /\ eng.addr = best[eng.rest.side].addr

\* The emptied level was the best, and there is something left to scan for.
ExpectsScan ==
  LET side == eng.rest.side
  IN  /\ eng.emptied /\ best[side].valid /\ eng.addr = best[side].addr
      /\ depth[side].cnt # 0

TellEmpty ==
  /\ eng.state = "empty"
  /\ pulse' = IF eng.emptied
              THEN [NoPulse EXCEPT !.bt = EmptiedAt(eng.rest.side, eng.addr)]
              ELSE NoPulse
  /\ eng' = [eng EXCEPT !.state = "empty_wait", !.expect = ExpectsScan,
                        !.seen = FALSE]
  /\ KeepsBook

ScanOver == ~eng.expect \/ (eng.seen /\ ~AnyScanning)

\* Mutant of ReAdds: the band is not looked at again.
ReAddsAnywhere == eng.msg.type = "replace"

ReAdds == eng.msg.type = "replace" /\ InWindow(band.base, eng.msg.price)

EmptyWait ==
  /\ eng.state = "empty_wait"
  /\ eng' = IF ~ScanOver THEN [eng EXCEPT !.seen = @ \/ AnyScanning]
            ELSE [eng EXCEPT !.state = IF ReAdds THEN "radd_tbl" ELSE "finish"]
  /\ Quietly /\ KeepsBook

RaddTbl ==
  LET m == eng.msg
  IN  Requests("radd_tbl",
               Insert(m.nref, Order(eng.rest.side, m.price, m.shares), TRUE),
               IF resp.found
               THEN [eng EXCEPT !.state = "radd_lvl", !.addr = LevelAddr(m.price)]
               ELSE [eng EXCEPT !.state = "finish"])

RaddLvl ==
  /\ eng.state = "radd_lvl"
  /\ AddTo(eng.rest.side, eng.addr, eng.msg.shares)
  /\ pulse' = [NoPulse EXCEPT !.bt = AddAt(eng.rest.side, eng.addr)]
  /\ Goes("finish") /\ UNCHANGED band

Finish ==
  /\ eng.state = "finish"
  /\ pulse' = [NoPulse EXCEPT !.done = eng.msg]
  /\ eng' = IdleEng
  /\ KeepsBook

\* A message under way moves on, whatever the decoder presents.
Works ==
  \/ AddTbl \/ AddLvl
  \/ Lk \/ ModLvl \/ ModTbl
  \/ TellEmpty \/ EmptyWait
  \/ RaddTbl \/ RaddLvl
  \/ Finish

Takes(m) == TakeAdd(m) \/ TakeModify(m) \/ TakeOther(m)

-----------------------------------------------------------------------------
(* A clock edge: the table and the trackers see the pulses of this cycle. *)

Beneath ==
  /\ TableClock(pulse.cmd)
  /\ TrackerClock(pulse.bt,
                  [side \in Sides |->
                     [x \in Addrs |-> depth[side].level[x].shares]],
                  [side \in Sides |-> depth[side].cnt # 0])

EngineClock(m) ==
  /\ IF m = NoMsg THEN Rest \/ Works ELSE Takes(m)
  /\ Beneath

\* band_cfg_valid holds the engine for its cycle.
BandConfig(base) ==
  /\ band' = [valid |-> TRUE, base |-> base]
  /\ UNCHANGED <<eng, pulse, depth>>
  /\ Beneath
=============================================================================
