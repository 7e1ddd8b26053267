------------------------------ MODULE RtlTracker ------------------------------
(***************************************************************************)
(* The two best trackers of the hardware book (rtl/best_tracker.sv), one   *)
(* per side, cycle by cycle and in level addresses.  An add may improve    *)
(* the best; the best level emptied starts a scan towards the book's       *)
(* interior, one level per clock, unless the side has no orders left.      *)
(*                                                                         *)
(* A request is the add or empt port of one side with en high, NoRequest   *)
(* when all four are low: the engine raises at most one at a time.         *)
(***************************************************************************)
EXTENDS Integers

CONSTANT PriceLevels   \* PRICE_LEVELS, 2^LEVEL_AW

ASSUME TrackerAssumption == PriceLevels \in Nat \ {0}

VARIABLE best   \* side -> state (scanning), best_valid, best_addr, scan_idx

Sides == {"bid", "ask"}
Addrs == 0 .. PriceLevels - 1

NoRequest == [op |-> "none", side |-> "none", addr |-> 0]
AddAt(side, addr) == [op |-> "add", side |-> side, addr |-> addr]
EmptiedAt(side, addr) == [op |-> "empty", side |-> side, addr |-> addr]

TrackerInit ==
  best = [side \in Sides |->
            [scanning |-> FALSE, valid |-> FALSE, addr |-> 0, idx |-> 0]]

AnyScanning == \E side \in Sides : best[side].scanning

Beats(side, x, y) == IF side = "bid" THEN x > y ELSE x < y

\* The next level towards the interior; addresses have LEVEL_AW bits.
Inward(side, addr) ==
  (IF side = "bid" THEN addr - 1 ELSE addr + 1) % PriceLevels
Boundary(side) == IF side = "bid" THEN 0 ELSE PriceLevels - 1

\* S_IDLE.  A best that is not valid keeps its address, which is then dead.
TrackerIdle(side, req, nonempty) ==
  LET t == best[side]
  IN  IF req.side # side THEN t
      ELSE IF req.op = "add"
      THEN IF ~t.valid \/ Beats(side, req.addr, t.addr)
           THEN [t EXCEPT !.valid = TRUE, !.addr = req.addr] ELSE t
      ELSE IF ~t.valid \/ req.addr # t.addr THEN t
      ELSE IF ~nonempty THEN [t EXCEPT !.valid = FALSE, !.addr = 0]
      ELSE [t EXCEPT !.scanning = TRUE, !.idx = Inward(side, t.addr)]

\* S_SCAN, with the shares the scan port reads.
TrackerScan(side, shares) ==
  LET t == best[side]
      done == [t EXCEPT !.scanning = FALSE, !.idx = 0]
  IN  IF shares # 0 THEN [done EXCEPT !.valid = TRUE, !.addr = t.idx]
      ELSE IF t.idx = Boundary(side)
      THEN [done EXCEPT !.valid = FALSE, !.addr = 0]
      ELSE [t EXCEPT !.idx = Inward(side, @)]

\* A clock edge: sharesAt is what the level memories hold, nonempty says of
\* each side whether an order rests on it.
TrackerClock(req, sharesAt, nonempty) ==
  best' = [side \in Sides |->
             IF best[side].scanning
             THEN TrackerScan(side, sharesAt[side][best[side].idx])
             ELSE TrackerIdle(side, req, nonempty[side])]
=============================================================================
