---------------------------- MODULE OrderManager ----------------------------
(***************************************************************************)
(* The order manager of the paper-trading session (class OrderManager of   *)
(* sw/trade/order_manager.cpp) and the loop that drives it (run_session of *)
(* sw/trade/session.hpp), over the fill simulation and the book.           *)
(*                                                                         *)
(* The session runs in one thread: a message, then what it leads to.  todo *)
(* lists the calls still to be made before the next message, in order, and *)
(* each is a step of its own.  Money, bar indices and price thresholds are *)
(* floating-point numbers and abstracted: the size of an entry is any own  *)
(* quantity, a protective exit may fire at any print while one is          *)
(* configured, and a print may complete any number of bars.                *)
(***************************************************************************)
EXTENDS FillEngine

CONSTANTS
  EntryCross,    \* cfg_.entry_cross
  CrossTicks     \* cfg_.cross_ticks

\* A price CrossTicks above the best ask fits the 32 bits of a price.
ASSUME OmAssumption ==
  /\ EntryCross \in BOOLEAN
  /\ CrossTicks \in Nat /\ MaxPrice + CrossTicks <= MaxU32

VARIABLES
  side_,           \* 1 long, -1 short, 0 flat
  qty_,            \* shares held
  entry_shares_, exit_shares_,   \* of the open round trip
  entry_ref_, entry_dir_,        \* the working entry and its direction
  exit_ref_,       \* the working exit
  protective,      \* a stop, trail or take-profit was configured by the last bar
  logged,          \* fills_log_: shares bought less shares sold
  todo             \* the calls to be made before the next message

positionVars == <<side_, qty_, entry_shares_, exit_shares_>>
workingVars == <<entry_ref_, entry_dir_, exit_ref_>>
omVars == <<fillVars, positionVars, workingVars, protective, logged, todo>>

NoRef == 0
Rest == Tail(todo)
Doing(call) == todo # <<>> /\ Head(todo) = call

\* find: the positions in open_ of an own reference.
Places(ref) == {i \in DOMAIN open : open[i].ref = ref}
Find(ref) == Places(ref) # {}

OmInit ==
  /\ FillInit
  /\ side_ = 0 /\ qty_ = 0 /\ entry_shares_ = 0 /\ exit_shares_ = 0
  /\ entry_ref_ = NoRef /\ entry_dir_ = 0 /\ exit_ref_ = NoRef
  /\ protective = FALSE
  /\ logged = 0
  /\ todo = <<>>

-----------------------------------------------------------------------------
(* Prices. *)

BestOf(side) == BookOf(Locate).best[side]
Below(p) == IF p > CrossTicks THEN p - CrossTicks ELSE 0
Above(p) == IF p # 0 THEN p + CrossTicks ELSE 0

\* exit_price, and entry_price: 0 when there is nothing to price against.
ExitPrice == IF side_ > 0 THEN Below(BestOf(BUY)) ELSE Above(BestOf(SELL))
EntryPrice(dir) ==
  IF EntryCross
  THEN IF dir > 0 THEN Above(BestOf(SELL)) ELSE Below(BestOf(BUY))
  ELSE IF dir > 0 THEN BestOf(BUY) ELSE BestOf(SELL)

SideOf(dir) == IF dir > 0 THEN BUY ELSE SELL

-----------------------------------------------------------------------------
(* Fills. *)

Signed(f) == IF f.side = BUY THEN f.shares ELSE -f.shares

\* Mutant of EntryRefAfter: the entry is forgotten after its first fill.
EntryRefForgotten == NoRef

\* A fully filled entry is no longer working.
EntryRefAfter == IF Find(entry_ref_) THEN entry_ref_ ELSE NoRef

\* The first fill of an entry opens the position.
EntryFill(f) ==
  /\ side_' = IF side_ = 0 THEN entry_dir_ ELSE side_
  /\ qty_' = qty_ + f.shares
  /\ entry_shares_' = entry_shares_ + f.shares
  /\ entry_ref_' = EntryRefAfter
  /\ UNCHANGED <<exit_shares_, entry_dir_, exit_ref_, open>>

\* close_round_trip.
CloseRoundTrip ==
  side_' = 0 /\ qty_' = 0 /\ entry_shares_' = 0 /\ exit_shares_' = 0

\* A fill of the exit: the last one closes the round trip and cancels what is
\* left of the exit.
ExitFill(f) ==
  LET sh == Least(f.shares, qty_)
  IN  /\ IF sh = qty_
         THEN /\ CloseRoundTrip
              /\ exit_ref_' = NoRef
              /\ open' = IF Find(exit_ref_)
                         THEN Without(CHOOSE i \in Places(exit_ref_) : TRUE)
                         ELSE open
         ELSE /\ qty_' = qty_ - sh
              /\ exit_shares_' = exit_shares_ + sh
              /\ exit_ref_' = IF Find(exit_ref_) THEN exit_ref_ ELSE NoRef
              /\ UNCHANGED <<side_, entry_shares_, open>>
      /\ UNCHANGED <<entry_ref_, entry_dir_>>

\* apply_fill: a fill that is neither the entry's nor the exit's is only logged.
ApplyFill(f) ==
  /\ logged' = logged + Signed(f)
  /\ CASE f.ref = entry_ref_ -> EntryFill(f)
       [] f.ref # entry_ref_ /\ f.ref = exit_ref_ -> ExitFill(f)
       [] OTHER -> UNCHANGED <<positionVars, workingVars, open>>

\* poll_fills, one fill at a time.
PollFills ==
  /\ Doing("poll")
  /\ IF fills = <<>>
     THEN todo' = Rest /\ UNCHANGED <<fills, open, positionVars, workingVars, logged>>
     ELSE ApplyFill(Head(fills)) /\ fills' = Tail(fills) /\ UNCHANGED todo
  /\ UNCHANGED <<vars, max_market_ref, next_ref, increasing, protective>>

-----------------------------------------------------------------------------
(* Orders. *)

\* cancel_working_entry.
CancelWorkingEntry ==
  /\ Doing("cancel entry")
  /\ IF Find(entry_ref_)
     THEN Cancel(CHOOSE i \in Places(entry_ref_) : TRUE)
     ELSE UNCHANGED fillVars
  /\ entry_ref_' = NoRef
  /\ todo' = Rest
  /\ UNCHANGED <<positionVars, entry_dir_, exit_ref_, protective, logged>>

\* submit_exit: for the whole position, through the best of the other side.
SubmitExit ==
  /\ Doing("exit")
  /\ IF side_ = 0 \/ qty_ = 0 \/ ExitPrice = 0
     THEN todo' = Rest /\ UNCHANGED <<fillVars, exit_ref_>>
     ELSE /\ SubmitLimit(SideOf(-side_), ExitPrice, qty_)
          /\ exit_ref_' = next_ref
          /\ todo' = <<"poll">> \o Rest
  /\ UNCHANGED <<positionVars, entry_ref_, entry_dir_, protective, logged>>

\* The entry branch of on_bar after a flip, and submit_entry: the size is
\* floor(equity * size / price), which may be 0.
SubmitEntry(dir, shares) ==
  /\ Doing(IF dir > 0 THEN "buy" ELSE "sell")
  /\ IF entry_ref_ # NoRef
     THEN todo' = Rest /\ UNCHANGED <<fillVars, entry_ref_, entry_dir_>>
     ELSE /\ entry_dir_' = dir
          /\ IF EntryPrice(dir) = 0 \/ shares = 0
             THEN todo' = Rest /\ UNCHANGED <<fillVars, entry_ref_>>
             ELSE /\ SubmitLimit(SideOf(dir), EntryPrice(dir), shares)
                  /\ entry_ref_' = next_ref
                  /\ todo' = <<"poll", "settle">> \o Rest
  /\ UNCHANGED <<positionVars, exit_ref_, protective, logged>>

\* An entry that was filled on submission is no longer working.
SettleEntry ==
  /\ Doing("settle")
  /\ entry_ref_' = IF Find(entry_ref_) THEN entry_ref_ ELSE NoRef
  /\ todo' = Rest
  /\ UNCHANGED <<fillVars, positionVars, entry_dir_, exit_ref_, protective, logged>>

\* The end of on_bar: a passive entry that is no longer at the touch is
\* cancelled and submitted again for what remains of it.
Repeg ==
  /\ Doing("repeg")
  /\ LET best == EntryPrice(entry_dir_)
         moved == {i \in Places(entry_ref_) : best # 0 /\ best # open[i].price}
     IN  IF EntryCross \/ entry_ref_ = NoRef \/ (Find(entry_ref_) /\ moved = {})
         THEN todo' = Rest /\ UNCHANGED <<fillVars, entry_ref_>>
         ELSE IF moved = {}
         THEN entry_ref_' = NoRef /\ todo' = Rest /\ UNCHANGED fillVars
         ELSE /\ \E i \in moved :
                   SubmitTo(Without(i), SideOf(entry_dir_), best, open[i].remaining)
              /\ UNCHANGED vars
              /\ entry_ref_' = next_ref
              /\ todo' = <<"poll", "settle">> \o Rest
  /\ UNCHANGED <<positionVars, entry_dir_, exit_ref_, protective, logged>>

-----------------------------------------------------------------------------
(* The loop of the session. *)

\* One message; fills are polled after it, and a print of the traded stock is
\* looked at by the manager and by the bar clock.
OnMessage ==
  /\ todo = <<>>
  /\ FeedMessage
  /\ todo' = <<"poll">> \o (IF exec'.contributes /\ exec'.locate = Locate
                            THEN <<"print", "bars">> ELSE <<>>)
  /\ UNCHANGED <<positionVars, workingVars, protective, logged>>

\* Mutant of FiringExit: the working entry is left in place.
FiringExitOnly == <<"exit">>

\* What a protective exit does.
FiringExit == <<"cancel entry", "exit">>

\* on_trade_print: nothing while flat or already leaving.
OnTradePrint(fires) ==
  /\ Doing("print")
  /\ todo' = IF fires /\ protective /\ side_ # 0 /\ exit_ref_ = NoRef
             THEN FiringExit \o Rest ELSE Rest
  /\ UNCHANGED <<fillVars, positionVars, workingVars, protective, logged>>

\* Mutant of Arbitration: an exit does not look for one that is working.
ArbitrationExitsAgain(el, es, xl, xs) ==
  IF (side_ > 0 /\ xl) \/ (side_ < 0 /\ xs) THEN <<"cancel entry", "exit">>
  ELSE IF side_ # 0 \/ exit_ref_ # NoRef \/ el = es THEN <<>>
  ELSE (IF (el /\ entry_dir_ < 0) \/ (es /\ entry_dir_ > 0)
        THEN <<"cancel entry">> ELSE <<>>)
       \o (IF el THEN <<"buy">> ELSE <<"sell">>)

\* The calls the signals of a bar lead to: an exit signal closes, an entry
\* signal acts when flat, conflicting entry signals cancel out.
Arbitration(el, es, xl, xs) ==
  IF (side_ > 0 /\ xl) \/ (side_ < 0 /\ xs)
  THEN <<"cancel entry">> \o (IF exit_ref_ = NoRef THEN <<"exit">> ELSE <<>>)
  ELSE IF side_ # 0 \/ exit_ref_ # NoRef \/ el = es THEN <<>>
  ELSE (IF (el /\ entry_dir_ < 0) \/ (es /\ entry_dir_ > 0)
        THEN <<"cancel entry">> ELSE <<>>)
       \o (IF el THEN <<"buy">> ELSE <<"sell">>)

\* on_bar for one completed bar, and the end of the loop over them.
OnBar(el, es, xl, xs) ==
  /\ Doing("bars")
  /\ protective' \in BOOLEAN
  /\ todo' = Arbitration(el, es, xl, xs) \o <<"repeg">> \o todo
  /\ UNCHANGED <<fillVars, positionVars, workingVars, logged>>

BarsDone ==
  /\ Doing("bars")
  /\ todo' = Rest
  /\ UNCHANGED <<fillVars, positionVars, workingVars, protective, logged>>

\* Mutant of EndCalls: the last bar comes after finish.
FinishFirst == <<"cancel entry", "cancel exit", "close", "bars", "end">>

\* The end of the stream: the bar in progress, then finish.
EndCalls == <<"bars", "cancel entry", "cancel exit", "close", "end">>

EndOfStream ==
  /\ todo = <<>>
  /\ todo' = EndCalls
  /\ UNCHANGED <<fillVars, positionVars, workingVars, protective, logged>>

CancelExit ==
  /\ Doing("cancel exit")
  /\ IF Find(exit_ref_)
     THEN /\ Cancel(CHOOSE i \in Places(exit_ref_) : TRUE)
          /\ exit_ref_' = NoRef
     ELSE UNCHANGED <<fillVars, exit_ref_>>
  /\ todo' = Rest
  /\ UNCHANGED <<positionVars, entry_ref_, entry_dir_, protective, logged>>

\* What is still held is sold or bought back at the last print.
ForceClose ==
  /\ Doing("close")
  /\ IF side_ # 0 /\ qty_ > 0
     THEN CloseRoundTrip /\ logged' = logged - side_ * qty_
     ELSE UNCHANGED <<positionVars, logged>>
  /\ todo' = Rest
  /\ UNCHANGED <<fillVars, workingVars, protective>>

Ended == Doing("end") /\ UNCHANGED omVars

OmNext ==
  \/ OnMessage
  \/ PollFills
  \/ \E fires \in BOOLEAN : OnTradePrint(fires)
  \/ CancelWorkingEntry
  \/ SubmitExit
  \/ \E dir \in {-1, 1}, shares \in OwnQtys \cup {0} : SubmitEntry(dir, shares)
  \/ SettleEntry
  \/ Repeg
  \/ \E el, es, xl, xs \in BOOLEAN : OnBar(el, es, xl, xs)
  \/ BarsDone
  \/ EndOfStream
  \/ CancelExit
  \/ ForceClose
  \/ Ended

OmSpec == OmInit /\ [][OmNext]_omVars

-----------------------------------------------------------------------------
(* Properties. *)

\* Between two messages, and at the end.
Settled == todo \in {<<>>, <<"end">>}

\* The position is what the logged fills add up to: no fill the simulation
\* reports is left out of the books, and none counted twice.
PositionIsLogged == Settled => side_ * qty_ = logged

\* At most one own order works at a time and the manager knows it: no ghost
\* entry is left behind, and neither reference outlives its order.
WorkingOrdersKnown ==
  Settled =>
    /\ Len(open) <= 1
    /\ {open[i].ref : i \in DOMAIN open} = {entry_ref_, exit_ref_} \ {NoRef}

\* When a round trip closes nothing is left working: no ghost entry buys or
\* sells again after the exit.
CloseLeavesNothingWorking ==
  [][side_ # 0 /\ side_' = 0 => open' = <<>> /\ entry_ref_' = NoRef]_omVars

\* A round trip ends when as many shares left as had entered ("exit_shares_ ==
\* entry_shares_ here", close_round_trip), nothing is held while flat, and after
\* the end of the stream nothing is held and nothing works.
RoundTripBalances ==
  /\ qty_ = entry_shares_ - exit_shares_
  /\ side_ = 0 <=> qty_ = 0
  /\ Doing("end") => side_ = 0 /\ open = <<>>
=============================================================================
