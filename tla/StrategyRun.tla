----------------------------- MODULE StrategyRun -----------------------------
(***************************************************************************)
(* From the messages of one stock to strategy signals: the loop of         *)
(* run_session (sw/trade/session.hpp) with its bar clock and its virtual   *)
(* machine, and beside it the statistics that the replay driver            *)
(* (sw/main.cpp:203) feeds with the same messages.  What the book makes of *)
(* a message is its ExecResult; the order manager behind the signals is a  *)
(* module of its own and only gives each bar some context here.            *)
(***************************************************************************)
EXTENDS StrategyVM, StatsEngine, FiniteSetsExt

CONSTANTS
  Cases,        \* what is run: a program file, and what the feed may bring
  Contexts,     \* what the order manager may tell the program
  Twins         \* programs that store a window in local 0 and its RAW form in 1

VARIABLES
  case,         \* the case of this behaviour
  phase,        \* "load", "stream", "flushed" or "over"
  next_bar,     \* next_bar
  tape          \* history: the messages so far, with their ExecResults

runVars == <<case, phase, next_bar, tape, prog, vm, barVars, statsVars>>

RunInit ==
  /\ case \in Cases
  /\ prog = case.prog
  /\ phase = "load" /\ next_bar = 0 /\ tape = <<>>
  /\ VmInit /\ BarInit /\ StatsInit

\* Program::load throws, or the session begins.
Load ==
  /\ phase = "load"
  /\ phase' = IF Accepted(prog) THEN "stream" ELSE "over"
  /\ UNCHANGED <<case, next_bar, tape, prog, vm, barVars, statsVars>>

\* process_bars is done and the next message may come.
Idle == vm.pc = 0 /\ next_bar = Len(bars)

\* A message with event time ts that is no trade print, or one.
Message ==
  /\ phase = "stream" /\ Idle /\ Len(tape) < case.messages
  /\ \E ts \in case.times, ex \in case.prints :
       /\ tape' = Append(tape, [ts |-> ts, ex |-> ex])
       /\ OnMessage(ts, ex)
       /\ IF ex.contributes THEN OnTrade(ts, ex.price, ex.shares) ELSE UNCHANGED barVars
  /\ UNCHANGED <<case, phase, next_bar, prog, vm>>

\* One turn of process_bars: the machine steps bar next_bar.
StepBar ==
  /\ next_bar < Len(bars)
  /\ \E ctx \in Contexts : Begin(next_bar, ctx)
  /\ UNCHANGED <<case, phase, next_bar, tape, prog, barVars, statsVars>>

Instruction ==
  /\ Execute
  /\ UNCHANGED <<case, phase, next_bar, tape, statsVars>>

NextBar == next_bar + 1

StepEnds ==
  /\ Halt
  /\ next_bar' = NextBar
  /\ UNCHANGED <<case, phase, tape, prog, barVars, statsVars>>

\* The stream ends, after any message.
Flush ==
  /\ phase = "stream" /\ Idle
  /\ FlushBar
  /\ phase' = "flushed"
  /\ UNCHANGED <<case, next_bar, tape, prog, vm, statsVars>>

Finish ==
  /\ phase = "flushed" /\ Idle
  /\ phase' = "over"
  /\ UNCHANGED <<case, next_bar, tape, prog, vm, barVars, statsVars>>

RunNext ==
  \/ Load \/ Message \/ StepBar \/ Instruction \/ StepEnds \/ Flush \/ Finish

RunSpec == RunInit /\ [][RunNext]_runVars

-----------------------------------------------------------------------------
(* What the tape says. *)

Prints == {i \in DOMAIN tape : tape[i].ex.contributes}
RawBucket(i) == tape[i].ts \div BarNs

\* A late print belongs to the latest bucket so far.
BucketOf(i) == Max({RawBucket(j) : j \in {k \in Prints : k <= i}})
FirstBucket == BucketOf(Min(Prints))
LastBucket == BucketOf(Max(Prints))

\* The bar of bucket b by definition; an empty bucket repeats the last price.
BarOf(b) ==
  LET In == {i \in Prints : BucketOf(i) = b}
      Price(i) == tape[i].ex.price
      Before == {i \in Prints : BucketOf(i) < b}
  IN  IF In = {} THEN Flat(Price(Max(Before)))
      ELSE Ohlcv(Price(Min(In)), Max({Price(i) : i \in In}), Min({Price(i) : i \in In}),
                 Price(Max(In)), MapThenSumSet(LAMBDA i : tape[i].ex.shares, In))

BarsOf(last) == [k \in 1 .. last - FirstBucket + 1 |-> BarOf(FirstBucket + k - 1)]

Timed == {i \in DOMAIN tape : tape[i].ts # 0}
InOrder == \A i, j \in Timed : i < j => tape[i].ts <= tape[j].ts

-----------------------------------------------------------------------------
(* Properties. *)

\* The phases, the machine's registers and the counters stay what they are.
RunTypeOK ==
  /\ phase \in {"load", "stream", "flushed", "over"}
  /\ next_bar \in 0 .. Len(bars)
  /\ vm.pc \in 0 .. Len(prog.code) /\ vm.t \in 0 .. next_bar
  /\ vm.pc # 0 => vm.t = next_bar /\ vm.t < Len(bars)
  /\ DOMAIN vm.state = 0 .. prog.state_floats - 1
  /\ stats.total = Len(tape) /\ Len(window) <= stats.total

\* Completed bars are contiguous in time and are those of the prints, whatever the
\* gaps between them and however late some are; at the end of the stream the bar in
\* progress is among them.
BarsMatchPrints ==
  IF Prints = {} THEN bars = <<>> /\ ~cur.open
  ELSE /\ bars = BarsOf(IF phase \in {"flushed", "over"} THEN LastBucket ELSE LastBucket - 1)
       /\ cur.bar = BarOf(LastBucket)

\* rolling_msg_rate counts the messages of the trailing second of event time, as long
\* as event time does not go back.
WindowIsLastSecond ==
  InOrder =>
    Len(window) = Cardinality({i \in Timed : tape[i].ts > stats.last - OneSecNs})

\* No share is lost or counted twice on the way into the bars: the volume of all bars
\* is the denominator of the VWAP.
VolumeIsConserved ==
  LET Sum == FoldSeq(LAMBDA b, acc : b.v + acc, 0, bars)
  IN  Sum + (IF cur.open THEN cur.bar.v ELSE 0) = stats.den

\* The session's state: phases and registers as declared, and bars that are those of
\* the prints, with every share of them.
BarsInv == RunTypeOK /\ BarsMatchPrints /\ VolumeIsConserved

\* An accepted program has all its operands when an instruction runs: no pop of an
\* empty stack, no use of a float outside its slot, a slot that no other instruction
\* uses has seen every earlier bar, and the stack is as deep as the loader computed,
\* if no flag has two sinks.
AcceptedIsSafe ==
  LET Uses(op) == {i \in DOMAIN prog.code : prog.code[i].op = op}
      Users == {i \in DOMAIN prog.code : prog.code[i].op \in Stateful
                                            /\ prog.code[i].arg = Ins.arg}
  IN  vm.pc # 0 =>
        /\ Len(vm.stack) >= RequiredStack(Ins.op)
        /\ Ins.op \in Stateful =>
             /\ Block(Slot) \subseteq DOMAIN vm.state
             /\ Slot.kind # "SK_RAW" /\ Users = {vm.pc} => St(0) = vm.t
        /\ (\A op \in SignalSinks : Cardinality(Uses(op)) <= 1) =>
             Len(vm.stack) = Depths(prog)[vm.pc]

\* The loader rejects a program unless the max_stack it declares is the deepest its
\* stack gets.
StackAsDeclared == vm.pc # 0 => Len(vm.stack) <= prog.max_stack

\* An indicator over its ring says the same as its RAW form over the bars, before and
\* after the ring wraps, and also when its length changes from bar to bar.
WindowsAgree ==
  prog \in Twins /\ vm.pc = 0 /\ next_bar > 0 => vm.locals[0] = vm.locals[1]
=============================================================================
