----------------------------- MODULE StrategyVM -----------------------------
(***************************************************************************)
(* The virtual machine that runs a strategy program once per completed bar *)
(* (StrategyVM::step of sw/trade/dsl_vm.cpp), one step per instruction.    *)
(* Numbers are integers where the code has float32: quotients, roots and   *)
(* logarithms are rounded down, and comparisons give 1 or 0.  The operand  *)
(* stack has no size here, as the array in the code knows none.            *)
(***************************************************************************)
EXTENDS Program, BarBuilder

VARIABLES
  prog,     \* prog_, with the parameter values in params
  vm        \* pc (0 between two bars), t, ctx, stack, sig; state_ and locals_

vmVars == <<prog, vm>>

NoSignals == [el |-> FALSE, xl |-> FALSE, es |-> FALSE, xs |-> FALSE,
              stop |-> 0, tp |-> 0, trail |-> 0, size |-> 1]
NoCtx == [position |-> 0, entry_px |-> 0, equity |-> 0]

\* The constructor: state and locals start at zero.
VmInit ==
  vm = [pc |-> 0, t |-> 0, ctx |-> NoCtx, stack |-> <<>>, sig |-> NoSignals,
        state |-> [i \in 0 .. prog.state_floats - 1 |-> 0],
        locals |-> [i \in 0 .. (IF prog.n_locals > 0 THEN prog.n_locals ELSE 1) - 1 |-> 0]]

-----------------------------------------------------------------------------
(* Operands. *)

Larger(x, y) == IF x > y THEN x ELSE y
Smaller(x, y) == IF x < y THEN x ELSE y
Absolute(x) == IF x < 0 THEN -x ELSE x
Truth(p) == IF p THEN 1 ELSE 0
Clamp(x, lo, hi) == Smaller(Larger(x, lo), hi)

Ins == prog.code[vm.pc]
Running(ops) == vm.pc # 0 /\ Ins.op \in ops

\* The k-th value from the top, and what is under the k topmost.
Top(k) == vm.stack[Len(vm.stack) + 1 - k]
Under(k) == SubSeq(vm.stack, 1, Len(vm.stack) - k)

\* The instruction pops k values and pushes v.
Replaces(k, v) == [vm EXCEPT !.pc = @ + 1, !.stack = Append(Under(k), v)]

\* Value t of a series, lag bars back but never before the first.
Field(bar, series) ==
  CASE series = 0 -> bar.o [] series = 1 -> bar.h [] series = 2 -> bar.l
    [] series = 3 -> bar.c [] series = 4 -> bar.v
At(series, t) == Field(bars[Larger(t, 0) + 1], series)

\* The instruction's slot and float k of its block.
Slot == prog.slots[Ins.arg + 1]
St(k) == vm.state[Slot.off + k]
\* The block with its first floats replaced by vals.
Stored(vals) ==
  [i \in DOMAIN vm.state |->
     IF i \in Slot.off .. Slot.off + Len(vals) - 1 THEN vals[i - Slot.off + 1]
     ELSE vm.state[i]]

-----------------------------------------------------------------------------
(* Instructions. *)

Pushed ==
  CASE Ins.op = "PUSH_CONST" -> prog.consts[Ins.arg + 1]
    [] Ins.op = "PUSH_PARAM" -> prog.params[Ins.arg + 1]
    [] Ins.op = "PUSH_SERIES" -> At(Ins.arg, vm.t)
    [] Ins.op = "PUSH_SERIES_LAG" -> At(Ins.arg, vm.t - Ins.lag)
    [] Ins.op = "PUSH_CTX" -> (CASE Ins.arg = 0 -> vm.t
                                 [] Ins.arg = 1 -> vm.ctx.position
                                 [] Ins.arg = 2 -> vm.ctx.entry_px
                                 [] Ins.arg = 3 -> vm.ctx.equity)
    [] Ins.op = "LOAD" -> vm.locals[Ins.arg]

Push == Running(Pushes) /\ vm' = Replaces(0, Pushed)

Store ==
  /\ Running({"STORE"})
  /\ vm' = [vm EXCEPT !.pc = @ + 1, !.stack = Under(1), !.locals[Ins.arg] = Top(1)]

Computed(op, x, y) ==
  CASE op = "ADD" -> x + y
    [] op = "SUB" -> x - y
    [] op = "MUL" -> x * y
    [] op = "DIV" -> (IF y # 0 THEN (IF y > 0 THEN x \div y ELSE (-x) \div (-y)) ELSE 0)
    [] op = "MIN2" -> Smaller(x, y)
    [] op = "MAX2" -> Larger(x, y)
    [] op = "GT" -> Truth(x > y)
    [] op = "LT" -> Truth(x < y)
    [] op = "GE" -> Truth(x >= y)
    [] op = "LE" -> Truth(x <= y)
    [] op = "EQ" -> Truth(x = y)
    [] op = "NE" -> Truth(x # y)
    [] op = "AND" -> Truth(x # 0 /\ y # 0)
    [] op = "OR" -> Truth(x # 0 \/ y # 0)

Compute == Running(Binary) /\ vm' = Replaces(2, Computed(Ins.op, Top(2), Top(1)))

Root(x) == CHOOSE r \in 0 .. x : r * r <= x /\ x < (r + 1) * (r + 1)
Log(x) == CHOOSE e \in 0 .. x : 2 ^ e <= x /\ x < 2 ^ (e + 1)

Changed(op, x) ==
  CASE op = "NEG" -> -x
    [] op = "ABS" -> Absolute(x)
    [] op = "SQRT" -> (IF x > 0 THEN Root(x) ELSE 0)
    [] op = "LOG" -> (IF x > 0 THEN Log(x) ELSE 0)
    [] op = "NOT" -> Truth(x = 0)

Change == Running(Unary) /\ vm' = Replaces(1, Changed(Ins.op, Top(1)))

\* OP_EMA: the first value is taken as it is.
Ema ==
  /\ Running({"EMA"})
  /\ LET x == Top(2)
         value == IF St(0) = 0 THEN x
                  ELSE St(1) + (2 * (x - St(1))) \div (Larger(Top(1), 1) + 1)
     IN  vm' = [Replaces(2, value) EXCEPT !.state = Stored(<<St(0) + 1, value>>)]

\* OP_RSI: [count, previous, average gain, average loss].
Rsi ==
  /\ Running({"RSI"})
  /\ LET n == Larger(Top(1), 1)
         x == Top(2)
         g == Larger(x - St(1), 0)
         lo == Larger(St(1) - x, 0)
         avg(k, d) == IF St(0) = 0 THEN St(k)
                      ELSE IF St(0) = 1 THEN d ELSE St(k) + (d - St(k)) \div n
         denom == avg(2, g) + avg(3, lo)
         res == IF St(0) = 0 \/ denom = 0 THEN 50 ELSE (100 * avg(2, g)) \div denom
     IN  vm' = [Replaces(2, res) EXCEPT
                  !.state = Stored(<<St(0) + 1, x, avg(2, g), avg(3, lo)>>)]

\* OP_ATR: the true range reaches back to the close before.
Atr ==
  /\ Running({"ATR"})
  /\ LET range == At(1, vm.t) - At(2, vm.t)
         back == At(3, vm.t - 1)
         tr == IF vm.t = 0 THEN range
               ELSE Larger(range, Larger(Absolute(At(1, vm.t) - back),
                                         Absolute(At(2, vm.t) - back)))
         value == IF St(0) = 0 THEN tr
                  ELSE St(1) + (tr - St(1)) \div Larger(Top(1), 1)
     IN  vm' = [Replaces(1, value) EXCEPT !.state = Stored(<<St(0) + 1, value>>)]

-----------------------------------------------------------------------------
(* Windows.  A ring slot is a count and a buffer of cap values; the RAW forms   *)
(* read the same window from the bars.                                          *)

Total(w) == FoldSeq(LAMBDA x, acc : x + acc, 0, w)
Mean(w) == Total(w) \div Len(w)
Extreme(w, Better(_, _)) == FoldSeq(Better, w[1], w)

\* The four window functions, over a window oldest value first.
Over(op, w) ==
  CASE op \in {"SMA", "SMA_RAW"} -> Mean(w)
    [] op \in {"HIGHEST", "HIGHEST_RAW"} -> Extreme(w, Larger)
    [] op \in {"LOWEST", "LOWEST_RAW"} -> Extreme(w, Smaller)
    [] op \in {"STDDEV", "STDDEV_RAW"} ->
         LET m == Mean(w) IN Root(Mean([i \in DOMAIN w |-> (w[i] - m) * (w[i] - m)]))

\* Float of the block where the i-th value (from 0) is kept.
RingPlace(i) == 1 + (i % Slot.cap)

\* The block once x is written.
Written(x) ==
  [vm.state EXCEPT ![Slot.off + RingPlace(St(0))] = x, ![Slot.off] = @ + 1]

Ring ==
  /\ Running(Rings)
  /\ LET block == Written(Top(2))
         count == St(0) + 1
         k == Smaller(count, Clamp(Top(1), 1, Slot.cap))
         w == [i \in 1 .. k |-> block[Slot.off + RingPlace(count - k + i - 1)]]
     IN  vm' = [Replaces(2, Over(Ins.op, w)) EXCEPT !.state = block]

\* Mutant of RawStart: the window is one bar too long.
RawStartEarly(k) == vm.t - k

\* j0: the bar a window of k begins with.
RawStart(k) == vm.t - k + 1

Raw ==
  /\ Running(Raws)
  /\ LET k == Smaller(vm.t + 1, Clamp(Top(1), 1, Slot.cap))
         w == [i \in 1 .. vm.t - RawStart(k) + 1 |->
                 At(Slot.series, RawStart(k) + i - 1 - Slot.lag)]
     IN  vm' = Replaces(1, Over(Ins.op, w))

\* k_eff and back: how far a delay reaches when have values are kept.
Back(k, have) == Smaller(Clamp(k, 0, Slot.cap - 1), Smaller(have, Slot.cap) - 1)

Delay ==
  /\ Running({"DELAY"})
  /\ LET block == Written(Top(2))
         count == St(0) + 1
         v == block[Slot.off + RingPlace(count - 1 - Back(Top(1), count))]
     IN  vm' = [Replaces(2, v) EXCEPT !.state = block]

DelayRaw ==
  /\ Running({"DELAY_RAW"})
  /\ vm' = Replaces(1, At(Slot.series, vm.t - Back(Top(1), vm.t + 1) - Slot.lag))

\* OP_CROSSOVER and OP_CROSSUNDER: [count, previous x, previous y].
Cross ==
  /\ Running(Crosses)
  /\ LET x == Top(2)
         y == Top(1)
         r == /\ St(0) >= 1
              /\ IF Ins.op = "CROSSOVER" THEN x > y /\ St(1) <= St(2)
                 ELSE x < y /\ St(1) >= St(2)
     IN  vm' = [Replaces(2, Truth(r)) EXCEPT !.state = Stored(<<St(0) + 1, x, y>>)]

-----------------------------------------------------------------------------
(* Sinks. *)

Flag == CASE Ins.op = "SIG_EL" -> "el" [] Ins.op = "SIG_XL" -> "xl"
          [] Ins.op = "SIG_ES" -> "es" [] Ins.op = "SIG_XS" -> "xs"

\* sig.el || (stack[--sp] != 0): a flag that is set already pops nothing.
SkipsPop == vm.sig[Flag]

Signal ==
  /\ Running(SignalSinks)
  /\ vm' = IF SkipsPop THEN [vm EXCEPT !.pc = @ + 1]
           ELSE [vm EXCEPT !.pc = @ + 1, !.stack = Under(1), !.sig[Flag] = Top(1) # 0]

Setting == CASE Ins.op = "SET_STOP" -> "stop" [] Ins.op = "SET_TP" -> "tp"
             [] Ins.op = "SET_TRAIL" -> "trail" [] Ins.op = "SET_SIZE" -> "size"

Set ==
  /\ Running(Settings)
  /\ vm' = [vm EXCEPT !.pc = @ + 1, !.stack = Under(1),
                      !.sig[Setting] = IF Setting = "size" THEN Clamp(Top(1), 0, 1) ELSE Top(1)]

\* The step ends and returns sig; the stack was its own.
Halt ==
  /\ Running({"HALT"})
  /\ vm' = [vm EXCEPT !.pc = 0, !.t = 0, !.ctx = NoCtx, !.stack = <<>>, !.sig = NoSignals]

Execute ==
  /\ \/ Push \/ Store \/ Compute \/ Change \/ Ema \/ Rsi \/ Atr
     \/ Ring \/ Raw \/ Delay \/ DelayRaw \/ Cross \/ Signal \/ Set
  /\ UNCHANGED <<prog, barVars>>

\* step() for bar t begins.
Begin(t, ctx) ==
  /\ vm.pc = 0
  /\ vm' = [vm EXCEPT !.pc = 1, !.t = t, !.ctx = ctx]
=============================================================================
