------------------------------- MODULE Program -------------------------------
(***************************************************************************)
(* OBP1 strategy bytecode and what its loader accepts (Program::parse of   *)
(* sw/trade/program.cpp).  A program is a record with the fields of        *)
(* struct Program; an instruction has its opcode without the prefix OP_,   *)
(* its operand and, for PUSH_SERIES_LAG, the lag that shares the operand   *)
(* word.  A state slot has kind, off and cap, and series and lag for its   *)
(* aux word.  Reading the file into that record is left out.               *)
(***************************************************************************)
EXTENDS Integers, Sequences, FiniteSets

CONSTANTS
  VmMaxStack,     \* VM_MAX_STACK
  VmMaxWindow     \* VM_MAX_WINDOW

ASSUME LimitAssumption == VmMaxStack \in Nat \ {0} /\ VmMaxWindow \in Nat \ {0}

N_SERIES == 5
N_CTX == 4

Pushes == {"PUSH_CONST", "PUSH_PARAM", "PUSH_SERIES", "PUSH_SERIES_LAG", "PUSH_CTX", "LOAD"}
Binary == {"ADD", "SUB", "MUL", "DIV", "MIN2", "MAX2",
           "GT", "LT", "GE", "LE", "EQ", "NE", "AND", "OR"}
Unary == {"NEG", "ABS", "SQRT", "LOG", "NOT"}
Rings == {"SMA", "HIGHEST", "LOWEST", "STDDEV"}
Raws == {"SMA_RAW", "HIGHEST_RAW", "LOWEST_RAW", "STDDEV_RAW"}
Crosses == {"CROSSOVER", "CROSSUNDER"}
SignalSinks == {"SIG_EL", "SIG_XL", "SIG_ES", "SIG_XS"}
Settings == {"SET_STOP", "SET_TP", "SET_TRAIL", "SET_SIZE"}
Sinks == SignalSinks \cup Settings
Stateful == Rings \cup Raws \cup Crosses \cup {"EMA", "RSI", "ATR", "DELAY", "DELAY_RAW"}
Ops == Pushes \cup Binary \cup Unary \cup Stateful \cup Sinks \cup {"STORE", "HALT"}

\* required_stack.
RequiredStack(op) ==
  CASE op \in Pushes \cup {"HALT"} -> 0
    [] op \in {"STORE", "ATR", "DELAY_RAW"} \cup Unary \cup Raws \cup Sinks -> 1
    [] OTHER -> 2

\* stack_delta.
StackDelta(op) ==
  CASE op \in Pushes -> 1
    [] op \in {"STORE", "EMA", "RSI", "DELAY"} \cup Sinks \cup Binary \cup Rings \cup Crosses -> -1
    [] OTHER -> 0

\* expected_state_kind.
ExpectedStateKind(op) ==
  CASE op = "EMA" -> "SK_EMA"
    [] op = "ATR" -> "SK_WILDER1"
    [] op = "RSI" -> "SK_WILDER2"
    [] op \in Rings \cup {"DELAY"} -> "SK_RING"
    [] op \in Crosses -> "SK_PREV2"
    [] op \in Raws \cup {"DELAY_RAW"} -> "SK_RAW"

\* state_size: floats of a slot in the state block.
StateSize(s) ==
  CASE s.kind \in {"SK_EMA", "SK_WILDER1"} -> 2
    [] s.kind = "SK_WILDER2" -> 4
    [] s.kind = "SK_RING" -> 1 + s.cap
    [] s.kind = "SK_PREV2" -> 3
    [] s.kind = "SK_RAW" -> 0

Block(s) == s.off .. s.off + StateSize(s) - 1

SlotFits(p, s) == s.off >= 0 /\ s.off + StateSize(s) <= p.state_floats

\* Mutant of SlotsApart: the slots may share a float.
SlotsApartEnough(p) ==
  \A i, j \in DOMAIN p.slots :
    i # j => Cardinality(Block(p.slots[i]) \cap Block(p.slots[j])) <= 1

SlotsApart(p) ==
  \A i, j \in DOMAIN p.slots : i # j => Block(p.slots[i]) \cap Block(p.slots[j]) = {}

SlotsSound(p) ==
  /\ \A i \in DOMAIN p.slots :
       LET s == p.slots[i]
       IN  /\ s.kind \in {"SK_RING", "SK_RAW"} => s.cap \in 1 .. VmMaxWindow
           /\ SlotFits(p, s)
           /\ s.kind = "SK_RAW" => s.series \in 0 .. N_SERIES - 1
  /\ SlotsApart(p)

OperandSound(p, ins) ==
  CASE ins.op = "PUSH_CONST" -> ins.arg < Len(p.consts)
    [] ins.op = "PUSH_PARAM" -> ins.arg < Len(p.params)
    [] ins.op \in {"PUSH_SERIES", "PUSH_SERIES_LAG"} -> ins.arg < N_SERIES
    [] ins.op = "PUSH_CTX" -> ins.arg < N_CTX
    [] ins.op \in {"LOAD", "STORE"} -> ins.arg < p.n_locals
    [] ins.op \in Stateful -> /\ ins.arg < Len(p.slots)
                              /\ p.slots[ins.arg + 1].kind = ExpectedStateKind(ins.op)
    [] OTHER -> ins.op \in Ops

\* depth, before each instruction and after the last.
Depths(p) ==
  LET D[i \in 1 .. Len(p.code) + 1] ==
        IF i = 1 THEN 0 ELSE D[i - 1] + StackDelta(p.code[i - 1].op)
  IN  D

StackSound(p) ==
  LET D == Depths(p)
  IN  /\ \A i \in DOMAIN p.code : D[i] >= RequiredStack(p.code[i].op)
      /\ \A i \in DOMAIN D : D[i] <= VmMaxStack
      /\ D[Len(p.code) + 1] = 0
      /\ \A i \in DOMAIN D : D[i] <= p.max_stack
      /\ \E i \in DOMAIN D : D[i] = p.max_stack

\* Program::parse throws unless all of it holds.
Accepted(p) ==
  /\ p.max_stack <= VmMaxStack
  /\ p.code # <<>>
  /\ SlotsSound(p)
  /\ p.code[Len(p.code)].op = "HALT"
  /\ \A i \in DOMAIN p.code :
       /\ OperandSound(p, p.code[i])
       /\ p.code[i].op = "HALT" => i = Len(p.code)
  /\ StackSound(p)
=============================================================================
