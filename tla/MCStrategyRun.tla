---------------------------- MODULE MCStrategyRun ----------------------------
(***************************************************************************)
(* Instances of StrategyRun for TLC: programs, their neighbours one edit   *)
(* away, which the loader has to judge, and feeds.                         *)
(***************************************************************************)
EXTENDS StrategyRun, TLC

I(op) == [op |-> op, arg |-> 0, lag |-> 0]
A(op, arg) == [op |-> op, arg |-> arg, lag |-> 0]
CLOSE == 3
S(kind, off, cap) == [kind |-> kind, off |-> off, cap |-> cap, series |-> CLOSE, lag |-> 0]
P(code, slots, floats, deep) ==
  [code |-> code, slots |-> slots, consts |-> <<2, 5>>, params |-> <<2>>,
   n_locals |-> 2, state_floats |-> floats, max_stack |-> deep]

\* enter_long when close.
Plain == P(<<A("PUSH_SERIES", CLOSE), I("SIG_EL"), I("HALT")>>, <<>>, 0, 1)

\* Two rules for one flag, and an exit.
TwoRules ==
  P(<<A("PUSH_SERIES", CLOSE), I("SIG_EL"), A("PUSH_SERIES", 4), I("SIG_EL"),
      A("PUSH_SERIES", CLOSE), I("SIG_XL"), I("HALT")>>,
    <<>>, 0, 1)

\* Every kind of state and of operand.
Mixed ==
  P(<<A("PUSH_SERIES", CLOSE), A("PUSH_CONST", 0), A("EMA", 0), A("STORE", 0),
      A("PUSH_SERIES", CLOSE), A("PUSH_PARAM", 0), A("RSI", 1), A("STORE", 1),
      A("LOAD", 1), I("SQRT"), A("PUSH_CONST", 0), A("ATR", 2), I("MAX2"), I("SIG_XL"),
      A("PUSH_SERIES", CLOSE), A("LOAD", 0), A("CROSSOVER", 3), I("SIG_EL"),
      [op |-> "PUSH_SERIES_LAG", arg |-> CLOSE, lag |-> 2], A("PUSH_CTX", 1), I("GT"),
      I("SET_SIZE"), I("HALT")>>,
    <<S("SK_EMA", 0, 0), S("SK_WILDER2", 2, 0), S("SK_WILDER1", 6, 0), S("SK_PREV2", 8, 0)>>,
    11, 2)

\* A breakout over two slots.
Small ==
  P(<<A("PUSH_SERIES", 1), A("PUSH_CONST", 0), A("HIGHEST", 0), A("PUSH_SERIES", CLOSE),
      A("CROSSUNDER", 1), I("SIG_ES"), I("HALT")>>,
    <<S("SK_RING", 0, 2), S("SK_PREV2", 3, 0)>>, 6, 2)

Edits ==
  {I("ADD"), I("NOT"), A("PUSH_CONST", 0), A("PUSH_CONST", 2), A("PUSH_PARAM", 1),
   A("PUSH_SERIES", 5), A("PUSH_CTX", 4), A("LOAD", 2), A("STORE", 0), A("LOWEST", 0),
   A("LOWEST", 1), A("DELAY", 0), A("SMA", 2), A("CROSSOVER", 0), I("SIG_ES"), I("HALT"),
   I("??")}

Neighbours ==
  {[Small EXCEPT !.code[i] = ins] : i \in DOMAIN Small.code, ins \in Edits}
  \cup {[Small EXCEPT !.slots[i].off = k] : i \in 1 .. 2, k \in -1 .. 5}
  \cup {[Small EXCEPT !.slots[1].cap = k] : k \in 0 .. 4}
  \cup {[Small EXCEPT !.slots[1].kind = k] : k \in {"SK_RAW", "SK_EMA", "SK_WILDER2"}}
  \cup {[Small EXCEPT !.state_floats = k] : k \in 4 .. 7}
  \cup {[Small EXCEPT !.max_stack = k] : k \in 1 .. 4}
  \cup {[Small EXCEPT !.code = SubSeq(@, 1, k)] : k \in 0 .. 6}
  \cup {[Small EXCEPT !.code = <<ins>> \o @] : ins \in Edits}

\* Twin(op, raw, n, cap): the window of length n over the closes, both ways.
Twin(op, raw, n, cap) ==
  P(<<A("PUSH_SERIES", CLOSE), n, A(op, 0), A("STORE", 0), n, A(raw, 1), A("STORE", 1),
      I("HALT")>>,
    <<S("SK_RING", 0, cap), S("SK_RAW", 0, cap)>>, cap + 1, 2)

MCTwins ==
  {Twin(w[1], w[2], n, cap) :
     w \in {<<"SMA", "SMA_RAW">>, <<"HIGHEST", "HIGHEST_RAW">>, <<"LOWEST", "LOWEST_RAW">>,
            <<"STDDEV", "STDDEV_RAW">>, <<"DELAY", "DELAY_RAW">>},
     n \in {A("PUSH_CONST", 0), A("PUSH_CONST", 1), A("PUSH_CTX", 0)}, cap \in {2, 3}}

NoPrint == [contributes |-> FALSE, price |-> 0, shares |-> 0]
T(price, shares) == [contributes |-> TRUE, price |-> price, shares |-> shares]

Case(p, messages, times, prints) ==
  [prog |-> p, messages |-> messages, times |-> times, prints |-> prints]

MCCases ==
  {Case(Plain, 4, {0, 1, 2, 3, 5}, {NoPrint, T(1, 1), T(3, 2)}),
   Case(Plain, 3, {2, 3, 4}, {T(1, 1), T(2, 0), T(3, 1)}),
   Case(Mixed, 4, {1, 3, 7}, {T(2, 1), T(5, 1)})}
  \cup {Case(p, 3, {1, 3, 5}, {T(1, 1), T(3, 1)}) : p \in Neighbours}
  \cup {Case(p, 4, {1, 3, 7}, {T(1, 1), T(4, 1)}) : p \in MCTwins}

MCContexts == {NoCtx, [position |-> 1, entry_px |-> 2, equity |-> 9]}

TwoRulesCases == {Case(TwoRules, 4, {1, 3, 5}, {NoPrint, T(1, 1), T(2, 0)})}
=============================================================================
