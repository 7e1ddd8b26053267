----------------------------- MODULE StatsEngine -----------------------------
(***************************************************************************)
(* Market statistics (class StatsEngine of sw/stats): traded volume and    *)
(* notional, and the window of the last second of event time.              *)
(***************************************************************************)
EXTENDS Integers, Sequences

CONSTANT OneSecNs     \* ONE_SEC_NS

ASSUME StatsAssumption == OneSecNs \in Nat \ {0}

VARIABLES
  stats,     \* vwap_num_, vwap_den_, trade_count_, total_messages_, first_ts_, last_ts_
  window     \* window_: timestamps, oldest push first

statsVars == <<stats, window>>

StatsInit ==
  /\ stats = [num |-> 0, den |-> 0, trades |-> 0, total |-> 0, first |-> 0, last |-> 0]
  /\ window = <<>>

\* Mutant of Expired: a timestamp exactly one second old stays.
ExpiredLater(t, ts) == t + OneSecNs < ts

Expired(t, ts) == t + OneSecNs <= ts

\* The loop pops from the front until a timestamp is fresh; the new one is.
Pruned(w, ts) ==
  LET Fresh(i) == ~Expired(w[i], ts) /\ \A j \in 1 .. i - 1 : Expired(w[j], ts)
  IN  SubSeq(w, CHOOSE i \in DOMAIN w : Fresh(i), Len(w))

\* on_message: ex is the ExecResult, ts 0 a message without event time.
OnMessage(ts, ex) ==
  LET trades == ex.contributes /\ ex.shares > 0
  IN  /\ window' = IF ts = 0 THEN window ELSE Pruned(Append(window, ts), ts)
      /\ stats' =
           [num |-> IF trades THEN stats.num + ex.price * ex.shares ELSE stats.num,
            den |-> IF trades THEN stats.den + ex.shares ELSE stats.den,
            trades |-> IF trades THEN stats.trades + 1 ELSE stats.trades,
            total |-> stats.total + 1,
            first |-> IF stats.first = 0 THEN ts ELSE stats.first,
            last |-> IF ts = 0 THEN stats.last ELSE ts]
=============================================================================
