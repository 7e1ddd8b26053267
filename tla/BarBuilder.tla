----------------------------- MODULE BarBuilder -----------------------------
(***************************************************************************)
(* Time bars from trade prints (class BarBuilder of                        *)
(* sw/trade/bar_builder.hpp).  Prices and volumes are float32 in the code, *)
(* exact up to 2^24; here they are integers.                               *)
(***************************************************************************)
EXTENDS Integers, Sequences, SequencesExt

CONSTANT BarNs     \* bar_ns_

ASSUME BarAssumption == BarNs \in Nat \ {0}

VARIABLES
  cur,     \* the bar in progress: open_, cur_bucket_, o_ ... vol_
  bars     \* bars_: the five series, bar by bar

barVars == <<cur, bars>>

Ohlcv(o, h, l, c, v) == [o |-> o, h |-> h, l |-> l, c |-> c, v |-> v]
Flat(price) == Ohlcv(price, price, price, price, 0)

BarInit ==
  /\ cur = [open |-> FALSE, bucket |-> 0, bar |-> Flat(0)]
  /\ bars = <<>>

Starts(bucket, px, shares) ==
  [open |-> TRUE, bucket |-> bucket, bar |-> Ohlcv(px, px, px, px, shares)]

FirstTrade(bucket, px, shares) ==
  /\ ~cur.open
  /\ cur' = Starts(bucket, px, shares)
  /\ UNCHANGED bars

\* Mutant of FoldsIn: a late trade opens a bar of its own.
FoldsInSame(bucket) == bucket = cur.bucket

\* A trade of the bar in progress, or a late one.
FoldsIn(bucket) == bucket <= cur.bucket

FoldTrade(bucket, px, shares) ==
  /\ cur.open /\ FoldsIn(bucket)
  /\ cur' = [cur EXCEPT !.bar = Ohlcv(@.o, IF px > @.h THEN px ELSE @.h,
                                      IF px < @.l THEN px ELSE @.l,
                                      px, @.v + shares)]
  /\ UNCHANGED bars

\* A later bucket closes the bar and every empty one before it.
NextTrade(bucket, px, shares) ==
  /\ cur.open /\ ~FoldsIn(bucket)
  /\ bars' = bars \o <<cur.bar>>
                  \o [i \in 1 .. bucket - cur.bucket - 1 |-> Flat(cur.bar.c)]
  /\ cur' = Starts(bucket, px, shares)

OnTrade(ts, px, shares) ==
  LET bucket == ts \div BarNs
  IN  \/ FirstTrade(bucket, px, shares)
      \/ FoldTrade(bucket, px, shares)
      \/ NextTrade(bucket, px, shares)

\* flush, at the end of the stream.
FlushBar ==
  /\ bars' = IF cur.open THEN Append(bars, cur.bar) ELSE bars
  /\ cur' = [cur EXCEPT !.open = FALSE]
=============================================================================
