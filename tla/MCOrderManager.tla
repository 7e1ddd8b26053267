--------------------------- MODULE MCOrderManager ---------------------------
(***************************************************************************)
(* Instances of OrderManager for TLC.                                      *)
(***************************************************************************)
EXTENDS OrderManager, TLC

\* Clean feeds whose displayed book is not crossed, and as many own orders as
\* MaxSubmits says.
Bounded ==
  /\ CleanFeed
  /\ BestOf(BUY) # 0 /\ BestOf(SELL) # 0 => BestOf(BUY) < BestOf(SELL)
  /\ next_ref <= MaxSubmits + 1
=============================================================================
