---------------------------- MODULE MCFillEngine ----------------------------
(***************************************************************************)
(* Instances of FillEngine for TLC.                                        *)
(***************************************************************************)
EXTENDS FillEngine, TLC

\* The properties speak of clean feeds: what follows the end of that is not
\* explored.
UntilUnclean == CleanFeed
=============================================================================
