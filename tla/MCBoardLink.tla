----------------------------- MODULE MCBoardLink -----------------------------
(***************************************************************************)
(* Instances of BoardLink for TLC.                                         *)
(***************************************************************************)
EXTENDS BoardLink, TLC
=============================================================================
