------------------------------ MODULE MCRtlBook ------------------------------
(***************************************************************************)
(* Instances of RtlBook for TLC.  All references hash to the last slot, so *)
(* that every probe chain collides and wraps.                              *)
(***************************************************************************)
EXTENDS RtlBook, TLC

MCHome == [r \in Refs |-> TableSize - 1]
=============================================================================
