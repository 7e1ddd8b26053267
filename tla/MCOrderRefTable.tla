-------------------------- MODULE MCOrderRefTable --------------------------
(***************************************************************************)
(* Instances of OrderRefTable for TLC.  References differ only by their    *)
(* homes, which start in every combination.                                *)
(***************************************************************************)
EXTENDS OrderRefTable, TLC
=============================================================================
