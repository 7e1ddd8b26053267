------------------------------ MODULE MCCoSim ------------------------------
(***************************************************************************)
(* Instances of CoSim for TLC.                                             *)
(***************************************************************************)
EXTENDS CoSim, TLC

Symmetry == Permutations(RefIds)
=============================================================================
