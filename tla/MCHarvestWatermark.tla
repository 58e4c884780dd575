------------------------ MODULE MCHarvestWatermark ------------------------
(* Model-checking instance of HarvestWatermark: rebuilds are interchangeable. *)
EXTENDS HarvestWatermark, TLC

Symmetry == Permutations(Rebuilders)
=============================================================================
