-------------------------- MODULE MCEvidenceTurns --------------------------
(* Model-checking instance of EvidenceTurns. *)
EXTENDS EvidenceTurns, TLC

Symmetry == Permutations(Turns) \cup Permutations(Clients) \cup Permutations(Executors)
=============================================================================
