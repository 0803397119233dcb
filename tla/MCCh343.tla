-------------------------------- MODULE MCCh343 --------------------------------
(* Instances of Ch343 for TLC.                                              *)
EXTENDS Ch343, TLC

CONSTANTS w1, w2

Symmetry == Permutations(Writers)
==============================================================================
