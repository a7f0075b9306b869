--------------------------- MODULE MCCoordinators ---------------------------
(* Instances of Coordinators for TLC.                                      *)
EXTENDS CoordinatorsProperties, TLC

CONSTANTS arbitrum, optimism

Symmetry == Permutations(Sidechains)
=============================================================================
