---------------------------- MODULE MCSigningKeys ----------------------------
(***************************************************************************)
(* Instances of SigningKeys for TLC.                                       *)
(***************************************************************************)
EXTENDS SigningKeys, TLC

CONSTANTS w1, w2, w3

TwoWorkers == {w1, w2}
ThreeWorkers == {w1, w2, w3}

Symmetry == Permutations(TwoWorkers)

===============================================================================
