------------------------------ MODULE MCClients ------------------------------
(* Model values and symmetry for TLC. *)
EXTENDS Clients, TLC

CONSTANTS o1, w1, w2

MCOwners == {o1}
MCWorkers == {w1, w2}

Symmetry == Permutations(MCWorkers)

===============================================================================
