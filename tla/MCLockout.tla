------------------------------ MODULE MCLockout ------------------------------
(***************************************************************************)
(* An instance of Lockout for TLC.                                         *)
(***************************************************************************)
EXTENDS Lockout

CONSTANTS w1, w2, w3

TwoWorkers == {w1, w2}
ThreeWorkers == {w1, w2, w3}
FourRows == 1..4

===============================================================================
