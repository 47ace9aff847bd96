------------------------------ MODULE MCSsoFlow ------------------------------
(* Model values and symmetry for TLC. *)
EXTENDS SsoFlow, TLC

CONSTANTS p1, a, e, f, g, w1, w2

MCProviders == {p1}
MCSubjects == {a}
MCEmails == {e, f, g}
MCWorkers == {w1, w2}

Symmetry == Permutations(MCEmails) \cup Permutations(MCWorkers)

===============================================================================
