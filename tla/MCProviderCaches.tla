-------------------------- MODULE MCProviderCaches --------------------------
(* Model values, bounds of the provider and symmetry of the workers.       *)
EXTENDS ProviderCaches, TLC

CONSTANTS w1, w2

MCWorkers == {w1, w2}
MCLifetimes == {0, 1, 2}
MCMaxVersions == [d \in Documents |-> 2]

\* An entry that has expired is as good as none.
Live(entry) == IF Usable(entry) THEN <<entry>> ELSE <<>>
LiveCaches == <<published, secret, Live(discovery), Live(jwks),
                [s \in Secrets |-> Live(bearers[s])], request, now>>

Symmetry == Permutations(MCWorkers)

=============================================================================
