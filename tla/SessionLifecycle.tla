--------------------------- MODULE SessionLifecycle ---------------------------
(***************************************************************************)
(* What the service promises about one refresh token, whatever handler     *)
(* touches it: it is born live, belongs to one user for good, is retired   *)
(* at most once and never comes back, and a token obtained by exchanging   *)
(* another one is only born after that other one has been retired.         *)
(*                                                                         *)
(* Module Sessions, with its handlers interleaving at every await, is      *)
(* shown to implement this specification.                                  *)
(***************************************************************************)
EXTENDS Naturals, Sequences

CONSTANTS
    Users,        \* the accounts tokens are issued to
    MaxTokens     \* bound on the tokens ever issued

VARIABLES
    owned,        \* owned[t] = the user of the t-th token ever issued
    predecessor,  \* predecessor[t] = the token t was exchanged for, or 0
    retired       \* the tokens that have been revoked

lifecycleVars == <<owned, predecessor, retired>>

Init ==
    /\ owned = <<>>
    /\ predecessor = <<>>
    /\ retired = {}

\* A new live token, opened by a sign-in (p = 0) or in exchange for p.
Open(u, p) ==
    /\ Len(owned) < MaxTokens
    /\ p # 0 => p \in retired /\ owned[p] = u
    /\ owned' = Append(owned, u)
    /\ predecessor' = Append(predecessor, p)
    /\ UNCHANGED retired

\* Some live tokens of one user are retired together.
Retire(u, S) ==
    /\ \A t \in S : t \in DOMAIN owned /\ owned[t] = u
    /\ retired' = retired \cup S
    /\ UNCHANGED <<owned, predecessor>>

Next ==
    \E u \in Users :
        \/ \E p \in 0..MaxTokens : Open(u, p)
        \/ \E S \in SUBSET (1..MaxTokens) : Retire(u, S)

Spec == Init /\ [][Next]_lifecycleVars

===============================================================================
