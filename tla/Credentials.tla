----------------------------- MODULE Credentials -----------------------------
(***************************************************************************)
(* What the service promises about the credentials of a service account,   *)
(* whatever handlers touch it: it has one valid secret at a time, a secret *)
(* is valid for one account and once only, a revocation is final, and a    *)
(* token is issued to nobody but a request that presented the valid secret *)
(* of an account that was not revoked by then.                             *)
(*                                                                         *)
(* Module Clients, with handlers that write back rows they loaded earlier, *)
(* is shown to implement this specification.                               *)
(***************************************************************************)
EXTENDS Naturals

CONSTANTS
    Accounts,    \* the service accounts there can be
    Secrets      \* the secrets that can be generated

VARIABLES
    valid,       \* valid[c] = the secret of account c, for the accounts there are
    dead,        \* the secrets that were replaced
    revoked,     \* the accounts that were revoked
    admitted     \* admitted[c] = requests of account c that will be answered by a token

credentialVars == <<valid, dead, revoked, admitted>>

Init ==
    /\ valid = [c \in {} |-> {}]
    /\ dead = {}
    /\ revoked = {}
    /\ admitted = [c \in Accounts |-> 0]

Fresh(s) == s \notin dead /\ \A c \in DOMAIN valid : valid[c] # s

\* A new account and its secret.
Register(c, s) ==
    /\ c \notin DOMAIN valid
    /\ Fresh(s)
    /\ valid' = [d \in DOMAIN valid \cup {c} |-> IF d = c THEN s ELSE valid[d]]
    /\ UNCHANGED <<dead, revoked, admitted>>

\* A new secret; the one before is dead from now on.
Replace(c, s) ==
    /\ c \in DOMAIN valid
    /\ Fresh(s)
    /\ valid' = [valid EXCEPT ![c] = s]
    /\ dead' = dead \cup {valid[c]}
    /\ UNCHANGED <<revoked, admitted>>

Revoke(c) ==
    /\ c \in DOMAIN valid
    /\ revoked' = revoked \cup {c}
    /\ UNCHANGED <<valid, dead, admitted>>

\* A request presents secret s for account c, and will be issued a token.
Admit(c, s) ==
    /\ c \in DOMAIN valid \ revoked
    /\ s = valid[c]
    /\ admitted' = [admitted EXCEPT ![c] = @ + 1]
    /\ UNCHANGED <<valid, dead, revoked>>

\* It has been issued its token, or given up.
Settle(c) ==
    /\ admitted[c] > 0
    /\ admitted' = [admitted EXCEPT ![c] = @ - 1]
    /\ UNCHANGED <<valid, dead, revoked>>

Next ==
    \E c \in Accounts :
        \/ \E s \in Secrets : Register(c, s) \/ Replace(c, s) \/ Admit(c, s)
        \/ Revoke(c)
        \/ Settle(c)

Spec == Init /\ [][Next]_credentialVars

===============================================================================
