------------------------------- MODULE Clients -------------------------------
(***************************************************************************)
(* Service accounts: the table service_accounts, its administration and    *)
(* the client_credentials grant.                                           *)
(*                                                                         *)
(* A handler is cut at its awaits, as in module Sessions: it loads a row,  *)
(* assigns attributes and commits, and the UPDATE carries the attributes   *)
(* whose value is not the one loaded, whatever the row holds by then.  The *)
(* key that signs a client's token is the subject of module SigningKeys.   *)
(* expires_at, names and scopes are left out: an expired account, or a     *)
(* request for scopes it does not have, is refused and changes nothing.    *)
(***************************************************************************)
EXTENDS Naturals, Sequences, FiniteSets

CONSTANTS
    Owners,         \* administrators who register service accounts
    Workers,        \* handlers in flight at once, over all replicas
    MaxPerOwner,    \* settings.client_max_per_owner
    None,           \* no owner, no row loaded; a patch that does not name is_active
    MaxClients,     \* bound: service accounts ever created
    MaxSecrets      \* bound: client secrets ever generated

ASSUME ClientsAssumption ==
    /\ IsFiniteSet(Workers) /\ Workers # {}
    /\ MaxPerOwner \in Nat
    /\ MaxClients \in Nat
    /\ MaxSecrets \in Nat

VARIABLES
    clients,    \* service_accounts in insert order
    secrets,    \* how many client secrets were generated; a secret is its number
    handler     \* handler[w]: the request worker w is serving

vars == <<clients, secrets, handler>>

-------------------------------------------------------------------------------
(* Types.                                                                  *)

ClientIds == 1..MaxClients
SecretIds == 1..MaxSecrets

\* secret stands for client_secret_hash, revoked for revoked_at being set.  The rest is
\* no column: the secrets that were replaced, and how many tokens were minted since
\* revoked_at was set.
ServiceAccount == [owner : Owners, secret : SecretIds, active : BOOLEAN, revoked : BOOLEAN,
                   replaced : SUBSET SecretIds, late : Nat]

\* Where a handler will resume: about to insert, to sign, to commit an UPDATE.
Points == {"idle", "insert", "mint", "rotate", "revoke", "update"}

Idle == [pc |-> "idle", owner |-> None, client |-> 0, secret |-> 0,
         loaded |-> None, patch |-> None]

\* loaded is the ServiceAccount object, with the values it was loaded with; secret is
\* the one generated for the row, patch the is_active that update_client was given.
Handler == [pc : Points, owner : Owners \cup {None}, client : 0..MaxClients,
            secret : 0..MaxSecrets, loaded : ServiceAccount \cup {None},
            patch : BOOLEAN \cup {None}]

TypeOK ==
    /\ clients \in Seq(ServiceAccount)
    /\ Len(clients) <= MaxClients
    /\ secrets \in 0..MaxSecrets
    /\ handler \in [Workers -> Handler]

Init ==
    /\ clients = <<>>
    /\ secrets = 0
    /\ handler = [w \in Workers |-> Idle]

-------------------------------------------------------------------------------
(* Queries.                                                                *)

\* count_clients_for_owner: revoked ones count too.
Owned(o) == {c \in DOMAIN clients : clients[c].owner = o}

\* is_client_usable.
Usable(account) == account.active /\ ~account.revoked

-------------------------------------------------------------------------------
(* Steps the handlers are made of.                                         *)

At(w, point) == handler[w].pc = point

Start(w, point, o, c, secret, patch) ==
    /\ At(w, "idle")
    /\ handler' = [handler EXCEPT ![w] =
                     [pc |-> point, owner |-> o, client |-> c, secret |-> secret,
                      loaded |-> IF c = 0 THEN None ELSE clients[c], patch |-> patch]]

Finish(w) == handler' = [handler EXCEPT ![w] = Idle]

\* Mutant: the UPDATE carries every attribute of the loaded object.
StoreAll(w, changed) ==
    clients' = [clients EXCEPT ![handler[w].client] =
                  [@ EXCEPT !.secret = changed.secret, !.active = changed.active,
                            !.revoked = changed.revoked,
                            !.replaced = IF changed.secret = clients[handler[w].client].secret
                                           THEN @
                                           ELSE @ \cup {clients[handler[w].client].secret}]]

\* The UPDATE of the row a handler has loaded: `changed' is the object as it is now,
\* and an attribute equal to the one loaded keeps what the row holds.
Store(w, changed) ==
    LET row == clients[handler[w].client]
        Written(field) == IF changed[field] = handler[w].loaded[field]
                            THEN row[field] ELSE changed[field]
    IN  clients' = [clients EXCEPT ![handler[w].client] =
                      [row EXCEPT !.secret = Written("secret"),
                                  !.active = Written("active"),
                                  !.revoked = Written("revoked"),
                                  !.replaced = IF Written("secret") = row.secret
                                                 THEN @ ELSE @ \cup {row.secret}]]

-------------------------------------------------------------------------------
(* Registration.                                                           *)

\* Mutant: existing > client_max_per_owner.
CreateBeginOffByOne(w, o) ==
    /\ Cardinality(Owned(o)) <= MaxPerOwner
    /\ Start(w, "insert", o, 0, 0, None)
    /\ UNCHANGED <<clients, secrets>>

\* create_service_account_endpoint counts the owner's accounts (409 at the limit).
CreateBegin(w, o) ==
    /\ Cardinality(Owned(o)) < MaxPerOwner
    /\ Start(w, "insert", o, 0, 0, None)
    /\ UNCHANGED <<clients, secrets>>

\* Mutant: the row is stored with the hash of the secret generated before.
CreateOldSecret(w) ==
    /\ At(w, "insert")
    /\ Len(clients) < MaxClients
    /\ secrets < MaxSecrets
    /\ secrets' = secrets + 1
    /\ clients' = Append(clients, [owner |-> handler[w].owner, secret |-> secrets,
                                   active |-> TRUE, revoked |-> FALSE,
                                   replaced |-> {}, late |-> 0])
    /\ Finish(w)

\* create_client: a fresh secret; INSERT, COMMIT; the secret goes out with the answer.
Create(w) ==
    /\ At(w, "insert")
    /\ Len(clients) < MaxClients
    /\ secrets < MaxSecrets
    /\ secrets' = secrets + 1
    /\ clients' = Append(clients, [owner |-> handler[w].owner, secret |-> secrets + 1,
                                   active |-> TRUE, revoked |-> FALSE,
                                   replaced |-> {}, late |-> 0])
    /\ Finish(w)

-------------------------------------------------------------------------------
(* The client_credentials grant.                                           *)

\* oauth_token: the row is loaded, the secret presented is the one stored and the
\* account is usable (otherwise 401, or 400 for its scopes).
TokenBegin(w, c, secret) ==
    /\ c \in DOMAIN clients
    /\ secret = clients[c].secret
    /\ Usable(clients[c])
    /\ Start(w, "mint", None, c, 0, None)
    /\ UNCHANGED <<clients, secrets>>

\* create_client_access_token, after the signing key was read: the row is not looked
\* at again.  update_last_used writes nothing that matters here.
Mint(w) ==
    LET c == handler[w].client
    IN  /\ At(w, "mint")
        /\ clients' = [clients EXCEPT ![c].late = IF clients[c].revoked THEN @ + 1 ELSE @]
        /\ Finish(w)
        /\ UNCHANGED secrets

-------------------------------------------------------------------------------
(* Administration.                                                         *)

\* rotate_secret: the row is loaded and a secret generated.
RotateBegin(w, c) ==
    /\ c \in DOMAIN clients
    /\ secrets < MaxSecrets
    /\ secrets' = secrets + 1
    /\ Start(w, "rotate", None, c, secrets + 1, None)
    /\ UNCHANGED clients

\* rotate_secret, the COMMIT.
Rotate(w) ==
    /\ At(w, "rotate")
    /\ Store(w, [handler[w].loaded EXCEPT !.secret = handler[w].secret])
    /\ Finish(w)
    /\ UNCHANGED secrets

\* revoke_client: the row is loaded.
RevokeBegin(w, c) ==
    /\ c \in DOMAIN clients
    /\ Start(w, "revoke", None, c, 0, None)
    /\ UNCHANGED <<clients, secrets>>

\* revoke_client, the COMMIT.
RevokeCommit(w) ==
    /\ At(w, "revoke")
    /\ Store(w, [handler[w].loaded EXCEPT !.active = FALSE, !.revoked = TRUE])
    /\ Finish(w)
    /\ UNCHANGED secrets

\* update_client: the row is loaded.
UpdateBegin(w, c, patch) ==
    /\ c \in DOMAIN clients
    /\ Start(w, "update", None, c, 0, patch)
    /\ UNCHANGED <<clients, secrets>>

\* Mutant: switching an account on clears revoked_at.
UpdateClearing(w) ==
    LET account == handler[w].loaded
        is_active == handler[w].patch
    IN  /\ At(w, "update")
        /\ Store(w, [account EXCEPT !.active = IF is_active = None THEN @ ELSE is_active,
                                    !.revoked = IF is_active = None THEN @ ELSE ~is_active])
        /\ Finish(w)
        /\ UNCHANGED secrets

\* update_client, the COMMIT: switching an account off stamps revoked_at, switching it
\* on does not clear it.
Update(w) ==
    LET account == handler[w].loaded
        is_active == handler[w].patch
    IN  /\ At(w, "update")
        /\ Store(w, [account EXCEPT !.active = IF is_active = None THEN @ ELSE is_active,
                                    !.revoked = @ \/ is_active = FALSE])
        /\ Finish(w)
        /\ UNCHANGED secrets

-------------------------------------------------------------------------------
(* The environment.                                                        *)

\* A handler dies between two statements; what it has committed stays.
Abandon(w) ==
    /\ ~At(w, "idle")
    /\ Finish(w)
    /\ UNCHANGED <<clients, secrets>>

Step(w) ==
    \/ \E o \in Owners : CreateBegin(w, o)
    \/ Create(w)
    \/ \E c \in ClientIds :
        \/ \E secret \in SecretIds : TokenBegin(w, c, secret)
        \/ RotateBegin(w, c)
        \/ RevokeBegin(w, c)
        \/ \E patch \in BOOLEAN \cup {None} : UpdateBegin(w, c, patch)
    \/ Mint(w)
    \/ Rotate(w)
    \/ RevokeCommit(w)
    \/ Update(w)
    \/ Abandon(w)

Next == \E w \in Workers : Step(w)

Spec == Init /\ [][Next]_vars

-------------------------------------------------------------------------------
(* Properties.                                                             *)

\* Registrations that race overrun the limit per owner, but by less than the number
\* of handlers in flight.
OwnedBounded ==
    \A o \in Owners : Cardinality(Owned(o)) < MaxPerOwner + Cardinality(Workers)

\* Requests that passed the check of an account and are about to mint a token.
Minting(c) == {w \in Workers : handler[w].pc = "mint" /\ handler[w].client = c}

\* The promise of module Credentials: whatever handlers write back rows they had loaded
\* earlier, a secret that was replaced is not valid again (main.py, rotate-secret: "The
\* previous secret stops working immediately"), none is valid for two accounts, no
\* revocation is undone, and no request is admitted on a dead secret or a revoked account.
Promise == INSTANCE Credentials WITH
    Accounts <- ClientIds,
    Secrets <- SecretIds,
    valid <- [c \in DOMAIN clients |-> clients[c].secret],
    dead <- UNION {clients[c].replaced : c \in DOMAIN clients},
    revoked <- {c \in DOMAIN clients : clients[c].revoked},
    admitted <- [c \in ClientIds |-> Cardinality(Minting(c))]

ImplementsCredentials == Promise!Spec

\* A revocation is final, whatever is written to the account afterwards by handlers
\* that had loaded it before: no step undoes it, and the tokens the client got late and
\* those it will still get are never more than they were.
RevocationsLast ==
    [][\A c \in DOMAIN clients : clients[c].revoked =>
        /\ clients'[c].revoked
        /\ clients'[c].late + Cardinality(Minting(c)')
             <= clients[c].late + Cardinality(Minting(c))]_vars

\* So a revoked client gets no more tokens than there can be requests in flight when
\* its revocation is committed.
RevocationIsFinal ==
    \A c \in DOMAIN clients : clients[c].late <= Cardinality(Workers)

\* main.py, rotate-secret: "The previous secret stops working immediately".  It never
\* works again: no handler writes back the hash it happened to load, and no secret is
\* stored twice, in this row or in another.
NoSecretRevival ==
    \A c, d \in DOMAIN clients :
        /\ clients[c].secret \notin clients[d].replaced
        /\ c # d => clients[c].secret # clients[d].secret

-------------------------------------------------------------------------------
(* The bounds by the overlap that is met.                                  *)

\* The requests that passed the count of an owner's accounts and are about to insert.
Registering(o) == {w \in Workers : handler[w].pc = "insert" /\ handler[w].owner = o}

\* With k registrations of one owner in flight together at most, the limit is overrun
\* by less than k; k = 1 is what client_max_per_owner says.
RegistrationsWithin(k) == \A o \in Owners : Cardinality(Registering(o)) <= k
OwnedWithin(k) == \A o \in Owners : Cardinality(Owned(o)) < MaxPerOwner + k

\* No client is about to be revoked, or switched off, while it is about to be issued a
\* token, and none gets a token after its revocation.
GrantsApart ==
    \A v, w \in Workers :
        /\ handler[v].pc = "mint"
        /\ handler[w].pc = "revoke" \/ (handler[w].pc = "update" /\ handler[w].patch = FALSE)
        => handler[v].client # handler[w].client
NoLateTokens == \A c \in DOMAIN clients : clients[c].late = 0

===============================================================================
