----------------------------- MODULE SigningKeys -----------------------------
(***************************************************************************)
(* The signing_keys table: rotation, revocation, the key that signs an     *)
(* access token, and the two places that decide which keys still count,    *)
(* decode_token and the JWKS document.                                     *)
(*                                                                         *)
(* A handler is cut at its awaits, as in module Sessions: it may write     *)
(* what it computed from rows that have changed since.  An UPDATE carries  *)
(* the attributes that were assigned, whatever the row holds by then.      *)
(*                                                                         *)
(* Time is kept as ages: how long ago a timestamp was taken, up to the     *)
(* age from which nobody can tell the difference.  The grace window is a   *)
(* promise about time, so a request must end within some time of its first *)
(* read: Latency.  No timeout in the service enforces it.                  *)
(***************************************************************************)
EXTENDS Naturals, Sequences, FiniteSets

CONSTANTS
    Workers,    \* handlers in flight at once, over all replicas
    TokenTTL,   \* the longest access token lifetime (user or client), in ticks
    Grace,      \* crypto.ROTATING_OUT_GRACE, in ticks
    Latency,    \* ticks a handler stays in flight at most
    MaxKeys     \* bound: keys ever created

\* The lifetimes are settings, the grace window is not; nothing compares them.
ASSUME SigningKeysAssumption ==
    /\ IsFiniteSet(Workers)
    /\ TokenTTL \in Nat
    /\ Grace \in Nat
    /\ Latency \in Nat
    /\ MaxKeys \in Nat

VARIABLES
    keys,       \* signing_keys in the order they were created; kid = position
    handler     \* handler[w]: the request worker w is serving

vars == <<keys, handler>>

-------------------------------------------------------------------------------
(* Types.                                                                  *)

KeyIds == 1..MaxKeys

SigningKeyStatus == {"active", "rotating_out", "revoked"}

\* rotated is the age of rotated_at, kept while the key is rotating_out (nobody reads
\* it otherwise); revoked is that of revoked_at, if was_revoked says it is set.  `life'
\* is no column: it is how long the latest token signed with the key has to live.
SigningKey == [status : SigningKeyStatus, rotated : 0..(Grace + Latency + 1),
               was_revoked : BOOLEAN, revoked : 0..(Grace + Latency),
               life : 0..TokenTTL]

\* Where a handler will resume: about to insert a key, to sign, to commit the
\* retirement of the keys it loaded, to commit a revocation.
Points == {"idle", "create", "sign", "retire", "revoke"}

Idle == [op |-> "none", pc |-> "idle", key |-> 0, loaded |-> {},
         seen |-> "active", age |-> 0]

\* key is the SigningKey object held, seen the status it was loaded with; loaded
\* are the objects rotate_active_key is retiring; age is that of the first read, and
\* so of `now' in rotate_active_key and of revoked_at in revoke_key.
Handler == [op : {"none", "mint", "startup", "rotate", "revoke"}, pc : Points,
            key : 0..MaxKeys, loaded : SUBSET KeyIds, seen : SigningKeyStatus,
            age : 0..Latency]

TypeOK ==
    /\ keys \in Seq(SigningKey)
    /\ Len(keys) <= MaxKeys
    /\ handler \in [Workers -> Handler]

Init ==
    /\ keys = <<>>
    /\ handler = [w \in Workers |-> Idle]

-------------------------------------------------------------------------------
(* Queries.                                                                *)

Active == {k \in DOMAIN keys : keys[k].status = "active"}

\* The first row ORDER BY created_at DESC.
IsNewestActive(k) == k \in Active /\ \A j \in Active : j <= k

\* Mutant: a tick is taken off the grace window.
AcceptedTooShort(k) ==
    \/ keys[k].status = "active"
    \/ keys[k].status = "rotating_out" /\ keys[k].rotated + 1 < Grace

\* decode_token resolves k, before it looks at the signature.
Accepted(k) ==
    \/ keys[k].status = "active"
    \/ keys[k].status = "rotating_out" /\ keys[k].rotated < Grace

\* list_keys_for_jwks publishes k: its window includes the last instant.
Published(k) ==
    \/ keys[k].status = "active"
    \/ keys[k].status = "rotating_out" /\ keys[k].rotated <= Grace

-------------------------------------------------------------------------------
(* Steps the handlers are made of.                                         *)

At(w, point) == handler[w].pc = point

Start(w, op, point, k, loaded, seen) ==
    /\ At(w, "idle")
    /\ handler' = [handler EXCEPT ![w] =
                     [op |-> op, pc |-> point, key |-> k, loaded |-> loaded,
                      seen |-> seen, age |-> 0]]

Finish(w) == handler' = [handler EXCEPT ![w] = Idle]

-------------------------------------------------------------------------------
(* Signing.                                                                *)

\* get_active_signing_key, the SELECT, for a request that signs a token.
MintBegin(w) ==
    /\ \/ \E k \in Active : IsNewestActive(k) /\ Start(w, "mint", "sign", k, {}, "active")
       \/ Active = {} /\ Start(w, "mint", "create", 0, {}, "active")
    /\ UNCHANGED keys

\* lifespan: a replica starts and finds no active key (otherwise it has nothing
\* to do here).
StartupBegin(w) ==
    /\ Active = {}
    /\ Start(w, "startup", "create", 0, {}, "active")
    /\ UNCHANGED keys

\* create_signing_key: INSERT, COMMIT.
CreateKey(w) ==
    /\ At(w, "create")
    /\ Len(keys) < MaxKeys
    /\ keys' = Append(keys, [status |-> "active", rotated |-> 0,
                             was_revoked |-> FALSE, revoked |-> 0, life |-> 0])
    /\ IF handler[w].op = "mint"
         THEN handler' = [handler EXCEPT ![w].pc = "sign", ![w].key = Len(keys) + 1]
         ELSE Finish(w)

\* Mutant: the expiry is one tick past the lifetime.
SignTooLong(w) ==
    /\ At(w, "sign")
    /\ keys' = [keys EXCEPT ![handler[w].key].life = TokenTTL + 1]
    /\ Finish(w)

\* Mutant: signing writes the whole row back, as it was read.
SignWritesBack(w) ==
    /\ At(w, "sign")
    /\ keys' = [keys EXCEPT ![handler[w].key].life = TokenTTL,
                            ![handler[w].key].status = "active"]
    /\ Finish(w)

\* create_access_token signs with the object it holds, whatever became of the row.
\* The expiry counts from here, so it is the latest of this key.
Sign(w) ==
    /\ At(w, "sign")
    /\ keys' = [keys EXCEPT ![handler[w].key].life = TokenTTL]
    /\ Finish(w)

-------------------------------------------------------------------------------
(* Rotation.                                                               *)

\* rotate_active_key: the SELECT and `now'.
RotateBegin(w) ==
    /\ Start(w, "rotate", "retire", 0, Active, "active")
    /\ UNCHANGED keys

\* Mutant: the new key is inserted, the retirement of the old ones is not committed.
RetireKeysWithoutCommit(w) ==
    /\ At(w, "retire")
    /\ handler' = [handler EXCEPT ![w].pc = "create", ![w].loaded = {}]
    /\ UNCHANGED keys

\* Mutant: rotated_at is the time of the commit, not that of the read.
RetireKeysStampedLate(w) ==
    /\ At(w, "retire")
    /\ keys' = [k \in DOMAIN keys |->
                  IF k \in handler[w].loaded
                    THEN [keys[k] EXCEPT !.status = "rotating_out", !.rotated = 0]
                    ELSE keys[k]]
    /\ handler' = [handler EXCEPT ![w].pc = "create", ![w].loaded = {}]

\* rotate_active_key, the COMMIT: UPDATE ... SET status, rotated_at WHERE id.
RetireKeys(w) ==
    LET h == handler[w]
    IN  /\ At(w, "retire")
        /\ keys' = [k \in DOMAIN keys |->
                      IF k \in h.loaded
                        THEN [keys[k] EXCEPT !.status = "rotating_out",
                                             !.rotated = h.age]
                        ELSE keys[k]]
        /\ handler' = [handler EXCEPT ![w].pc = "create", ![w].loaded = {}]

-------------------------------------------------------------------------------
(* Revocation.                                                             *)

\* revoke_key: get_key_by_kid (404 for an unknown kid).
RevokeBegin(w, k) ==
    /\ k \in DOMAIN keys
    /\ Start(w, "revoke", "revoke", k, {}, keys[k].status)
    /\ UNCHANGED keys

\* revoke_key, the COMMIT: status is in the UPDATE only if it was assigned a value
\* other than the one loaded; revoked_at always is.
RevokeKey(w) ==
    LET h == handler[w]
    IN  /\ At(w, "revoke")
        /\ keys' = [keys EXCEPT
                      ![h.key].status = IF h.seen = "revoked" THEN @ ELSE "revoked",
                      ![h.key].rotated = IF h.seen = "revoked" THEN @ ELSE 0,
                      ![h.key].was_revoked = TRUE,
                      ![h.key].revoked = h.age]
        /\ Finish(w)

-------------------------------------------------------------------------------
(* The environment.                                                        *)

\* A handler dies between two statements; what it has committed stays.
Abandon(w) ==
    /\ ~At(w, "idle")
    /\ Finish(w)
    /\ UNCHANGED keys

Older(age, cap) == IF age < cap THEN age + 1 ELSE age

\* Time passes, unless some handler is due.
Tick ==
    /\ \A w \in Workers : ~At(w, "idle") => handler[w].age < Latency
    /\ handler' = [w \in Workers |->
                     IF At(w, "idle") THEN handler[w]
                     ELSE [handler[w] EXCEPT !.age = @ + 1]]
    /\ keys' = [k \in DOMAIN keys |->
                  [keys[k] EXCEPT
                     !.rotated = IF keys[k].status = "rotating_out"
                                   THEN Older(@, Grace + 1) ELSE @,
                     !.revoked = IF keys[k].was_revoked
                                   THEN Older(@, Grace + Latency) ELSE @,
                     !.life = IF @ > 0 THEN @ - 1 ELSE 0]]

Step(w) ==
    \/ MintBegin(w)
    \/ StartupBegin(w)
    \/ CreateKey(w)
    \/ Sign(w)
    \/ RotateBegin(w)
    \/ RetireKeys(w)
    \/ \E k \in KeyIds : RevokeBegin(w, k)
    \/ RevokeKey(w)
    \/ Abandon(w)

Next == (\E w \in Workers : Step(w)) \/ Tick

Spec == Init /\ [][Next]_vars

-------------------------------------------------------------------------------
(* Properties.                                                             *)

\* The age of the latest token signed with k, while that token lives.
TokenAge(k) == TokenTTL - keys[k].life

\* crypto.py: a rotated key is "still served in the JWKS for the grace window so
\* in-flight tokens stay verifiable".  As long as nobody revoked its key, a token
\* that has not expired is accepted by decode_token and its key is published, also
\* when it was signed by a handler that had read the key before the rotation.  The
\* promise ends when the token is as old as the grace window less the time that
\* handler and the rotation may have taken, which no check of the settings puts
\* beyond the life of the token.
YoungTokensVerify ==
    \A k \in DOMAIN keys :
        /\ keys[k].status # "revoked"
        /\ keys[k].life > 0 /\ TokenAge(k) + 2 * Latency < Grace
        => Accepted(k) /\ Published(k)

\* The same for every token until it expires: what is meant, and what lifetimes that
\* fit in the grace window get.
UnexpiredTokensVerify ==
    \A k \in DOMAIN keys :
        keys[k].status # "revoked" /\ keys[k].life > 0 => Accepted(k) /\ Published(k)

\* Rotations, first requests and starting replicas that race may leave several keys
\* active, but never more than there are handlers in flight: rotation retires every
\* active key it finds, not only the newest.
ActiveKeysBounded ==
    Cardinality(Active) <= Cardinality(Workers)

\* A rotation that overlaps a revocation may bring the revoked key back as
\* rotating_out; even so the key is dead for good one grace window (and the time a
\* handler may take) after its revocation.
RevokedKeyDies ==
    \A k \in DOMAIN keys :
        keys[k].was_revoked /\ keys[k].revoked = Grace + Latency => ~Accepted(k)

\* No handler, however stale the objects it writes, makes a retired or revoked key
\* active again.
NoReactivation ==
    [][\A k \in DOMAIN keys :
        keys[k].status # "active" => keys'[k].status # "active"]_vars

-------------------------------------------------------------------------------
(* Statements of the documentation.                                        *)

\* main.py, description of DELETE /auth/admin/signing-keys/{kid}: "Tokens signed
\* with that kid stop validating immediately".
RevokedStaysRevoked ==
    [][\A k \in DOMAIN keys :
        keys[k].status = "revoked" => keys'[k].status = "revoked"]_vars

\* Nobody revokes a key that a rotation has loaded and not yet retired.
RevocationsApart ==
    \A v, w \in Workers :
        At(v, "revoke") /\ At(w, "retire") => handler[v].key \notin handler[w].loaded

===============================================================================
