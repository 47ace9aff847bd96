# Verification of the auth service

This directory holds TLA+ models of the authentication and authorization
service in `src/src/accelerator_pack_auth_service`, the TLC configurations that
check them on small instances, and proofs that TLAPS checks for all instances.
`PROJECT.json` is the machine-readable index: which module models which
component, which lines each definition stands for, which mutation of the code
each property detects, and which hazards are covered by what.

    tlc -config Sessions.cfg MCSessions      # check one configuration
    tlapm SessionsProofs.tla                 # check the proofs of one module

## The system

The service is a FastAPI application (`main.py`) over an asynchronous SQLAlchemy
engine (`database.py`). All durable state is in the tables of `models.py`; a
process keeps only caches. Every endpoint is a coroutine that owns a database
session, several run in one process, and several replicas share the database.
Nothing takes a row lock and no handler retries, so what one handler read may
be stale in each of its later statements. That is where the hard behaviour is:
the functions are short, and what can go wrong needs two of them.

| Component | State | Operations | Interacts with |
|---|---|---|---|
| Session store (`auth.py`, `main.py`) | `users.is_active`, `refresh_tokens`, `token_blacklist` | register, login, refresh, logout, revoke, deactivation, SCIM deprovisioning | signs with a key of the key store, is entered through lockout or SSO, stamps scopes |
| Signing keys (`crypto.py`) | `signing_keys` | creation at start-up or first use, rotation, revocation, signing, resolving a `kid`, JWKS | read by every mint and by every authenticated request |
| Account lockout (`auth.py`) | `failed_login_attempts` | count, record, clear | gates login |
| SSO sign-in (`sso_service.py`, `main.py`) | `identity_providers`, `sso_state`, `external_identities`, `users` | authorize, callback, token exchange, just-in-time provisioning, linking | calls the provider, ends in the session store, assigns roles by claim mappings |
| Service accounts (`clients.py`, `main.py`) | `service_accounts` | registration, secret rotation, revocation, patching, `client_credentials` grant | signs with a key of the key store |
| Roles and permissions (`permission_service.py`, `scopes.py`, `main.py`) | `users.role`, `roles`, `role_permissions`, `user_roles` | role CRUD, permission replacement, assignment, runtime check, scope claim | read by every check and by every mint |
| Claim mappings (`sso_service.py`, `main.py`) | `claim_role_mappings` | create, delete, match and assign | writes `user_roles` during SSO |
| Identity provider caches (`sso_service.py`) | dictionaries and locks per process | discovery, JWKS, client-credentials token | filled and used by SSO |
| SCIM users (`scim_service.py`, `main.py`) | `users` | create, replace, deactivate, delete | deprovisioning reaches the session store; an account made by SCIM counts as the first one |
| Start-up (`main.py`, `permission_service.py`, `database.py`, `alembic/`) | all tables | migration, seeding of permissions, roles and grants, the first key | the replicas meet in the database before any of them serves |
| Audit log (`auth.py`) | `audit_logs` | record, query, export, purge | follows nearly every change, in a transaction of its own |
| Groups, collection permissions, HTTP surface, configuration | | | |

What makes each correct:

* **Sessions.** A rotated refresh token is dead before its replacement exists; a
  revoked token never comes back, whatever stale object is flushed; a logout or
  deprovisioning leaves no earlier session alive; the session limit
  evicts the oldest and is overrun by no more than the sign-ins that overlap.
* **Signing keys.** A rotation breaks no token in flight that is younger than the grace
  window less the time two requests take; a revocation ends a key's life; the number of
  active keys stays small.
* **Lockout.** Concurrency buys only a bounded number of extra guesses, and a
  lock lifts.
* **SSO.** A round trip signs in the user its identity is linked to and nobody
  else; each sign-in is paid for by one code of that round trip.
* **Service accounts.** A replaced secret and a revoked account stay dead,
  although patches are committed over rows loaded earlier; a token goes only to a request
  that presented the valid secret of an account that was not revoked by then.
* **Authorization.** Gate and scope claim grant only what was held, agree with
  each other and with the roles, and a removed permission is gone.
* **Provider caches.** However fetches overlap, no request uses a document that was
  replaced a whole lifetime of an entry ago, a bearer that is about to expire, or one
  that another client secret earned.
* **Start-up.** Replicas that start side by side, collide, crash and start again come to
  serve, with everything seeded; what they can seed twice is bounded by their number.
* **Accounts and claim mappings.** The first account and nobody later becomes the
  administrator, but for registrations that race; sign-ins assign a role twice at
  most as often as they overlap; nothing is recorded in the audit log that was not done, and a
  change without a record is explained by a request that ended before it wrote one.

The hazards, with the line at which each bites and the properties that cover it,
are in `PROJECT.json` under `hazards`.

## How code becomes actions

* **A handler is cut at its awaits.** One action runs from one statement (or
  commit) to the next; `handler[w].pc` names the statement worker `w` will run
  next and the other fields are the locals it carries over. Any other handler
  of any replica may run in between. `Workers` bounds how many are in flight.
  Consecutive awaits that neither read nor write shared rows are one action.
* **Isolation is READ COMMITTED**, the default of PostgreSQL and Oracle: a
  statement sees what is committed when it runs, a commit publishes at once.
* **Objects are stale on purpose.** The session factory sets
  `expire_on_commit=False`, so an object keeps the values it was loaded with,
  and a flush writes the attributes whose value differs from the loaded one,
  over whatever the row holds by then (`Store` of `Clients`, `RetireKeys` of
  `SigningKeys`).
* **Foreign keys are enforced.** Deleting a provider deletes its states and
  links. (Under SQLite the engine never enables the pragma that does this; the
  models speak of PostgreSQL and Oracle.)
* **A handler may stop at any await** (`Abandon`, `End`, `Die`): the process dies, the
  client goes away, an exception becomes a 500. What it committed stays.
* **A process may die** (`Restart`, `Crash`). Its memory is gone: the caches of
  `ProviderCaches`, the open transaction of a start-up, the requests it served. What is
  committed stays, and the process is started again.
* **A unique key is judged at the commit.** An INSERT waits for another transaction that
  has inserted the same key; all replicas seed in the same order, so that no cycle of
  waits arises and the outcome is known when the first one commits (`NameTaken`,
  `GrantTaken` of `Startup`).
* **Time** is a clock bounded by `MaxNow` in `Sessions` and `ProviderCaches`. Elsewhere rows carry
  ages that stop growing where no query can tell the difference any more, so
  that time is unbounded in those models.
* **Ghost state** is named as such where it is declared: `parent`, `password` and `since`
  in `Sessions`, `life` in `SigningKeys`, `signins` in `SsoFlow`, `replaced` and
  `late` in `Clients`, `held`, `quiet` and `others` in `Authorization`, the
  times in `published` in `ProviderCaches`, `late` in the requests of
  `Directory` and `lost` there (the changes whose request ended before it recorded them), and `crashes`,
  which only its bound reads. No guard of a handler reads any of it.
* Definitions whose comment begins with "Mutant:" are deliberate mistakes. No
  specification uses them; each is the mutation that a property must detect.

## The modules

**`Sessions`** models the whole session store. `account`, `tokens` with `revoked`,
and `blacklist` are the three tables; one index stands for a refresh token and
the access token minted with it. `RegisterBegin` to `Issue` is the sign-in
(count, evict, stamp, commit: `enforce_session_limit` and its callers). A row gets its
`created_at` when the INSERT is flushed (`StampToken`) and is seen by others from its COMMIT on
(`Issue`), so that rows appear out of the order of their stamps. `RefreshBegin`,
`RotateToken`, `ReloadUser`, `StampToken`, `Issue` are the rotation, `LogoutBegin`, `BlacklistToken`,
`SweepRead`, `SweepCommit` the logout, with deactivation and deprovisioning sharing the sweep.
**`SessionLifecycle`** is the abstract promise about one refresh token: born live,
owned by one user for good, retired at most once, succeeded only after it was
retired. `Sessions` implements it under the mapping `owned <- user of each row`,
`predecessor <- parent`, `retired <- revoked`.

**`SigningKeys`** models `crypto.py` and its callers: a mint reads the newest active
key and signs later (`MintBegin`, `Sign`), start-up and an empty table create one,
a rotation loads the active keys, creates a new one and retires what it loaded
(`RotateBegin`, `CreateKey`, `RetireKeys`), a revocation loads and commits.
`Accepted` is the window of `decode_token`, `Published` that of the JWKS, which
differ at the last instant.

**`Lockout`** models one e-mail's failed attempts and the sign-ins that check,
verify, and only then record or clear. Addresses do not meet in the code.

**`SsoFlow`** models providers, states, links and users, and the token exchange as
nine points: read the state, burn it, redeem the code, look the link up, touch it
or find, insert and link the user, issue. A code is the ID token it stands for
(nonce, subject, e-mail); the provider takes each once. A caller may combine any
state with any code handed out: the checks of the code are what keeps them apart.

**`Clients`** models the service accounts: registration (count, insert), the grant
(load and verify, sign), and rotation, revocation and patching, each of which loads
a row and commits later. **`Credentials`** is the abstract promise: an account has one
valid secret, a secret is valid for one account and once only, a revocation is final, and
only a request with the valid secret of an account not yet revoked is admitted to a token.
`Clients` implements it under the mapping `valid <- secret of each row`,
`dead <- replaced`, `revoked <- the rows that are revoked`, `admitted <- the requests past
the check and before the signature` (`Minting`): the INSERT is `Register`, the commit of a
rotation `Replace`, that of a revocation or of a patch over one `Revoke` or a stutter, the
check of the grant `Admit`, the signature or an abandoned request `Settle`.

**`Authorization`** models the two answers and the administration they race with.
A check reads the assignments in one statement and the legacy role's permissions
in another; a token is issued with the scope claim built from a user loaded
earlier; a replacement of permissions is a DELETE of the rows it saw and an
INSERT, in one transaction that waits for another deleting the same rows. `SeedAgain` is what
the race of `Startup` leaves behind: a second row of a system role with the same permissions,
at which the second statement of the check raises (`CheckSystem`).

**`ProviderCaches`** models one process and one provider. `discovery`, `jwks` and
`bearers` are the three dictionaries. A request is `Discover`, `AnswerDiscovery`,
`StoreDiscovery` (`discover_oidc_metadata`), `Exchange` (the provider signs an ID token
with its newest key), `LookupJwks`, `AnswerJwks`, `StoreJwks` (`_fetch_jwks`), and for a
gated key set `LookupBearer`, `AnswerBearer`, `StoreBearer`, `RetryJwks`
(`_client_credentials_token` and the second GET). Between a look-up and the store the
lock is free: others look up, fetch and store. Documents are reduced to their version and
the time it was published (`Publish`); a key set of version `n` holds the keys `n` and
`n - 1`. `RotateSecret` is `update_provider`.

**`Startup`** models the `lifespan` of each replica: `Start` reads the version of the
schema, `Upgrade` migrates in one transaction (PostgreSQL), `CreateObjects` and `Stamp`
commit each statement (Oracle), `ReadPermissions` to `Seeded` are the statements and
commits of `seed_roles_and_permissions`. The engine matters for two things: whether a
migration is atomic, and whether `uq_role_tenant_name` binds a system role, whose tenant
is NULL. `Fail` is a start-up that raises, `Crash` the death of a process; both leave a
replica that `Start` takes up again. **`Directory`** extends it with the requests the
replicas serve once they are up: `Register` and `CountUsers` (the first account),
`ScimCreate`, `Provision` and `SignIn` (`jit_provision_user`), `InsertUser`;
`ReadMappings`, `Consider` and `CommitRoles` (`apply_claim_mappings`); `AssignRole` and
`RemoveRole`, which write `user_roles` without a look at what is there, as an administrator does;
`CreateMapping`, `RefreshMapping`, `LogAudit` (`create_claim_mapping`: the COMMIT, the `db.refresh`
that raises if the row is gone, the record) and `FindMapping`, `DropMapping`, `LogAudit`
(`delete_claim_mapping`: two can find one row, and both go on). `assigned` counts the rows of
`user_roles` that sign-ins added, `given` are those of administrators; a sign-in sees both
(`Assignments`). `Abandon` is a request that fails alone, the COMMIT of `log_audit` included,
`Die` a `Crash` that takes the replica's requests along. Every step of `Serve` needs the replica of its
worker to serve, and a mapping needs a row of the role it names, so the two modules are
one system.

`MC*` modules give the constants model values and the symmetry sets; the
`*Proofs` modules hold the theorems. The components meet at named points rather
than in one product, which TLC could not explore: `Lockout` ends where
`LoginBegin` of `Sessions` starts, `SsoFlow` ends where `SsoBegin` starts,
`Sign` of `SigningKeys` and `Mint` of `Clients` are the signature, which
`Sessions` takes as given, `exchange_oidc_code` of `ProviderCaches` is what `SsoFlow`
calls the redemption of a code, the sign-in of `Directory` ends in the assignments that
`Authorization` reads, and the key a start-up makes is `CreateKey` of `SigningKeys`.

## The runs

| Run | Bounds | What it shows |
|---|---|---|
| `Sessions` | 1 user, 2 handlers, limit 2, 3 token pairs, 1 tick, all operations | Every operation against every other at every await: the refinement of `SessionLifecycle`, rotation order, what a sweep covers, which sessions the limit gives up, in which order and by how many it is overrun, how often one refresh token is exchanged |
| `SigningKeys` | 2 handlers, lifetime 2, grace 3, latency 1, 3 keys | Which tokens the grace window covers, with a lifetime that is too long for all of them; revoked keys die; active keys are few; none is reactivated |
| `Lockout` | threshold 2, window 2, 3 sign-ins | The number of wrong guesses in one window, and that a lock lifts |
| `SsoFlow` | 1 provider, 1 subject, 3 e-mails, 2 states, 3 codes, 2 handlers | Whom a sign-in signs in; how often a state and a code admit one |
| `Clients` | 1 owner, limit 1, 3 accounts, 4 secrets, 2 handlers | The refinement of `Credentials`: stale commits revive neither a secret nor an account; what a revoked client can still be issued only shrinks |
| `Authorization` | 2 permissions, 2 legacy and 2 custom roles, 2 assignments, 2 requests, system roles with a second row | Answers were held, agree and are exact; removed permissions go |
| `ProviderCaches` | 2 requests, entries live 2 ticks, margin 1, bearers live 0 to 2, clock up to 2, 2 secrets, a provider that changes its documents | How old a document in use can be; which bearers are handed out and to whom |
| `Directory` | 2 replicas with 1 request each, both engines, 1 revision, a pack of 2 roles and 2 permissions, 1 crash, 2 e-mails, 1 mapped role, 1 mapping, 1 row of an administrator | What is seeded twice and what a serving replica finds; that every replica comes to serve; first administrators; double assignments; what the audit log misses, and that it has nothing that was not done |

Four runs are expected to fail. Each checks one sentence of the repository's
documentation, which the code does not keep:

| Run | Sentence | What happens |
|---|---|---|
| `RefreshSingleUse` | "so each refresh token is single-use" (`main.py:693`) | Two refreshes that both read the row before either commits both win a successor |
| `InactiveSso` | "immediately preventing further access" (`docs/scim.md:230`) | With a single handler: a user deleted by SCIM signs in by SSO and is issued tokens, because the exchange never looks at `is_active` (the access token is refused by `get_current_user`) |
| `RevokedKeyReturns` | "Revocation removes a key from the JWKS immediately" (`crypto.py:8`) | A rotation that loaded the key while it was active writes `rotating_out` over `revoked` |
| `SharedPermission` | "A user inherits all permissions from all their assigned roles" (`docs/rbac.md:9`) | A permission that two assignments share makes two rows and `scalar_one_or_none` raises |

Each of the four sentences has a theorem that says when it does hold: `SingleUse`,
`InactiveRefused`, `RevocationHolds` and `Inheritance` (below, "Where a sentence holds").

*Why the bounds are enough.* No statement of the session store, of lockout or of
the runtime check relates two users, so one is enough there; the handlers of one
user are what races. Two handlers reach every pairwise interleaving; where a count
is overrun by the concurrency, three show that the bound grows as stated. Three
tokens are a sign-in, a successor and a rival, and let the limit of two be reached and
overrun. Three keys are a retired, an active and a
rival one; with a lifetime of 2 and a grace of 3 an unexpired token can both be inside
and outside of the window, as it can where
`access_token_expire_minutes` is set high. Three e-mails let the claim change twice and meet an account that
exists already; two states and three codes allow a replay and a mix-up; with one
provider, deleted and inactive providers are covered but not a state presented to
another provider (two providers were checked once with two e-mails and take too
long to be kept). Three accounts, at a limit of one, are reached by two
registrations that race and by a third later. A clock of two ticks lets an entry of the
provider's caches live, expire and be replaced; the expiry and the margin are compared
with it, so that a lifetime of a bearer longer than the margin, one as long and one shorter are
all there. Two replicas
collide in every pair of statements of the start-up, and two roles make one commit carry
the grants of the role before; one crash at each place is what a restart must cope with,
and the theorems lift all of these bounds. One mapping, made and deleted once, meets two
deletions, a creator that reads it back and sign-ins that read it; one row of an administrator
is what puts a second row beside one of a sign-in.

*Views.* Four configurations identify states that no property and no later step can tell
apart, by a `VIEW` that is defined and explained in the MC module. `Seen` (`MCSessions`) forgets which
password sign-in a handler serves once the user is inserted, when it counted once the eviction is
committed, what of a sweep is revoked by now, and how a revoked token was come by: nothing is
unrevoked, and the properties read these of unrevoked tokens and earlier points only.
`View` (`MCAuthorization`) keeps of what was held what may be granted, and of an answer that
administration raced with only whether it was held. `View` (`MCDirectory`) keeps of an account whether it is
an administrator, one form of each request that can change nothing any more, and of `audit` and
`lost` what a gap depends on. It holds every variable of `Startup`, which is all that the fairness
and `StartupsSucceed` speak of, so that liveness is unaffected. `LiveCaches` (`MCProviderCaches`) takes entries
that are no longer usable as alike. `RefreshSingleUse` and `InactiveSso` leave out the
operations of `PATCH` (`NoPatches`), `SharedPermission` uses no view.

Workers, and values the code only
compares for equality, are symmetric sets where no temporal property is checked
that the symmetry could upset; `Lockout` and `InactiveSso` use none.

*What "deadlock" means.* Deadlock is checked in every run. Each handler may be
abandoned, and a clock, an administrator or a new request can always run; no
handler waits for another except a replacement of permissions for a second one on
the same rows, and an INSERT for the transaction that inserted its key, both of which
always end.

*Fairness.* `Lockout` states `WF_vars(Tick)`: time passes. `Directory` states weak fairness
of `Boot(r)` for each replica: a process that can run does, and one that is down is started
again, which is what a Kubernetes deployment (the repository's `README.md:105`, `replicas: 2`) does with a
container that exits. Nothing obliges a client to go on with a request or to sign in again,
and no fairness is assumed of requests, crashes or the provider. `StartupsSucceed` leaves
out exactly the two cases from which no restart leads back: a system role that PostgreSQL let be
doubled (`Doubled`), and a migration that a crash left half-way on Oracle
(`HalfMigrated`). Everything else is about safety and checked without fairness.

*Assumptions.* `SigningKeysAssumption` gives the constants their types and does not relate them, since
nothing in `config.py` keeps `access_token_expire_minutes` below the 24 hours of `ROTATING_OUT_GRACE`. That twice the time a
request may take, plus the longest lifetime, fit into the window
(`2 * Latency + TokenTTL <= Grace`, as the defaults of 15 and 60 minutes amply do) is a
hypothesis of `GraceCoversTokens` alone. `Latency` is an assumption on the
deployment: no timeout in the service bounds a request. `StartupAssumption` takes over what
`PackAuthModel` validates, that grants are of permissions the pack has, and adds that its roles
are distinct, as those of the registered packs are.
`DirectoryAssumption` says that finitely many requests are in flight, each served by one replica.

## What is proved

TLAPS checks these for every value of the constants: any number of users, handlers,
tokens, keys and so on. The only assumptions are the named `ASSUME`s of the modules.

* **`SessionsProofs`**: `TypeCorrectness`, `RotationSafety`, `SweepSafety`, `Refinement`,
  `EvictionOrder`, `LimitEnforced`, `OverrunBound`, `LiveOnlyAtCap`, `ReuseBound`. The first invariant is `SessionsInv`: types,
  `ParentRetired`, and `SafeHandler` of each handler. None of the parts is inductive alone: a
  commit writes rows that a handler loaded steps before, so even the types need to know that
  what it holds are rows of its user. The argument is that the tables only grow (`Grows`: rows
  are neither taken away nor given to another user, revocation and blacklisting are final),
  so what a suspended handler relies on stays true (`SafeIsStable`), and the one handler
  that moves establishes its next point (`StepIsSafe`). The refinement then maps `Issue`
  to `Open`, every commit of revocations to `Retire`, and all else to a stutter. `LimitInv`
  adds that what a sign-in counted only shrinks, so that what it leaves of it is younger than what
  it evicts and less than the limit. That is not the whole order, since a row can be stamped before
  the count and committed after it. `OvertakeInv` counts, for each token, those of its user that are
  stamped earlier and committed later, with the handlers that are about to commit such a one: when the
  token was committed they were the handlers at that point, and a stamp taken afterwards is not
  earlier (`StampsPast`). `OverrunInv` says that at the latest count that left a trace there were fewer
  sessions of passwords than the limit, and that each handler has stored at most one since. `LiveOnlyAtCap` needs that a handler
  holds no rows before it counts (`LoadedInv`): what it keeps is younger than what it gives up, so
  that with an unexpired session given up there is a whole limit of them. `ReuseInv`
  counts, for each refresh token, its successors and the refreshes that got past its check.
* **`SigningKeysProofs`**: `TypeCorrectness`, `YoungTokens`, `GraceCoversTokens`, `RevocationSticks`, `ActivationIsFinal` from
  `KeysInv`, and `FewActiveKeys` from `RoomInv`. `KeysInv` adds up ages: for a retired key, the time
  since its retirement is at most the age of its latest token and twice the latency,
  because a handler that signs late read the key before it was
  retired; a key that came back after its revocation was retired about then. Hence a token
  verifies while its age and two latencies stay below the window, whatever its lifetime, and, where
  the lifetime fits into what is left, until it expires. `RoomInv`
  counts the active keys together with the handlers that are about to create one.
* **`LockoutProofs`**: `TypeCorrectness` and `GuessBound`. `LockoutInv` counts a sign-in from the
  moment it passes the check, since it may become a failure.
* **`SsoFlowProofs`**: `TypeCorrectness`, `SignInSafety`, `StateReuse`, `Authenticity`, `LinkStability`. In
  `SsoInv`, a handler past the lookup carries its link (or its provider is gone), and
  each state counts, besides the sign-ins it admitted, the handlers that may still sign
  in on it, against the handlers there are and against the codes redeemed for it. A
  live state has signed nobody in and nobody is past its deletion, which is why a
  handler that still finds the row does not break the first count.
* **`ClientsProofs`**: `TypeCorrectness`, `OwnerLimit`, `Refinement`, `RevocationDrains`, `RevocationSafety`,
  `SecretSafety`, for every limit and number of handlers. `ClientsInv` counts the registrations that passed the check with
  the accounts there are (`OwnerInv`), the tokens about to be minted with those minted late
  (`LateInv`), and keeps a secret that was generated but not stored apart from everything
  any account knows or knew (`SecretInv`). `StoreOverwrites` is the heart: an UPDATE of
  the changed attributes may set `revoked` but not clear it, and writes the row's own secret or
  the handler's new one, never the one loaded. The refinement needs all of it: the secret a
  `Replace` brings is fresh because of `SecretInv`, and `Revoke` or a stutter is all that a
  patch can be because it clears nothing. `RevocationDrains` is about steps: once the row
  is revoked no grant passes the check, so that late tokens and those to come only change places.
* **`AuthorizationProofs`**: `TypeCorrectness`, `AnswerSafety`, `Agreement`, `Removal`. In
  `AuthorizationInv` each request carries what its later statements rely on: until there is an
  answer, what the user has now and what the loaded role gives are among what was held
  (`Sound`); if nothing has been administered since, what was read is what there is (`Exact`);
  a role under replacement has no rows but those the DELETE saw and those that others
  stored since (`Replacing`).
* **`ProviderCachesProofs`**: `TypeCorrectness`, `Staleness`, `Refusals`, `BearerMargin`,
  `BearerSecret`. `CachesInv` says of each entry what the request that stored it knew: its
  version was current no earlier than the look-up its expiry is counted from
  (`EntryFresh`), and a bearer is kept under the secret that earned it and lives past its
  entry by the margin (`BearerKept`). `Refusals` is a consequence that no run checks: the
  newest key of a provider is refused only within one lifetime of an entry after its
  publication.
* **`DirectoryProofs`**: `TypeCorrectness`, `RoleRows`, `Seeding`, `FirstAdmins`, `Assignment`,
  `AuditGaps`, for any number of replicas, revisions, roles, accounts, requests and
  crashes. `StartupInv` ties what a start-up remembers to the tables: the revision it read is
  not ahead of the schema, and for every role before its place there is a row that has all its
  permissions once its own transaction is committed (`SafeMigration`, `SafeSeeding`; the
  tables only grow, so this is stable). Rows of a role are counted together with the replicas about to
  insert one, which is why a start-up that fails or dies adds nothing. `DirectoryInv` does the same
  for administrators with the registrations that found no account and for assignments with the
  sign-ins about to add one, whatever administrators do to the rows meanwhile. `AuditInv`, its last
  part, says of a request between a commit and its record that its mapping was made, or deleted,
  so that what it records is a fact and what it leaves unrecorded is noted. That a registration which found an account makes no administrator needs that
  accounts are never taken away (a `DELETE` deactivates).

*Where a sentence holds.* Much of what the documentation promises is true of requests that
do not overlap, and the theorems above give only what overlap leaves of it. The following say
the former, in the form `Spec /\ []Apart => []Promise`: `Apart` names the overlap that must
not happen, for the requests in question only, while all others interleave as they like.
Each hypothesis is a state predicate defined beside the promise and leaves the requests
themselves possible, one after the other; each promise is false without it, which the runs that
expect a violation show for four of them. (`Inheritance` excepts a role that was seeded twice, where
the check raises in any case.)

| Theorem | Promise | as long as |
|---|---|---|
| `SingleUse` | `RefreshTokenSingleUse` (`main.py:693`) | no two refreshes with one token are in flight together |
| `SessionCap` | `SessionsCapped`: never more unrevoked refresh tokens than the limit (`docs/configuration.md:51`) | sign-ins and refreshes of one user do not overlap, and SSO is not used |
| `InactiveRefused` | `NoTokensForInactiveUser` (`docs/scim.md:230`) | no account is switched off between the check and the answer of its user's sign-in, and SSO is not used |
| `EvictionsByOverlap` | an eviction spares fewer than `k` sessions older than one it gives up (`docs/configuration.md:51`: the oldest are revoked) | at most `k` tokens of a user between stamp and commit |
| `RevocationHolds` | `RevokedStaysRevoked` (`crypto.py:8`) | nobody revokes a key that a rotation has loaded and not committed |
| `StateOnce` | `StateSingleUse` (`sso_service.py:582`) | no two exchanges on one state are in flight together |
| `PromptRevocation` | `NoLateTokens`: no token after the revocation | no request for a token is past its check when its client is about to be revoked |
| `Inheritance` | `InheritsFromAllRoles` (`docs/rbac.md:9`) | no permission reaches the user by two assignments, and start-up has not seeded the legacy role twice |
| `LoneStartups` | `NoStartupRaises`: a start-up ends early only if killed, or by a migration cut short | replicas are started one at a time |
| `GuessesByOverlap` | fewer than `Threshold + k` wrong passwords | at most `k` sign-ins in flight together |
| `OwnersByOverlap` | fewer than `MaxPerOwner + k` accounts of an owner | at most `k` of its registrations between count and insert |
| `RoleRowsByOverlap` | at most `k` rows of a role | at most `k` start-ups in flight together, however many replicas and restarts |
| `FirstAdminsByOverlap` | at most `k` first administrators | at most `k` registrations in flight together |
| `AssignmentByOverlap` | at most `k` rows of one role from sign-ins, whatever administrators add | at most `k` sign-ins of an account in the mappings together |

`EvictionsByOverlap` and the last five hold for every `k`; with `k = 1` they are the promise itself, and with the number of
handlers the bound that a run checks. The invariants are those of the bounds, strengthened by
what a suspended request can rely on when its rivals are absent: `SingleUseInv` (a
refreshing handler's token has no successor), `CapInv` (with what it is about to give up, a sign-in
has room), `ActiveInv` (past the check the account is active), `RevocationInv` (no rotation
holds a revoked key), `OnceInv`, `PromptInv`, `LoneInv` (what a start-up has read is
still so). In a proof the hypothesis is one more fact of every step.

## What is only model-checked

`LockLifts` and `StartupsSucceed`: liveness under fairness is out of the prover's reach, and
`Doubled` and `HalfMigrated`, the two cases that `StartupsSucceed` leaves out, are known to be the
only ones from that run alone. Every other property of a passing run is a theorem.

## What is not modelled, and why

* **Groups and SCIM groups.** Nothing evaluates a group role, so no other component depends
  on a membership; its handlers are single inserts, deletes and reads.
* **Collection permissions.** One table of one pack, read by nothing else.
* **Scopes of service accounts**, `expires_at`, names: they decide whether a request
  is refused and leave no other trace.
* **The audit log** beyond the write that follows the change of a mapping: the other callers of
  `log_audit` have the same shape, `AssignRole` and `RemoveRole` among them, whose records are left
  out. Query and export read, the purge deletes by age, and no decision depends on them.
* **HTTP surface**, schemas and configuration parsing have no state of interest; limits
  and lifetimes are constants of the modules. The pool and sessions of **the
  database** appear as the granularity of every module. Cryptography is taken to work: a
  token verifies exactly if its key is accepted.
* Priorities and patterns of claim mappings: every mapping that matches is applied, so only
  the set of roles they lead to counts, and whether a claim matches is a constant.
* SAML: the repository's documents speak of it, the source has no handler for it.

## Divergences seen without a run

These were met while reading; each is either visible in one line or outside the models.

* `docs/configuration.md:51` calls `max_concurrent_sessions` the maximum number of active refresh
  tokens of a user (`SessionsCapped`). SSO sign-ins are not counted: `issue_sso_tokens` never calls
  `enforce_session_limit`. Nor does it hold of password sign-ins that overlap; `OverrunBounded`
  says by how many, `LimitHoldsForCounted` what a sign-in keeps, and `SessionCap` when it holds. The same line
  says that the oldest tokens are revoked (`EvictsOldest`): one that is stamped before the count and
  committed after it is spared although it is older, as `EvictsInOrder` and `EvictionsByOverlap` say.
* `store_sso_state` mints a "single-use" pair (`sso_service.py:582`). Two exchanges that both read the
  row before either deletes it both go on (`StateReuseBounded`, and `StateOnce` for when it holds);
  each then needs a code of its own.
* `delete_provider` is described as leaving its identities "orphaned but preserved"; the
  foreign key of `external_identities` is `ON DELETE CASCADE`.
* `docs/oidc-saml.md:157` applies only the mapping of highest priority of those that match on
  one claim key; `apply_claim_mappings` applies every one that matches.
* The docstring of `SsoState` speaks of a sweep of expired rows that no code performs.
* `docs/rbac.md:213` lets an assignment be scoped to a resource; `check_permission` reads neither
  `scope_type` nor `scope_id`, so that an assignment counts everywhere (as `docs/rbac.md:9` and `:163`
  read).
* Two `DELETE`s of one claim mapping that overlap are both answered 204 and both recorded
  (`FindMapping`, `DropMapping`), although one of them found nothing to delete.
* `set_group_roles` says "Members of the group inherit every bound role" (`main.py:2231`); nothing
  evaluates a group role.
* `scim_replace_group` says it updates the member set, and leaves it alone.
* `oauth_token` compares a literal `*` (`main.py:2924`) that it does not expand.
* The comment at `sso_service.py:186` speaks of a refresh of the JWKS on an unknown `kid`; the
  cache expires by time only, and `RefusalsRecent` says for how long a new key can be refused.
* The comment "First match per claim key wins" (`sso_service.py:572`) stands at a `break` that
  ends the loop over the values of one mapping; every mapping that matches is applied.
* The docstring of `seed_roles_and_permissions`, "Idempotent — existing permissions/roles are not
  duplicated" (`permission_service.py:97`), holds for one replica after another. Two that
  overlap can double a role on PostgreSQL; `RoleRowsBounded` says how often, and
  `StartupsSucceed` that on PostgreSQL this is the only case that restarts do not mend.
* A check whose two reads straddle a change of role can deny a permission the user held
  throughout; `AnswersWereHeld` and `AnswersExact` rule out the other direction only.

## Plan

Done, in this order: `Sessions` with `SessionLifecycle`, `SigningKeys`, `Lockout`, `SsoFlow`,
`Clients`, `Authorization`, `ProviderCaches`, `Startup` with `Directory`, `Credentials` as the
abstract form of `Clients`, each with its proofs, and the theorems on requests that do not overlap.

Left, most useful first:

1. A composition of `Sessions` with `SigningKeys`: a logged-in user's token verifies until
   it expires, is revoked, or its key is.
2. An abstract form of `SsoFlow` (a round trip: handed out, redeemed, signed in) and of
   `ProviderCaches` (a register that may answer with a value of bounded age), with the
   refinements.
3. A second provider in `SsoFlow`, if states can be kept few.
4. Group roles, once something in the source evaluates them.
