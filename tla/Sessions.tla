------------------------------- MODULE Sessions -------------------------------
(***************************************************************************)
(* The session store of the service: the tables users (existence and       *)
(* is_active), refresh_tokens and token_blacklist, and the request         *)
(* handlers that read and write them.                                      *)
(*                                                                         *)
(* Every handler is a coroutine with a database session of its own.  It is *)
(* cut at its awaits: one action runs from one statement (or commit) to    *)
(* the next, and any other handler, of this replica or another, may run in *)
(* between.  Statements read committed rows, objects loaded earlier keep   *)
(* the values they were loaded with (expire_on_commit=False), and a flush  *)
(* writes only the attributes that were assigned.                          *)
(*                                                                         *)
(* A pair of tokens is one element of `tokens': its index names both the   *)
(* refresh token (the row) and the access token minted with it (the jti).  *)
(***************************************************************************)
EXTENDS Naturals, Sequences, FiniteSets

CONSTANTS
    Users,          \* e-mail addresses, one account each
    Workers,        \* handlers that can be in flight at once, over all replicas
    MaxSessions,    \* settings.max_concurrent_sessions
    RefreshTTL,     \* settings.refresh_token_expire_days, in clock ticks
    AccessTTL,      \* settings.access_token_expire_minutes, in clock ticks
    Enabled,        \* the operations the deployment uses
    MaxTokens,      \* bound: token pairs ever issued
    MaxNow          \* bound: clock ticks

Operations == {"register", "login", "sso", "refresh", "logout", "revoke_token",
               "activate", "deactivate", "deprovision"}

ASSUME SessionsAssumption ==
    /\ Users # {}
    /\ IsFiniteSet(Workers)
    /\ MaxSessions \in Nat
    /\ RefreshTTL \in Nat
    /\ AccessTTL \in Nat
    /\ Enabled \subseteq Operations
    /\ MaxTokens \in Nat
    /\ MaxNow \in Nat

VARIABLES
    account,    \* account[u]: no row, or a row with is_active true or false
    tokens,     \* refresh_tokens in the order of their commits
    revoked,    \* the refresh tokens whose revoked column is true
    blacklist,  \* the access tokens whose jti is in token_blacklist
    handler,    \* handler[w]: the request worker w is serving
    now         \* the clock

vars == <<account, tokens, revoked, blacklist, handler, now>>

-------------------------------------------------------------------------------
(* Types.                                                                  *)

TokenIds == 1..MaxTokens

\* `parent' and `password' are no columns: they remember which refresh token was
\* presented, and whether a password was.
Token == [user : Users, parent : 0..MaxTokens, password : BOOLEAN, created : 0..MaxNow]

\* Where a handler will resume: the statement it is about to run.
Points == {"idle", "insert", "count", "evict", "issue", "commit", "rotate", "reload",
           "blacklist", "set_active", "sweep", "sweep_commit"}

Idle == [op |-> "none", pc |-> "idle", user |-> CHOOSE u \in Users : TRUE,
         token |-> 0, loaded |-> {}, created |-> 0, since |-> 0]

\* user and token are the handler's locals; `loaded' is the set of RefreshToken
\* objects it holds and is about to flag, `created' the stamp of the row it is about to
\* commit; `since' is no local: it remembers how
\* many tokens existed when the request was authenticated or counted the sessions.
Handler == [op : Operations \cup {"none"}, pc : Points, user : Users,
            token : 0..MaxTokens, loaded : SUBSET TokenIds, created : 0..MaxNow,
            since : 0..MaxTokens]

TypeOK ==
    /\ account \in [Users -> {"absent", "active", "inactive"}]
    /\ tokens \in Seq(Token)
    /\ Len(tokens) <= MaxTokens
    /\ revoked \subseteq DOMAIN tokens
    /\ blacklist \subseteq DOMAIN tokens
    /\ handler \in [Workers -> Handler]
    /\ now \in 0..MaxNow

Init ==
    /\ account = [u \in Users |-> "absent"]
    /\ tokens = <<>>
    /\ revoked = {}
    /\ blacklist = {}
    /\ handler = [w \in Workers |-> Idle]
    /\ now = 0

-------------------------------------------------------------------------------
(* Queries.                                                                *)

\* SELECT ... WHERE user_id = :u AND revoked = 0: expiry is not looked at.
Unrevoked(u) == {t \in DOMAIN tokens : tokens[t].user = u /\ t \notin revoked}

RefreshExpired(t) == now >= tokens[t].created + RefreshTTL
AccessExpired(a)  == now >= tokens[a].created + AccessTTL

\* Outcome of decode_token and get_current_user for access token a (the signing
\* keys are the subject of module SigningKeys).
Authenticates(a) ==
    /\ a \in DOMAIN tokens
    /\ ~AccessExpired(a)
    /\ a \notin blacklist
    /\ account[tokens[a].user] = "active"

\* Mutant: the slice is active_tokens[max_concurrent_sessions:].
SurvivorsOffByOne(n) == MaxSessions

\* Mutant: at the limit every token is flagged, no slice is taken.
SurvivorsNone(n) == 0

\* How many of n tokens survive active_tokens[max_concurrent_sessions - 1:]
\* being flagged; with a maximum of 0 the slice starts at -1, the last element.
Survivors(n) == IF MaxSessions = 0 THEN n - 1 ELSE MaxSessions - 1

\* Mutant: the query is ordered by created_at ascending.
IsSurplusYoungestFirst(S, A) ==
    /\ S \subseteq A
    /\ Cardinality(A \ S) = Survivors(Cardinality(A))
    /\ \A old \in S, young \in A \ S : tokens[old].created >= tokens[young].created

\* S is a possible active_tokens[max_concurrent_sessions - 1:] of the tokens in
\* A ordered by created_at DESC; rows created at the same tick come in any order.
IsSurplus(S, A) ==
    /\ S \subseteq A
    /\ Cardinality(A \ S) = Survivors(Cardinality(A))
    /\ \A old \in S, young \in A \ S : tokens[old].created <= tokens[young].created

-------------------------------------------------------------------------------
(* Steps the handlers are made of.                                         *)

At(w, point) == handler[w].pc = point

\* The operations that end in revoke_user_tokens.
Sweeping == {"logout", "deprovision"}

Start(w, op, point, u, t) ==
    /\ op \in Enabled
    /\ At(w, "idle")
    /\ handler' = [handler EXCEPT ![w] =
                     [op |-> op, pc |-> point, user |-> u, token |-> t,
                      loaded |-> {}, created |-> 0,
                      since |-> IF op \in Sweeping THEN Len(tokens) ELSE 0]]

Goto(w, point) == handler' = [handler EXCEPT ![w].pc = point]

Finish(w) == handler' = [handler EXCEPT ![w] = Idle]

\* Mutant: the whole column is written from stale objects.
RevokeOverwriting(S) == revoked' = S

Revoke(S) == revoked' = revoked \cup S

-------------------------------------------------------------------------------
(* Accounts and sign-in.                                                   *)

\* register: the e-mail is free (otherwise 409, and nothing is written).
RegisterBegin(w, u) ==
    /\ account[u] = "absent"
    /\ Start(w, "register", "insert", u, 0)
    /\ UNCHANGED <<account, tokens, revoked, blacklist, now>>

\* sso_token_exchange, once the identity provider has vouched for u: an unknown
\* user is provisioned, a known one goes straight to issue_sso_tokens, whether
\* active or not.
SsoBegin(w, u) ==
    /\ Start(w, "sso", IF account[u] = "absent" THEN "insert" ELSE "issue", u, 0)
    /\ UNCHANGED <<account, tokens, revoked, blacklist, now>>

\* INSERT INTO users; COMMIT.  A concurrent insert of the same e-mail breaks the
\* unique index and ends this request with a 500.
InsertUser(w) ==
    LET u == handler[w].user
    IN  /\ At(w, "insert")
        /\ \/ /\ account[u] = "absent"
              /\ account' = [account EXCEPT ![u] = "active"]
              /\ Goto(w, IF handler[w].op = "register" THEN "count" ELSE "issue")
           \/ /\ account[u] # "absent"
              /\ UNCHANGED account
              /\ Finish(w)
        /\ UNCHANGED <<tokens, revoked, blacklist, now>>

\* login: right password, active account (otherwise 401 or 403, no token is
\* touched; failed attempts are the subject of module Lockout).
LoginBegin(w, u) ==
    /\ account[u] = "active"
    /\ Start(w, "login", "count", u, 0)
    /\ UNCHANGED <<account, tokens, revoked, blacklist, now>>

\* enforce_session_limit, the SELECT.
CountSessions(w) ==
    LET active == Unrevoked(handler[w].user)
    IN  /\ At(w, "count")
        /\ \/ /\ Cardinality(active) < MaxSessions \/ active = {}
              /\ handler' = [handler EXCEPT ![w].pc = "issue", ![w].since = Len(tokens)]
           \/ /\ Cardinality(active) >= MaxSessions /\ active # {}
              /\ \E surplus \in SUBSET active :
                    /\ IsSurplus(surplus, active)
                    /\ handler' = [handler EXCEPT ![w].pc = "evict",
                                                  ![w].loaded = surplus,
                                                  ![w].since = Len(tokens)]
        /\ UNCHANGED <<account, tokens, revoked, blacklist, now>>

\* enforce_session_limit, the COMMIT of the flagged rows.
EvictSessions(w) ==
    /\ At(w, "evict")
    /\ Revoke(handler[w].loaded)
    /\ handler' = [handler EXCEPT ![w].pc = "issue", ![w].loaded = {}]
    /\ UNCHANGED <<account, tokens, blacklist, now>>

\* create_access_token and store_refresh_token up to the flush: the tokens and the row are
\* stamped, the INSERT is sent, nobody else sees the row yet.
StampToken(w) ==
    /\ At(w, "issue")
    /\ Len(tokens) < MaxTokens
    /\ handler' = [handler EXCEPT ![w].pc = "commit", ![w].created = now]
    /\ UNCHANGED <<account, tokens, revoked, blacklist, now>>

\* The sign-ins that enforce the session limit.
ByPassword == {"register", "login"}

\* The row that h commits.
Row(h) == [user |-> h.user, parent |-> h.token, password |-> h.op \in ByPassword,
           created |-> h.created]

\* store_refresh_token, the COMMIT, and the response.
Issue(w) ==
    /\ At(w, "commit")
    /\ Len(tokens) < MaxTokens
    /\ tokens' = Append(tokens, Row(handler[w]))
    /\ Finish(w)
    /\ UNCHANGED <<account, revoked, blacklist, now>>

-------------------------------------------------------------------------------
(* Rotation of a refresh token.                                            *)

\* Mutant: validate_refresh_token without its `revoked == 0'.
RefreshBeginRevokedToo(w, t) ==
    /\ t \in DOMAIN tokens
    /\ ~RefreshExpired(t)
    /\ Start(w, "refresh", "rotate", tokens[t].user, t)
    /\ UNCHANGED <<account, tokens, revoked, blacklist, now>>

\* refresh_token: validate_refresh_token finds the row (otherwise 401).
RefreshBegin(w, t) ==
    /\ t \in DOMAIN tokens
    /\ t \notin revoked
    /\ ~RefreshExpired(t)
    /\ Start(w, "refresh", "rotate", tokens[t].user, t)
    /\ UNCHANGED <<account, tokens, revoked, blacklist, now>>

\* Mutant: the rotation is never committed.
RotateTokenWithoutCommit(w) ==
    /\ At(w, "rotate")
    /\ Goto(w, "reload")
    /\ UNCHANGED <<account, tokens, revoked, blacklist, now>>

\* Mutant: the row after the one presented is flagged.
RotateTokenNextRow(w) ==
    /\ At(w, "rotate")
    /\ Revoke({handler[w].token + 1})
    /\ Goto(w, "reload")
    /\ UNCHANGED <<account, tokens, blacklist, now>>

\* stored.revoked = True; COMMIT.  The UPDATE is by id, whatever the row holds
\* by now.
RotateToken(w) ==
    /\ At(w, "rotate")
    /\ Revoke({handler[w].token})
    /\ Goto(w, "reload")
    /\ UNCHANGED <<account, tokens, blacklist, now>>

\* The owner is read again: 401 when no longer active.
ReloadUser(w) ==
    /\ At(w, "reload")
    /\ IF account[handler[w].user] = "active" THEN Goto(w, "issue") ELSE Finish(w)
    /\ UNCHANGED <<account, tokens, revoked, blacklist, now>>

-------------------------------------------------------------------------------
(* Logout and revocation.                                                  *)

LogoutBegin(w, a) ==
    /\ Authenticates(a)
    /\ Start(w, "logout", "blacklist", tokens[a].user, a)
    /\ UNCHANGED <<account, tokens, revoked, blacklist, now>>

\* revoke_token: the caller authenticates with one access token and names
\* another, or the same.
RevokeTokenBegin(w, caller, a) ==
    /\ Authenticates(caller)
    /\ a \in DOMAIN tokens
    /\ ~AccessExpired(a)
    /\ Start(w, "revoke_token", "blacklist", tokens[a].user, a)
    /\ UNCHANGED <<account, tokens, revoked, blacklist, now>>

\* blacklist_token: INSERT; COMMIT.  A jti that is already there breaks the unique
\* index: 500, and a logout never reaches its sweep.
BlacklistToken(w) ==
    LET a == handler[w].token
    IN  /\ At(w, "blacklist")
        /\ blacklist' = blacklist \cup {a}
        /\ IF handler[w].op = "logout" /\ a \notin blacklist
             THEN Goto(w, "sweep")
             ELSE Finish(w)
        /\ UNCHANGED <<account, tokens, revoked, now>>

\* Mutant: .first() instead of .all().
SweepReadFirst(w) ==
    /\ At(w, "sweep")
    /\ \E one \in SUBSET Unrevoked(handler[w].user) :
          /\ Cardinality(one) <= 1
          /\ handler' = [handler EXCEPT ![w].pc = "sweep_commit", ![w].loaded = one]
    /\ UNCHANGED <<account, tokens, revoked, blacklist, now>>

\* revoke_user_tokens, the SELECT.
SweepRead(w) ==
    /\ At(w, "sweep")
    /\ handler' = [handler EXCEPT ![w].pc = "sweep_commit",
                                  ![w].loaded = Unrevoked(handler[w].user)]
    /\ UNCHANGED <<account, tokens, revoked, blacklist, now>>

\* revoke_user_tokens, the COMMIT, and the response.
SweepCommit(w) ==
    /\ At(w, "sweep_commit")
    /\ Revoke(handler[w].loaded)
    /\ Finish(w)
    /\ UNCHANGED <<account, tokens, blacklist, now>>

-------------------------------------------------------------------------------
(* Administration of the active flag.                                      *)

Target(op) == IF op = "activate" THEN "active" ELSE "inactive"

\* update_user and scim_replace_user: the user is loaded; assigning the value it
\* was loaded with writes nothing.
PatchBegin(w, u, op) ==
    /\ op \in {"activate", "deactivate"}
    /\ account[u] \notin {"absent", Target(op)}
    /\ Start(w, op, "set_active", u, 0)
    /\ UNCHANGED <<account, tokens, revoked, blacklist, now>>

\* scim_delete_user: the user is loaded; the tokens are swept in any case.
DeprovisionBegin(w, u) ==
    /\ account[u] # "absent"
    /\ Start(w, "deprovision",
             IF account[u] = "active" THEN "set_active" ELSE "sweep", u, 0)
    /\ UNCHANGED <<account, tokens, revoked, blacklist, now>>

\* The COMMIT of is_active.
SetActive(w) ==
    LET op == handler[w].op
    IN  /\ At(w, "set_active")
        /\ account' = [account EXCEPT ![handler[w].user] = Target(op)]
        /\ IF op = "deprovision" THEN Goto(w, "sweep") ELSE Finish(w)
        /\ UNCHANGED <<tokens, revoked, blacklist, now>>

-------------------------------------------------------------------------------
(* The environment.                                                        *)

\* A handler ends early with nothing more written: its process dies, the database
\* refuses a statement, a login asks for a scope it cannot have (400), a second
\* decode_token finds the access token expired (401).  What it has committed stays.
Abandon(w) ==
    /\ ~At(w, "idle")
    /\ Finish(w)
    /\ UNCHANGED <<account, tokens, revoked, blacklist, now>>

Tick ==
    /\ now < MaxNow
    /\ now' = now + 1
    /\ UNCHANGED <<account, tokens, revoked, blacklist, handler>>

\* The next step of the request a worker is serving.
Step(w) ==
    \/ InsertUser(w)
    \/ CountSessions(w)
    \/ EvictSessions(w)
    \/ StampToken(w)
    \/ Issue(w)
    \/ RotateToken(w)
    \/ ReloadUser(w)
    \/ BlacklistToken(w)
    \/ SweepRead(w)
    \/ SweepCommit(w)
    \/ SetActive(w)

\* A request arrives.
Begin(w) ==
    \/ \E u \in Users :
        \/ RegisterBegin(w, u)
        \/ LoginBegin(w, u)
        \/ SsoBegin(w, u)
        \/ DeprovisionBegin(w, u)
        \/ \E op \in {"activate", "deactivate"} : PatchBegin(w, u, op)
    \/ \E t \in TokenIds :
        \/ RefreshBegin(w, t)
        \/ LogoutBegin(w, t)
        \/ \E a \in TokenIds : RevokeTokenBegin(w, t, a)

Next ==
    \/ \E w \in Workers : Begin(w) \/ Step(w) \/ Abandon(w)
    \/ Tick

Spec == Init /\ [][Next]_vars

-------------------------------------------------------------------------------
(* Properties.                                                             *)

\* The promise of module SessionLifecycle: no interleaving of the handlers, each
\* writing objects it loaded earlier, revives a revoked refresh token, moves a
\* token to another user, or hands out a successor before its predecessor died.
Lifecycle == INSTANCE SessionLifecycle WITH
    owned <- [t \in DOMAIN tokens |-> tokens[t].user],
    predecessor <- [t \in DOMAIN tokens |-> tokens[t].parent],
    retired <- revoked

ImplementsLifecycle == Lifecycle!Spec

\* A refresh token and the one it was exchanged for are never both live: the
\* rotation commits the revocation before the replacement is stored.
ParentRetired ==
    \A t \in DOMAIN tokens : tokens[t].parent # 0 => tokens[t].parent \in revoked

\* The tokens refresh token t was exchanged for.
Successors(t) == {s \in DOMAIN tokens : tokens[s].parent = t}

\* The refreshes that got past validate_refresh_token with t.
RefreshersOf(t) == {w \in Workers : handler[w].op = "refresh" /\ handler[w].token = t}

\* Refreshes that race on one token each win a successor, but successors and racing
\* handlers together are never more than the handlers that fit in flight at once: when
\* one rotation has committed, nobody else gets past validate_refresh_token.
ReuseBoundedByConcurrency ==
    \A t \in DOMAIN tokens :
        Cardinality(Successors(t)) + Cardinality(RefreshersOf(t)) <= Cardinality(Workers)

\* What a suspended handler holds agrees with the tables, whatever ran since it
\* loaded it: its objects are rows of the user it serves, and a refresh that is past
\* its first commit presented a token that is revoked by now.
HandlerConsistent(h) ==
    /\ h.loaded \subseteq {t \in DOMAIN tokens : tokens[t].user = h.user}
    /\ h.since <= Len(tokens)
    /\ h.token # 0 => h.token \in DOMAIN tokens /\ tokens[h.token].user = h.user
    /\ h.pc \in {"rotate", "reload", "blacklist"} => h.token # 0
    /\ h.pc \in {"insert", "count", "evict"} => h.token = 0
    /\ h.pc \in {"reload", "issue", "commit"} /\ h.token # 0 => h.token \in revoked

\* Every token that existed when a logout or a deprovisioning was authenticated is
\* revoked already, or is in the set its sweep is about to commit.
SweepCovers(h) ==
    h.pc = "sweep_commit" =>
        \A t \in Unrevoked(h.user) : t <= h.since => t \in h.loaded

\* A logout reaches its sweep only after its own access token is blacklisted.
BlacklistedBeforeSweep(h) ==
    h.op = "logout" /\ h.pc \in {"sweep", "sweep_commit"} => h.token \in blacklist

\* With the commit of its sweep a logout has ended everything that existed when it was
\* called: the refresh tokens, whatever was issued or rotated meanwhile, and before them
\* its own access token, so that no failure in between leaves that one good alone.
SweepCoversEarlierSessions ==
    \A w \in Workers : SweepCovers(handler[w]) /\ BlacklistedBeforeSweep(handler[w])

\* The refresh tokens that a sign-in will leave unrevoked, although it gives up a younger.
SparedOlder(h, young) ==
    {old \in Unrevoked(h.user) \ h.loaded : tokens[old].created < tokens[young].created}

\* The oldest tokens are revoked when the limit is exceeded, but for rows that get their
\* stamp in one statement and are seen from a later one on.  What an eviction spares
\* although it is older than what it gives up was committed after the count, and there are
\* fewer such tokens than handlers, whatever was issued, revoked or counted since.
EvictsInOrder ==
    \A w \in Workers : At(w, "evict") =>
        \A t \in handler[w].loaded :
            /\ \A old \in SparedOlder(handler[w], t) : old > handler[w].since
            /\ Cardinality(SparedOlder(handler[w], t)) < Cardinality(Workers)

\* enforce_session_limit counts expired tokens too, and still gives up an unexpired
\* session only when there are max_concurrent_sessions unexpired ones.
EvictsLiveOnlyAtCap ==
    [][\A w \in Workers : CountSessions(w) =>
        \A t \in handler'[w].loaded : ~RefreshExpired(t) =>
            Cardinality({k \in Unrevoked(handler[w].user) : ~RefreshExpired(k)})
                >= MaxSessions]_vars

\* The sessions that a password sign-in counted and that are still unrevoked.
CountedSessions(h) == {t \in Unrevoked(h.user) : t <= h.since}

\* A password sign-in that is about to store its token leaves room for it: of the
\* sessions it counted fewer than max_concurrent_sessions are left, whatever other
\* handlers flagged or issued since.
LimitHoldsForCounted ==
    \A w \in Workers :
        /\ At(w, "issue") \/ At(w, "commit")
        /\ handler[w].op \in ByPassword
        /\ MaxSessions > 0
        => Cardinality(CountedSessions(handler[w])) < MaxSessions

\* The unrevoked refresh tokens of a user that password sign-ins stored, and the password
\* sign-ins that have enforced the limit and will store one more.
PasswordSessions(u) == {t \in Unrevoked(u) : tokens[t].password}
Storing(u) == {w \in Workers : /\ At(w, "issue") \/ At(w, "commit")
                               /\ handler[w].op \in ByPassword /\ handler[w].user = u}

\* Password sign-ins that count before others have stored overrun the limit, but never by
\* as many as fit in flight at once, however often they are repeated or abandoned and
\* whatever sessions come from SSO and refreshes (which never count) in between.
OverrunBounded ==
    MaxSessions > 0 =>
        \A u \in Users : Cardinality(PasswordSessions(u)) + Cardinality(Storing(u))
                            < MaxSessions + Cardinality(Workers)

-------------------------------------------------------------------------------
(* Statements of the documentation.                                        *)

\* main.py, description of /auth/refresh: "so each refresh token is single-use".
RefreshTokenSingleUse ==
    \A t \in DOMAIN tokens : Cardinality(Successors(t)) <= 1

\* Nobody presents a refresh token while another refresh with it is in flight.
RefreshesApart ==
    \A t \in DOMAIN tokens : \A v, w \in RefreshersOf(t) : v = w

\* docs/configuration.md, AUTH_MAX_CONCURRENT_SESSIONS: "Maximum number of active refresh
\* tokens per user".
SessionsCapped ==
    \A u \in Users : Cardinality(Unrevoked(u)) <= MaxSessions

\* docs/configuration.md, the same: "Oldest tokens are revoked when the limit is exceeded".
EvictsOldest ==
    \A w \in Workers : At(w, "evict") =>
        \A t \in handler[w].loaded : SparedOlder(handler[w], t) = {}

\* With k tokens of a user between stamp and commit at most, an eviction spares fewer than
\* k that are older than one it gives up; k = 1 is what the document says.
Stamped(u) == {w \in Workers : At(w, "commit") /\ handler[w].user = u}
StampedWithin(k) == \A u \in Users : Cardinality(Stamped(u)) <= k
SparedWithin(k) ==
    \A w \in Workers : At(w, "evict") =>
        \A t \in handler[w].loaded : Cardinality(SparedOlder(handler[w], t)) < k

\* A user does not sign in, or refresh, while another request of that user does.
SignInsApart ==
    \A v, w \in Workers :
        /\ v # w
        /\ {handler[v].op, handler[w].op} \subseteq {"register", "login", "refresh"}
        => handler[v].user # handler[w].user

\* docs/scim.md, delete a user: "immediately preventing further access".
NoTokensForInactiveUser ==
    [][\A w \in Workers : Issue(w) => account[handler[w].user] = "active"]_vars

\* No account is about to be switched off while a sign-in or a refresh of its user is past
\* the check of is_active and has not answered yet.
DeactivationsApart ==
    \A v, w \in Workers :
        /\ At(v, "set_active") /\ Target(handler[v].op) = "inactive"
        /\ handler[w].pc \in {"count", "evict", "issue", "commit"}
        => handler[v].user # handler[w].user

===============================================================================
