---------------------------- MODULE ProviderCaches ----------------------------
(***************************************************************************)
(* What one process of the service remembers of an identity provider: its  *)
(* discovery document, its key sets and the client-credentials tokens with *)
(* which it reads a gated key set, and the requests that fill and use      *)
(* these caches.                                                           *)
(*                                                                         *)
(* A look-up holds the lock of its cache; the lock is free while a request *)
(* waits for the provider, so that several may fetch the same document and *)
(* the last to resume stores it.  Each reads the clock before it fetches.  *)
(* The caches are the memory of one process: other replicas have their own,*)
(* and a restart empties them.                                             *)
(***************************************************************************)
EXTENDS Naturals, Sequences

CONSTANTS
    Workers,        \* requests in flight at once in this process
    CacheTTL,       \* _DISCOVERY_CACHE_TTL, in clock ticks
    Margin,         \* _CC_TOKEN_REFRESH_MARGIN, in clock ticks
    Lifetimes,      \* the values of expires_in that the provider answers
    MaxVersions,    \* bound: MaxVersions[d], how often document d is published
    MaxSecrets,     \* bound: client secrets
    MaxNow          \* bound: clock ticks

Documents == {"discovery", "jwks"}

ASSUME ProviderCachesAssumption ==
    /\ CacheTTL \in Nat \ {0}
    /\ Margin \in Nat
    /\ Lifetimes \subseteq Nat
    /\ MaxVersions \in [Documents -> Nat \ {0}]
    /\ MaxSecrets \in Nat \ {0}
    /\ MaxNow \in Nat

VARIABLES
    published,  \* published[d][v]: when the provider made version v of d current
    secret,     \* the client secret, in the row of the provider and at the provider
    discovery,  \* _discovery_cache, for the issuer
    jwks,       \* _jwks_cache, for the URL of the key set
    bearers,    \* _cc_token_cache, by the secret
    request,    \* request[w]: the request worker w is serving
    now         \* time.monotonic

vars == <<published, secret, discovery, jwks, bearers, request, now>>

-------------------------------------------------------------------------------
(* Types.                                                                  *)

Times == 0..MaxNow
Secrets == 1..MaxSecrets
Versions(d) == 1..MaxVersions[d]

\* An entry of a cache is used until its time; a time of 0 stands for no entry.
CachedDocument(d) == [until : Nat, version : Versions(d)]
Bearer == [secret : Secrets, expires : Nat]
CachedBearer == [until : Nat, bearer : Bearer]

Points == {"idle", "get_discovery", "store_discovery", "code", "lookup_jwks", "get_jwks",
           "get_bearer", "store_bearer", "retry_jwks", "store_jwks",
           "accepted", "refused"}

Document == [version |-> 1, since |-> 0]
NoBearer == [secret |-> 1, expires |-> 0]
Idle == [pc |-> "idle", secret |-> 1, discovery |-> Document, key |-> 1,
         jwks |-> Document, bearer |-> NoBearer, asked |-> 0, lifetime |-> 0]

\* The locals of the handler and of what it calls: the secret it loaded; the version of
\* each document it got, with the time it looked it up; the key the ID token is signed
\* with; the bearer, when it was asked for, and its lifetime.  What is not used any more
\* is reset.
Request == [pc : Points, secret : Secrets,
            discovery : [version : Versions("discovery"), since : Times],
            key : Versions("jwks"),
            jwks : [version : Versions("jwks"), since : Times],
            bearer : Bearer, asked : Times, lifetime : Lifetimes \cup {0}]

Empty == [until |-> 0, version |-> 1]
EmptyBearer == [until |-> 0, bearer |-> NoBearer]

TypeOK ==
    /\ published \in [Documents -> Seq(Times)]
    /\ \A d \in Documents : Len(published[d]) \in Versions(d)
    /\ secret \in Secrets
    /\ discovery \in CachedDocument("discovery")
    /\ jwks \in CachedDocument("jwks")
    /\ bearers \in [Secrets -> CachedBearer]
    /\ request \in [Workers -> Request]
    /\ now \in Times

Init ==
    /\ published = [d \in Documents |-> <<0>>]
    /\ secret = 1
    /\ discovery = Empty
    /\ jwks = Empty
    /\ bearers = [s \in Secrets |-> EmptyBearer]
    /\ request = [w \in Workers |-> Idle]
    /\ now = 0

-------------------------------------------------------------------------------
(* Steps the requests are made of.                                         *)

At(w, point) == request[w].pc = point

Finish(w) == request' = [request EXCEPT ![w] = Idle]

\* The version the provider answers with.
Current(d) == Len(published[d])

\* A set of keys holds the newest, with which the provider signs, and the one before.
KeysOf(version) == {version, version - 1}

Usable(entry) == entry.until > now

\* Mutant: the clock is read when the document is stored.
ExpiryFromStore(asked) == now + CacheTTL

\* The expiry of a document that was asked for at a time.
Expiry(asked) == asked + CacheTTL

-------------------------------------------------------------------------------
(* Discovery.                                                              *)

\* discover_oidc_metadata: the look-up, with the provider just loaded.
Discover(w) ==
    /\ At(w, "idle")
    /\ \/ /\ Usable(discovery)
          /\ request' = [request EXCEPT ![w] =
               [Idle EXCEPT !.pc = "code", !.secret = secret,
                            !.discovery = [version |-> discovery.version, since |-> now]]]
       \/ /\ ~Usable(discovery)
          /\ request' = [request EXCEPT ![w] =
               [Idle EXCEPT !.pc = "get_discovery", !.secret = secret,
                            !.discovery.since = now]]
    /\ UNCHANGED <<published, secret, discovery, jwks, bearers, now>>

\* The provider answers with the version that is current.
AnswerDiscovery(w) ==
    /\ At(w, "get_discovery")
    /\ request' = [request EXCEPT ![w].pc = "store_discovery",
                                  ![w].discovery.version = Current("discovery")]
    /\ UNCHANGED <<published, secret, discovery, jwks, bearers, now>>

\* The handler resumes and stores the answer, whatever is stored by now.
StoreDiscovery(w) ==
    LET got == request[w].discovery
    IN  /\ At(w, "store_discovery")
        /\ discovery' = [until |-> Expiry(got.since), version |-> got.version]
        /\ request' = [request EXCEPT ![w].pc = "code"]
        /\ UNCHANGED <<published, secret, jwks, bearers, now>>

-------------------------------------------------------------------------------
(* exchange_oidc_code.                                                     *)

\* The provider takes the code and signs an ID token.  (authorize, and a provider that
\* is created or updated, need no more than the discovery document: they End here.)
Exchange(w) ==
    /\ At(w, "code")
    /\ request' = [request EXCEPT ![w].pc = "lookup_jwks", ![w].key = Current("jwks"),
                                  ![w].discovery = Document]
    /\ UNCHANGED <<published, secret, discovery, jwks, bearers, now>>

\* _verify_id_token_with_jwks: a key that the set does not hold is refused (401); no
\* fresh set is fetched for it.
Verify(w, got) ==
    request' = [request EXCEPT ![w] =
        [Idle EXCEPT !.pc = IF request[w].key \in KeysOf(got.version)
                              THEN "accepted" ELSE "refused",
                     !.key = request[w].key, !.jwks = got]]

\* _fetch_jwks, the look-up.
LookupJwks(w) ==
    /\ At(w, "lookup_jwks")
    /\ \/ /\ Usable(jwks)
          /\ Verify(w, [version |-> jwks.version, since |-> now])
       \/ /\ ~Usable(jwks)
          /\ request' = [request EXCEPT ![w].pc = "get_jwks", ![w].jwks.since = now]
    /\ UNCHANGED <<published, secret, discovery, jwks, bearers, now>>

\* The provider answers with the keys that are current.
GotJwks(w) ==
    request' = [request EXCEPT ![w] =
        [@ EXCEPT !.pc = "store_jwks", !.jwks.version = Current("jwks"),
                  !.secret = 1, !.bearer = NoBearer]]

\* The provider answers the plain GET.
AnswerJwks(w) ==
    /\ At(w, "get_jwks")
    /\ GotJwks(w)
    /\ UNCHANGED <<published, secret, discovery, jwks, bearers, now>>

\* Mutant: the key of the cache leaves the secret out.
BearerKeyWithoutSecret(s) == 1

\* The key of _cc_token_cache.
BearerKey(s) == s

\* The key set is gated: on the 401 the handler looks for a bearer
\* (_client_credentials_token).
LookupBearer(w) ==
    LET entry == bearers[BearerKey(request[w].secret)]
    IN  /\ At(w, "get_jwks")
        /\ \/ /\ Usable(entry)
              /\ request' = [request EXCEPT ![w].pc = "retry_jwks", ![w].bearer = entry.bearer]
           \/ /\ ~Usable(entry)
              /\ request' = [request EXCEPT ![w].pc = "get_bearer", ![w].asked = now]
        /\ UNCHANGED <<published, secret, discovery, jwks, bearers, now>>

\* The provider grants a token for the current secret, of a lifetime of its choice.
AnswerBearer(w) ==
    /\ At(w, "get_bearer")
    /\ request[w].secret = secret
    /\ \E lifetime \in Lifetimes :
          request' = [request EXCEPT
              ![w].pc = "store_bearer",
              ![w].bearer = [secret |-> secret, expires |-> now + lifetime],
              ![w].lifetime = lifetime]
    /\ UNCHANGED <<published, secret, discovery, jwks, bearers, now>>

\* Mutant: a short lifetime is clamped to a floor instead of skipping the cache.
StoreBearerClamped(w) ==
    LET got == request[w]
        key == BearerKey(got.secret)
        ttl == IF got.lifetime > Margin THEN got.lifetime - Margin ELSE 1
    IN  /\ At(w, "store_bearer")
        /\ bearers' = [bearers EXCEPT ![key] = [until |-> got.asked + ttl, bearer |-> got.bearer]]
        /\ request' = [request EXCEPT ![w].pc = "retry_jwks", ![w].asked = 0, ![w].lifetime = 0]
        /\ UNCHANGED <<published, secret, discovery, jwks, now>>

\* Mutant: a token is kept whatever its lifetime, and the margin may exceed it.
StoreBearerUnguarded(w) ==
    LET got == request[w]
        until == got.asked + (got.lifetime - Margin)
    IN  /\ At(w, "store_bearer")
        /\ bearers' = [bearers EXCEPT ![BearerKey(got.secret)] =
                         [until |-> until, bearer |-> got.bearer]]
        /\ request' = [request EXCEPT ![w].pc = "retry_jwks", ![w].asked = 0, ![w].lifetime = 0]
        /\ UNCHANGED <<published, secret, discovery, jwks, now>>

\* The token is kept until the margin before its end; one that lives no longer than the
\* margin is used but not kept.
StoreBearer(w) ==
    LET got == request[w]
        key == BearerKey(got.secret)
    IN  /\ At(w, "store_bearer")
        /\ bearers' = IF got.lifetime > Margin
                        THEN [bearers EXCEPT ![key] =
                                [until |-> got.asked + (got.lifetime - Margin),
                                 bearer |-> got.bearer]]
                        ELSE bearers
        /\ request' = [request EXCEPT ![w].pc = "retry_jwks", ![w].asked = 0, ![w].lifetime = 0]
        /\ UNCHANGED <<published, secret, discovery, jwks, now>>

\* The GET again, with the bearer; a 401 now ends the request.
RetryJwks(w) ==
    /\ At(w, "retry_jwks")
    /\ \/ /\ request[w].bearer.expires > now
          /\ GotJwks(w)
       \/ /\ request[w].bearer.expires <= now
          /\ Finish(w)
    /\ UNCHANGED <<published, secret, discovery, jwks, bearers, now>>

\* The handler resumes, stores the set and verifies the ID token with it.
StoreJwks(w) ==
    LET got == request[w].jwks
    IN  /\ At(w, "store_jwks")
        /\ jwks' = [until |-> Expiry(got.since), version |-> got.version]
        /\ Verify(w, got)
        /\ UNCHANGED <<published, secret, discovery, bearers, now>>

\* The request is over: answered, or ended by an error of the provider, a time-out or a
\* document it cannot use.  Errors are never cached.
End(w) ==
    /\ ~At(w, "idle")
    /\ Finish(w)
    /\ UNCHANGED <<published, secret, discovery, jwks, bearers, now>>

-------------------------------------------------------------------------------
(* The environment.                                                        *)

\* The provider changes its metadata, or adds a key and drops the oldest.  The URL of
\* the key set, which an operator can pin (jwks_url), stays.
Publish(d) ==
    /\ Len(published[d]) < MaxVersions[d]
    /\ published' = [published EXCEPT ![d] = Append(@, now)]
    /\ UNCHANGED <<secret, discovery, jwks, bearers, request, now>>

\* update_provider with a new client secret.
RotateSecret ==
    /\ secret < MaxSecrets
    /\ secret' = secret + 1
    /\ UNCHANGED <<published, discovery, jwks, bearers, request, now>>

\* The process dies and starts again.
Restart ==
    /\ discovery' = Empty
    /\ jwks' = Empty
    /\ bearers' = [s \in Secrets |-> EmptyBearer]
    /\ request' = [w \in Workers |-> Idle]
    /\ UNCHANGED <<published, secret, now>>

Tick ==
    /\ now < MaxNow
    /\ now' = now + 1
    /\ UNCHANGED <<published, secret, discovery, jwks, bearers, request>>

Serve(w) ==
    \/ Discover(w)
    \/ AnswerDiscovery(w)
    \/ StoreDiscovery(w)
    \/ Exchange(w)
    \/ LookupJwks(w)
    \/ AnswerJwks(w)
    \/ LookupBearer(w)
    \/ AnswerBearer(w)
    \/ StoreBearer(w)
    \/ RetryJwks(w)
    \/ StoreJwks(w)
    \/ End(w)

Next ==
    \/ \E w \in Workers : Serve(w)
    \/ \E d \in Documents : Publish(d)
    \/ RotateSecret
    \/ Restart
    \/ Tick

Spec == Init /\ [][Next]_vars

-------------------------------------------------------------------------------
(* Properties.                                                             *)

\* A document that was looked up and found: its version had not been replaced for a
\* whole lifetime of an entry by then.
FreshEnough(d, got) ==
    \/ got.version = Current(d)
    \/ /\ got.version < Current(d)
       /\ published[d][got.version + 1] + CacheTTL > got.since

HasDiscovery(r) == r.pc \in {"store_discovery", "code"}
HasJwks(r) == r.pc \in {"store_jwks", "accepted", "refused"}

\* However fetches overlap, and although a slow answer overwrites a newer one, a request
\* never uses a document that the provider had replaced a whole _DISCOVERY_CACHE_TTL
\* before the request looked it up.
StalenessBounded ==
    \A w \in Workers :
        /\ HasDiscovery(request[w]) => FreshEnough("discovery", request[w].discovery)
        /\ HasJwks(request[w]) => FreshEnough("jwks", request[w].jwks)

\* No kid miss makes _fetch_jwks fetch again, and still the key a provider has changed
\* to is refused only if it was published less than a _DISCOVERY_CACHE_TTL before.
RefusalsRecent ==
    \A w \in Workers :
        At(w, "refused") /\ request[w].key > request[w].jwks.version =>
            published["jwks"][request[w].key] + CacheTTL > request[w].jwks.since

\* A bearer that the cache would hand out lives longer than the margin, which covers
\* the request it is for: also one whose expires_in was short, and one whose answer was
\* slow.
CachedBearersOutlastMargin ==
    \A s \in Secrets : Usable(bearers[s]) => bearers[s].bearer.expires > now + Margin

\* A request never presents a bearer of another client secret than the one it loaded:
\* after a rotation of the secret, none that the old secret earned.
BearersMatchSecret ==
    \A w \in Workers :
        At(w, "retry_jwks") => request[w].bearer.secret = request[w].secret

===============================================================================
