------------------------- MODULE ProviderCachesProofs -------------------------
(***************************************************************************)
(* Proofs about module ProviderCaches, for any number of requests, any     *)
(* lifetime and margin, and any bound on versions, secrets and time.       *)
(***************************************************************************)
EXTENDS ProviderCaches, TLAPS

-------------------------------------------------------------------------------
(* The inductive invariant.                                                *)

\* A document that was asked for at a time and answered later.
AnsweredSince(d, got) ==
    \/ got.version = Current(d)
    \/ got.version < Current(d) /\ published[d][got.version + 1] >= got.since

\* What a cache holds was current at the earliest one lifetime before it expires.
EntryFresh(d, e) ==
    /\ e.version <= Current(d)
    /\ e.until <= now + CacheTTL
    /\ \/ e.version = Current(d)
       \/ published[d][e.version + 1] + CacheTTL >= e.until

BearerKept(s) ==
    bearers[s].until > 0 =>
        /\ bearers[s].bearer.secret = s
        /\ bearers[s].bearer.expires >= bearers[s].until + Margin

RequestSound(r) ==
    /\ r.discovery.since <= now
    /\ r.jwks.since <= now
    /\ r.discovery.version <= Current("discovery")
    /\ r.jwks.version <= Current("jwks")
    /\ r.key <= Current("jwks")
    /\ r.pc = "store_discovery" => AnsweredSince("discovery", r.discovery)
    /\ r.pc = "code" => FreshEnough("discovery", r.discovery)
    /\ r.pc = "store_jwks" => AnsweredSince("jwks", r.jwks)
    /\ r.pc \in {"accepted", "refused"} => FreshEnough("jwks", r.jwks)
    /\ r.pc = "store_bearer" => /\ r.bearer.secret = r.secret
                                /\ r.bearer.expires >= r.asked + r.lifetime
    /\ r.pc = "retry_jwks" => r.bearer.secret = r.secret
    /\ r.asked <= now

PublishedInOrder(d) ==
    \A v \in 1..Len(published[d]) :
        /\ published[d][v] \in Nat
        /\ published[d][v] <= now
        /\ \A x \in 1..v : published[d][x] <= published[d][v]

CachesInv ==
    /\ TypeOK
    /\ \A d \in Documents : PublishedInOrder(d)
    /\ EntryFresh("discovery", discovery)
    /\ EntryFresh("jwks", jwks)
    /\ \A s \in Secrets : BearerKept(s)
    /\ \A w \in Workers : RequestSound(request[w])

-------------------------------------------------------------------------------
(* Basic facts.                                                            *)

LEMMA PublishedFacts ==
    ASSUME TypeOK, NEW d \in Documents
    PROVE  /\ Current(d) \in Nat /\ Current(d) >= 1
           /\ Current(d) \in Versions(d)
           /\ published[d] \in Seq(Times)
           /\ now \in Nat
           /\ CacheTTL \in Nat /\ CacheTTL > 0 /\ Margin \in Nat
           /\ Versions(d) \subseteq Nat \ {0}
<1>1. MaxVersions[d] \in Nat \ {0}
  BY ProviderCachesAssumption
<1>2. Len(published[d]) \in 1..MaxVersions[d]
  BY DEF TypeOK, Versions
<1> QED
  BY <1>1, <1>2, ProviderCachesAssumption DEF TypeOK, Current, Versions, Times

LEMMA DocumentNames == "discovery" \in Documents /\ "jwks" \in Documents
  BY DEF Documents

LEMMA OneIsVersion ==
    ASSUME NEW d \in Documents
    PROVE  1 \in Versions(d)
<1>1. MaxVersions[d] \in Nat \ {0}
  BY ProviderCachesAssumption
<1> QED
  BY <1>1 DEF Versions

LEMMA IdleFacts ==
    ASSUME CachesInv
    PROVE  Idle \in Request /\ RequestSound(Idle)
<1>1. 1 \in Versions("discovery") /\ 1 \in Versions("jwks") /\ 1 \in Secrets /\ 0 \in Times
  BY OneIsVersion, DocumentNames, ProviderCachesAssumption DEF Secrets, Times
<1>2. Idle \in Request
  BY <1>1 DEF Idle, Request, Points, Document, NoBearer, Bearer
<1>3. now \in Nat /\ Current("discovery") >= 1 /\ Current("jwks") >= 1
  BY PublishedFacts, DocumentNames DEF CachesInv
<1>4. RequestSound(Idle)
  BY <1>3 DEF RequestSound, Idle, Document, NoBearer
<1> QED
  BY <1>2, <1>4

-------------------------------------------------------------------------------
(* Time passes and the provider publishes: what is held stays sound.       *)

LEMMA PublishedGrows ==
    ASSUME CachesInv, NEW d \in Documents, Publish(d)
    PROVE  /\ published'[d] \in Seq(Times)
           /\ Len(published'[d]) = Len(published[d]) + 1
           /\ Len(published'[d]) \in Versions(d)
           /\ \A v \in 1..Len(published[d]) : published'[d][v] = published[d][v]
           /\ published'[d][Len(published[d]) + 1] = now
           /\ \A x \in Documents \ {d} : published'[x] = published[x]
           /\ published' \in [Documents -> Seq(Times)]
<1>1. /\ published[d] \in Seq(Times) /\ now \in Times
      /\ published \in [Documents -> Seq(Times)]
      /\ Len(published[d]) \in Nat
  BY PublishedFacts DEF CachesInv, TypeOK
<1>2. published' = [published EXCEPT ![d] = Append(published[d], now)]
  BY DEF Publish
<1>3. published'[d] = Append(published[d], now)
  BY <1>1, <1>2
<1>4. /\ Append(published[d], now) \in Seq(Times)
      /\ Len(Append(published[d], now)) = Len(published[d]) + 1
      /\ \A v \in 1..Len(published[d]) : Append(published[d], now)[v] = published[d][v]
      /\ Append(published[d], now)[Len(published[d]) + 1] = now
  BY <1>1
<1>5. Len(published[d]) + 1 \in Versions(d)
  <2>1. MaxVersions[d] \in Nat
    BY ProviderCachesAssumption
  <2> QED
    BY <1>1, <2>1 DEF Publish, Versions
<1>6. \A x \in Documents \ {d} : published'[x] = published[x]
  BY <1>1, <1>2
<1>7. published' \in [Documents -> Seq(Times)]
  BY <1>1, <1>2, <1>4
<1> QED
  BY <1>3, <1>4, <1>5, <1>6, <1>7

\* The steps that change the clock or the provider.
External == (\E d \in Documents : Publish(d)) \/ Tick

\* A version that was replaced stays replaced at that time; one that was current is so
\* still, or was replaced just now.
LEMMA VersionStable ==
    ASSUME CachesInv, External, NEW d \in Documents, NEW v \in Nat \ {0}, v <= Current(d)
    PROVE  /\ Current(d)' \in Nat /\ v <= Current(d)'
           /\ now' \in Nat /\ now <= now'
           /\ v < Current(d) => /\ v < Current(d)'
                                /\ published'[d][v + 1] = published[d][v + 1]
                                /\ published[d][v + 1] \in Nat
           /\ v = Current(d) => \/ v = Current(d)'
                                \/ v < Current(d)' /\ published'[d][v + 1] = now
<1>a. Current(d) \in Nat /\ now \in Nat /\ PublishedInOrder(d)
  BY PublishedFacts DEF CachesInv
<1>b. v < Current(d) => published[d][v + 1] \in Nat
  BY <1>a DEF PublishedInOrder, Current
<1>1. CASE Tick
  BY <1>1, <1>a, <1>b DEF Tick, Current
<1>2. ASSUME NEW x \in Documents, Publish(x)
      PROVE  /\ Current(d)' \in Nat /\ v <= Current(d)'
             /\ now' \in Nat /\ now <= now'
             /\ v < Current(d) => /\ v < Current(d)'
                                  /\ published'[d][v + 1] = published[d][v + 1]
                                  /\ published[d][v + 1] \in Nat
             /\ v = Current(d) => \/ v = Current(d)'
                                  \/ v < Current(d)' /\ published'[d][v + 1] = now
  <2>1. now' = now
    BY <1>2 DEF Publish
  <2>2. CASE x # d
    <3>1. published'[d] = published[d]
      BY <1>2, <2>2, PublishedGrows
    <3> QED
      BY <1>a, <1>b, <2>1, <3>1 DEF Current
  <2>3. CASE x = d
    <3>1. /\ Len(published'[d]) = Len(published[d]) + 1
          /\ \A i \in 1..Len(published[d]) : published'[d][i] = published[d][i]
          /\ published'[d][Len(published[d]) + 1] = now
      BY <1>2, <2>3, PublishedGrows
    <3>2. v < Current(d) => v + 1 \in 1..Len(published[d])
      BY <1>a DEF Current
    <3> QED
      BY <1>a, <1>b, <2>1, <3>1, <3>2 DEF Current
  <2> QED
    BY <2>2, <2>3
<1> QED
  BY <1>1, <1>2 DEF External

LEMMA EntryStable ==
    ASSUME CachesInv, External, NEW d \in Documents, NEW e,
           e.version \in Nat \ {0}, e.until \in Nat, EntryFresh(d, e)
    PROVE  EntryFresh(d, e)'
<1>1. /\ e.version <= Current(d)' /\ Current(d)' \in Nat
      /\ now' \in Nat /\ now <= now'
      /\ e.version < Current(d) => published'[d][e.version + 1] = published[d][e.version + 1]
      /\ e.version = Current(d) => \/ e.version = Current(d)'
                                   \/ published'[d][e.version + 1] = now
  BY VersionStable DEF EntryFresh
<1>2. now \in Nat /\ CacheTTL \in Nat /\ Current(d) \in Nat
  BY PublishedFacts DEF CachesInv
<1> QED
  BY <1>1, <1>2 DEF EntryFresh

LEMMA AnsweredStable ==
    ASSUME CachesInv, External, NEW d \in Documents, NEW got,
           got.version \in Nat \ {0}, got.since \in Nat, got.since <= now,
           got.version <= Current(d)
    PROVE  /\ got.version <= Current(d)'
           /\ AnsweredSince(d, got) => AnsweredSince(d, got)'
           /\ FreshEnough(d, got) => FreshEnough(d, got)'
<1>1. /\ got.version <= Current(d)' /\ Current(d)' \in Nat
      /\ got.version < Current(d) =>
           /\ got.version < Current(d)'
           /\ published'[d][got.version + 1] = published[d][got.version + 1]
      /\ got.version = Current(d) =>
           \/ got.version = Current(d)'
           \/ got.version < Current(d)' /\ published'[d][got.version + 1] = now
  BY VersionStable
<1>2. now \in Nat /\ CacheTTL \in Nat /\ CacheTTL > 0 /\ Current(d) \in Nat
  BY PublishedFacts DEF CachesInv
<1>3. AnsweredSince(d, got) => AnsweredSince(d, got)'
  BY <1>1, <1>2 DEF AnsweredSince
<1>4. FreshEnough(d, got) => FreshEnough(d, got)'
  BY <1>1, <1>2 DEF FreshEnough
<1> QED
  BY <1>1, <1>3, <1>4

LEMMA RequestStable ==
    ASSUME CachesInv, External, NEW r \in Request, RequestSound(r)
    PROVE  RequestSound(r)'
<1>1. /\ r.discovery.version \in Nat \ {0} /\ r.jwks.version \in Nat \ {0}
      /\ r.key \in Nat \ {0}
      /\ r.discovery.since \in Nat /\ r.jwks.since \in Nat /\ r.asked \in Nat
  BY PublishedFacts, DocumentNames, ProviderCachesAssumption DEF Request, CachesInv, Times
<1>2. /\ r.discovery.version <= Current("discovery")'
      /\ AnsweredSince("discovery", r.discovery) => AnsweredSince("discovery", r.discovery)'
      /\ FreshEnough("discovery", r.discovery) => FreshEnough("discovery", r.discovery)'
  BY <1>1, AnsweredStable, DocumentNames DEF RequestSound
<1>3. /\ r.jwks.version <= Current("jwks")'
      /\ AnsweredSince("jwks", r.jwks) => AnsweredSince("jwks", r.jwks)'
      /\ FreshEnough("jwks", r.jwks) => FreshEnough("jwks", r.jwks)'
  BY <1>1, AnsweredStable, DocumentNames DEF RequestSound
<1>4. r.key <= Current("jwks")' /\ now' \in Nat /\ now <= now' /\ now \in Nat
  BY <1>1, VersionStable, PublishedFacts, DocumentNames DEF RequestSound, CachesInv
<1> QED
  BY <1>1, <1>2, <1>3, <1>4 DEF RequestSound

LEMMA ExternalStep ==
    ASSUME CachesInv, External
    PROVE  CachesInv'
<1>a. UNCHANGED <<secret, discovery, jwks, bearers, request>>
  BY DEF External, Publish, Tick
<1>b. \A d \in Documents : /\ published'[d] \in Seq(Times)
                            /\ Len(published'[d]) \in Versions(d)
                            /\ PublishedInOrder(d)'
  <2> TAKE d \in Documents
  <2>a. /\ published[d] \in Seq(Times) /\ Len(published[d]) \in Versions(d)
        /\ PublishedInOrder(d) /\ now \in Nat /\ Len(published[d]) \in Nat
    BY PublishedFacts DEF CachesInv, Current
  <2>1. CASE Tick \/ \E x \in Documents \ {d} : Publish(x)
    <3>1. published'[d] = published[d] /\ now' \in {now, now + 1}
      BY <2>1, PublishedGrows DEF Tick, Publish
    <3> QED
      BY <2>a, <3>1 DEF PublishedInOrder
  <2>2. CASE Publish(d)
    <3>1. /\ published'[d] \in Seq(Times)
          /\ Len(published'[d]) = Len(published[d]) + 1
          /\ Len(published'[d]) \in Versions(d)
          /\ \A v \in 1..Len(published[d]) : published'[d][v] = published[d][v]
          /\ published'[d][Len(published[d]) + 1] = now
          /\ now' = now
      BY <2>2, PublishedGrows DEF Publish
    <3>2. ASSUME NEW v \in 1..(Len(published[d]) + 1)
          PROVE  /\ published'[d][v] \in Nat /\ published'[d][v] <= now
                 /\ \A x \in 1..v : published'[d][x] <= published'[d][v]
      <4>1. CASE v \in 1..Len(published[d])
        <5>1. /\ published[d][v] \in Nat /\ published[d][v] <= now
              /\ \A x \in 1..v : published[d][x] <= published[d][v]
          BY <2>a, <4>1 DEF PublishedInOrder
        <5>2. published'[d][v] = published[d][v]
          BY <3>1, <4>1
        <5>3. \A x \in 1..v : published'[d][x] = published[d][x]
          BY <2>a, <3>1, <4>1
        <5> QED
          BY <3>1, <5>1, <5>2, <5>3
      <4>2. CASE v = Len(published[d]) + 1
        <5>1. \A x \in 1..Len(published[d]) : published'[d][x] <= now
          BY <2>a, <3>1 DEF PublishedInOrder
        <5> QED
          BY <2>a, <3>1, <4>2, <5>1
      <4> QED
        BY <2>a, <4>1, <4>2
    <3> QED
      BY <3>1, <3>2 DEF PublishedInOrder
  <2> QED
    BY <2>1, <2>2 DEF External
<1>c. /\ published' \in [Documents -> Seq(Times)]
      /\ now' \in Times
  <2>1. ASSUME NEW d \in Documents, Publish(d) PROVE published' \in [Documents -> Seq(Times)]
    BY <2>1, PublishedGrows
  <2>2. Tick => now' \in Times
    BY ProviderCachesAssumption DEF Tick, CachesInv, TypeOK, Times
  <2> QED
    BY <2>1, <2>2 DEF External, Tick, Publish, CachesInv, TypeOK
<1>1. TypeOK'
  BY <1>a, <1>b, <1>c DEF CachesInv, TypeOK
<1>2. EntryFresh("discovery", discovery)' /\ EntryFresh("jwks", jwks)'
  <2>1. /\ discovery.version \in Nat \ {0} /\ discovery.until \in Nat
        /\ jwks.version \in Nat \ {0} /\ jwks.until \in Nat
    BY PublishedFacts, DocumentNames DEF CachesInv, TypeOK, CachedDocument
  <2>2. PICK e : e = discovery
    OBVIOUS
  <2>3. EntryFresh("discovery", e)'
    BY <2>1, <2>2, EntryStable, DocumentNames DEF CachesInv
  <2>4. PICK f : f = jwks
    OBVIOUS
  <2>5. EntryFresh("jwks", f)'
    BY <2>1, <2>4, EntryStable, DocumentNames DEF CachesInv
  <2> QED
    BY <1>a, <2>2, <2>3, <2>4, <2>5 DEF EntryFresh
<1>3. \A s \in Secrets : BearerKept(s)'
  BY <1>a DEF CachesInv, BearerKept
<1>4. ASSUME NEW w \in Workers PROVE RequestSound(request[w])'
  <2>1. PICK r : r = request[w]
    OBVIOUS
  <2>2. r \in Request /\ RequestSound(r)
    BY <2>1 DEF CachesInv, TypeOK
  <2>3. RequestSound(r)'
    BY <2>2, RequestStable
  <2> QED
    BY <1>a, <2>1, <2>3 DEF RequestSound, AnsweredSince, FreshEnough
<1> QED
  BY <1>1, <1>b, <1>2, <1>3, <1>4 DEF CachesInv

-------------------------------------------------------------------------------
(* The steps of the requests.                                              *)

\* The part of the invariant that is about the caches.
CachesSound ==
    /\ discovery \in CachedDocument("discovery") /\ EntryFresh("discovery", discovery)
    /\ jwks \in CachedDocument("jwks") /\ EntryFresh("jwks", jwks)
    /\ bearers \in [Secrets -> CachedBearer]
    /\ \A s \in Secrets : BearerKept(s)

LEMMA OneRequest ==
    ASSUME CachesInv, UNCHANGED <<published, secret, now>>, NEW w \in Workers, NEW r \in Request,
           RequestSound(r), request' = [request EXCEPT ![w] = r], CachesSound'
    PROVE  CachesInv'
<1>1. request' \in [Workers -> Request]
  BY DEF CachesInv, TypeOK
<1>2. TypeOK'
  BY <1>1 DEF CachesInv, TypeOK, CachesSound
<1>3. ASSUME NEW v \in Workers PROVE RequestSound(request[v])'
  <2>1. PICK x : x = request'[v]
    OBVIOUS
  <2>2. x = r \/ x = request[v]
    BY <2>1 DEF CachesInv, TypeOK
  <2>3. RequestSound(x)
    BY <2>2 DEF CachesInv
  <2> QED
    BY <2>1, <2>3 DEF RequestSound, AnsweredSince, FreshEnough, Current
<1>4. \A d \in Documents : PublishedInOrder(d)'
  BY DEF CachesInv, PublishedInOrder
<1> QED
  BY <1>2, <1>3, <1>4 DEF CachesInv, CachesSound

\* When the caches are left alone.
LEMMA OneQuietRequest ==
    ASSUME CachesInv, UNCHANGED <<published, secret, discovery, jwks, bearers, now>>,
           NEW w \in Workers, NEW r \in Request,
           RequestSound(r), request' = [request EXCEPT ![w] = r]
    PROVE  CachesInv'
<1>1. CachesSound'
  BY DEF CachesInv, TypeOK, CachesSound, EntryFresh, BearerKept, Current
<1> QED
  BY <1>1, OneRequest

LEMMA FinishStep ==
    ASSUME CachesInv, UNCHANGED <<published, secret, discovery, jwks, bearers, now>>,
           NEW w \in Workers, Finish(w)
    PROVE  CachesInv'
BY IdleFacts, OneQuietRequest DEF Finish

\* An entry that is used was stored less than a lifetime after its fetch began.
LEMMA UsableIsFresh ==
    ASSUME CachesInv, NEW d \in Documents, NEW e, e.version \in Nat \ {0}, e.until \in Nat,
           EntryFresh(d, e), e.until > now, NEW got,
           got.version = e.version, got.since = now
    PROVE  FreshEnough(d, got)
<1>1. /\ now \in Nat /\ CacheTTL \in Nat /\ Current(d) \in Nat /\ PublishedInOrder(d)
  BY PublishedFacts DEF CachesInv
<1>2. e.version < Current(d) => published[d][e.version + 1] \in Nat
  BY <1>1 DEF PublishedInOrder, Current
<1> QED
  BY <1>1, <1>2 DEF EntryFresh, FreshEnough

\* An answer that came after the question makes a fresh entry and a fresh document.
LEMMA AnswerIsFresh ==
    ASSUME CachesInv, NEW d \in Documents, NEW got, got.version \in Nat \ {0},
           got.version <= Current(d), got.since \in Nat, got.since <= now,
           AnsweredSince(d, got)
    PROVE  /\ EntryFresh(d, [until |-> got.since + CacheTTL, version |-> got.version])
           /\ FreshEnough(d, got)
<1>1. /\ now \in Nat /\ CacheTTL \in Nat /\ CacheTTL > 0 /\ Current(d) \in Nat
      /\ PublishedInOrder(d)
  BY PublishedFacts DEF CachesInv
<1>2. got.version < Current(d) => published[d][got.version + 1] \in Nat
  BY <1>1 DEF PublishedInOrder, Current
<1> QED
  BY <1>1, <1>2 DEF EntryFresh, FreshEnough, AnsweredSince

\* What a request in flight holds, for the steps below.
LEMMA RequestFacts ==
    ASSUME CachesInv, NEW w \in Workers
    PROVE  /\ request[w] \in Request /\ RequestSound(request[w])
           /\ request[w].discovery.version \in Nat \ {0}
           /\ request[w].jwks.version \in Nat \ {0}
           /\ request[w].discovery.since \in Nat /\ request[w].jwks.since \in Nat
           /\ request[w].asked \in Nat /\ request[w].lifetime \in Nat
           /\ now \in Nat /\ now \in Times
           /\ discovery.version \in Versions("discovery") /\ jwks.version \in Versions("jwks")
           /\ discovery.until \in Nat /\ jwks.until \in Nat
           /\ discovery.version \in Nat \ {0} /\ jwks.version \in Nat \ {0}
           /\ Current("discovery") \in Versions("discovery")
           /\ Current("jwks") \in Versions("jwks")
           /\ Current("discovery") \in Nat /\ Current("jwks") \in Nat
           /\ secret \in Secrets /\ 1 \in Secrets
           /\ 0 \in Times
<1>1. request[w] \in Request /\ RequestSound(request[w]) /\ now \in Times
  BY DEF CachesInv, TypeOK
<1>2. /\ Versions("discovery") \subseteq Nat \ {0} /\ Versions("jwks") \subseteq Nat \ {0}
      /\ Current("discovery") \in Versions("discovery") /\ Current("jwks") \in Versions("jwks")
      /\ now \in Nat
  BY PublishedFacts, DocumentNames DEF CachesInv
<1>3. /\ discovery.version \in Versions("discovery") /\ jwks.version \in Versions("jwks")
      /\ discovery.until \in Nat /\ jwks.until \in Nat
  BY DEF CachesInv, TypeOK, CachedDocument
<1>4. Times \subseteq Nat /\ 0 \in Times /\ secret \in Secrets /\ 1 \in Secrets
      /\ Lifetimes \cup {0} \subseteq Nat
  BY ProviderCachesAssumption DEF Times, Secrets, CachesInv, TypeOK
<1>5. /\ request[w].discovery.version \in Versions("discovery")
      /\ request[w].jwks.version \in Versions("jwks")
      /\ request[w].discovery.since \in Times /\ request[w].jwks.since \in Times
      /\ request[w].asked \in Times /\ request[w].lifetime \in Lifetimes \cup {0}
  BY <1>1 DEF Request
<1> QED
  BY <1>1, <1>2, <1>3, <1>4, <1>5

LEMMA DiscoverStep ==
    ASSUME CachesInv, NEW w \in Workers, Discover(w)
    PROVE  CachesInv'
<1>a. Idle \in Request /\ RequestSound(Idle)
  BY IdleFacts
<1>b. EntryFresh("discovery", discovery)
  BY DEF CachesInv
<1>1. CASE Usable(discovery) /\ request' = [request EXCEPT ![w] =
             [Idle EXCEPT !.pc = "code", !.secret = secret,
                          !.discovery = [version |-> discovery.version, since |-> now]]]
  <2>1. PICK r : r = [Idle EXCEPT !.pc = "code", !.secret = secret,
                          !.discovery = [version |-> discovery.version, since |-> now]]
    OBVIOUS
  <2>2. /\ r.pc = "code" /\ r.discovery.version = discovery.version
        /\ r.discovery.since = now /\ r.key = Idle.key /\ r.jwks = Idle.jwks
        /\ r.asked = Idle.asked /\ r.bearer = Idle.bearer
    BY <2>1 DEF Idle
  <2>3. r \in Request
    BY <2>1, <1>a, RequestFacts DEF Request, Points, Idle
  <2>4. FreshEnough("discovery", r.discovery)
    BY <1>1, <1>b, <2>2, RequestFacts, UsableIsFresh, DocumentNames DEF Usable
  <2>5. RequestSound(r)
    BY <1>a, <1>b, <2>2, <2>4, RequestFacts DEF RequestSound, EntryFresh
  <2> QED
    BY <1>1, <2>1, <2>3, <2>5, OneQuietRequest DEF Discover
<1>2. CASE request' = [request EXCEPT ![w] =
             [Idle EXCEPT !.pc = "get_discovery", !.secret = secret, !.discovery.since = now]]
  <2>1. PICK r : r = [Idle EXCEPT !.pc = "get_discovery", !.secret = secret,
                                  !.discovery.since = now]
    OBVIOUS
  <2>2. /\ r.pc = "get_discovery" /\ r.discovery.version = Idle.discovery.version
        /\ r.discovery.since = now /\ r.key = Idle.key /\ r.jwks = Idle.jwks
        /\ r.asked = Idle.asked
    BY <2>1 DEF Idle, Document
  <2>3. r \in Request
    BY <2>1, <1>a, RequestFacts DEF Request, Points, Idle, Document
  <2>4. RequestSound(r)
    BY <1>a, <2>2, RequestFacts DEF RequestSound
  <2> QED
    BY <1>2, <2>1, <2>3, <2>4, OneQuietRequest DEF Discover
<1> QED
  BY <1>1, <1>2 DEF Discover

LEMMA AnswerDiscoveryStep ==
    ASSUME CachesInv, NEW w \in Workers, AnswerDiscovery(w)
    PROVE  CachesInv'
<1>1. PICK r : r = [request[w] EXCEPT !.pc = "store_discovery",
                                      !.discovery.version = Current("discovery")]
  OBVIOUS
<1>2. request[w] \in Request /\ RequestSound(request[w])
  BY RequestFacts
<1>3. /\ r.pc = "store_discovery" /\ r.discovery.version = Current("discovery")
      /\ r.discovery.since = request[w].discovery.since
      /\ r.key = request[w].key /\ r.jwks = request[w].jwks /\ r.asked = request[w].asked
  BY <1>1, <1>2 DEF Request
<1>4. r \in Request
  BY <1>1, <1>2, RequestFacts DEF Request, Points
<1>5. RequestSound(r)
  BY <1>2, <1>3, RequestFacts DEF RequestSound, AnsweredSince
<1>6. request' = [request EXCEPT ![w] = r]
  BY <1>1 DEF AnswerDiscovery
<1> QED
  BY <1>4, <1>5, <1>6, OneQuietRequest DEF AnswerDiscovery

LEMMA StoreDiscoveryStep ==
    ASSUME CachesInv, NEW w \in Workers, StoreDiscovery(w)
    PROVE  CachesInv'
<1>1. PICK r : r = [request[w] EXCEPT !.pc = "code"]
  OBVIOUS
<1>2. request[w] \in Request /\ RequestSound(request[w]) /\ request[w].pc = "store_discovery"
  BY RequestFacts DEF StoreDiscovery, At
<1>3. /\ r.pc = "code" /\ r.discovery = request[w].discovery /\ r.key = request[w].key
      /\ r.jwks = request[w].jwks /\ r.asked = request[w].asked
  BY <1>1, <1>2 DEF Request
<1>4. r \in Request
  BY <1>1, <1>2 DEF Request, Points
<1>5. PICK got : got = request[w].discovery
  OBVIOUS
<1>6. /\ got.version \in Versions("discovery") /\ got.version \in Nat \ {0}
      /\ got.since \in Nat /\ got.since <= now /\ got.version <= Current("discovery")
      /\ AnsweredSince("discovery", got)
  BY <1>2, <1>5, RequestFacts DEF RequestSound, Request
<1>7. /\ EntryFresh("discovery", [until |-> got.since + CacheTTL, version |-> got.version])
      /\ FreshEnough("discovery", got)
  BY <1>6, AnswerIsFresh, DocumentNames
<1>8. RequestSound(r)
  BY <1>2, <1>3, <1>5, <1>7 DEF RequestSound
<1>9. /\ discovery' = [until |-> got.since + CacheTTL, version |-> got.version]
      /\ UNCHANGED <<published, secret, jwks, bearers, now>>
      /\ request' = [request EXCEPT ![w] = r]
  BY <1>1, <1>5 DEF StoreDiscovery, Expiry
<1>10. got.since + CacheTTL \in Nat
  BY <1>6, ProviderCachesAssumption
<1>11. CachesSound'
  <2>1. discovery' \in CachedDocument("discovery")
    BY <1>6, <1>9, <1>10 DEF CachedDocument
  <2>2. EntryFresh("discovery", discovery)'
    BY <1>7, <1>9 DEF EntryFresh, Current
  <2>3. jwks' \in CachedDocument("jwks") /\ EntryFresh("jwks", jwks)'
    BY <1>9 DEF CachesInv, TypeOK, EntryFresh, Current
  <2>4. bearers' \in [Secrets -> CachedBearer] /\ \A s \in Secrets : BearerKept(s)'
    BY <1>9 DEF CachesInv, TypeOK, BearerKept
  <2> QED
    BY <2>1, <2>2, <2>3, <2>4 DEF CachesSound
<1> QED
  BY <1>4, <1>8, <1>9, <1>11, OneRequest

LEMMA ExchangeStep ==
    ASSUME CachesInv, NEW w \in Workers, Exchange(w)
    PROVE  CachesInv'
<1>1. PICK r : r = [request[w] EXCEPT !.pc = "lookup_jwks", !.key = Current("jwks"),
                                      !.discovery = Document]
  OBVIOUS
<1>2. request[w] \in Request /\ RequestSound(request[w])
  BY RequestFacts
<1>3. /\ r.pc = "lookup_jwks" /\ r.discovery = Document /\ r.key = Current("jwks")
      /\ r.jwks = request[w].jwks /\ r.asked = request[w].asked
  BY <1>1, <1>2 DEF Request
<1>4. Idle \in Request /\ RequestSound(Idle) /\ Idle.discovery = Document
  BY IdleFacts DEF Idle
<1>5. r \in Request
  BY <1>1, <1>2, <1>4, RequestFacts DEF Request, Points
<1>6. RequestSound(r)
  BY <1>2, <1>3, <1>4, RequestFacts DEF RequestSound
<1>7. request' = [request EXCEPT ![w] = r]
  BY <1>1 DEF Exchange
<1> QED
  BY <1>5, <1>6, <1>7, OneQuietRequest DEF Exchange

-------------------------------------------------------------------------------
(* The key set.                                                            *)

\* The request that Verify leaves behind.
LEMMA VerifyFacts ==
    ASSUME CachesInv, NEW w \in Workers, NEW got, Verify(w, got),
           got \in [version : Versions("jwks"), since : Times],
           got.since <= now, got.version <= Current("jwks"), FreshEnough("jwks", got)
    PROVE  \E r \in Request : RequestSound(r) /\ request' = [request EXCEPT ![w] = r]
<1>1. PICK r : r = [Idle EXCEPT !.pc = IF request[w].key \in KeysOf(got.version)
                                          THEN "accepted" ELSE "refused",
                                !.key = request[w].key, !.jwks = got]
  OBVIOUS
<1>2. /\ Idle \in Request /\ RequestSound(Idle)
      /\ request[w] \in Request /\ RequestSound(request[w])
  BY IdleFacts, RequestFacts
<1>3. /\ r.pc \in {"accepted", "refused"} /\ r.key = request[w].key /\ r.jwks = got
      /\ r.discovery = Idle.discovery /\ r.asked = Idle.asked
  BY <1>1 DEF Idle
<1>4. r \in Request
  BY <1>1, <1>2 DEF Request, Points, Idle
<1>5. RequestSound(r)
  BY <1>2, <1>3 DEF RequestSound
<1>6. request' = [request EXCEPT ![w] = r]
  BY <1>1 DEF Verify
<1> QED
  BY <1>4, <1>5, <1>6

LEMMA LookupJwksStep ==
    ASSUME CachesInv, NEW w \in Workers, LookupJwks(w)
    PROVE  CachesInv'
<1>u. UNCHANGED <<published, secret, discovery, jwks, bearers, now>>
  BY DEF LookupJwks
<1>1. CASE Usable(jwks) /\ Verify(w, [version |-> jwks.version, since |-> now])
  <2>1. PICK got : got = [version |-> jwks.version, since |-> now]
    OBVIOUS
  <2>2. EntryFresh("jwks", jwks)
    BY DEF CachesInv
  <2>3. got.version = jwks.version /\ got.since = now
    BY <2>1
  <2>4. FreshEnough("jwks", got)
    BY <1>1, <2>2, <2>3, RequestFacts, UsableIsFresh, DocumentNames DEF Usable
  <2>5. /\ got \in [version : Versions("jwks"), since : Times]
        /\ got.since <= now /\ got.version <= Current("jwks")
    BY <2>1, <2>2, <2>3, RequestFacts DEF EntryFresh
  <2>6. Verify(w, got)
    BY <1>1, <2>1
  <2>7. PICK r \in Request : RequestSound(r) /\ request' = [request EXCEPT ![w] = r]
    BY <2>4, <2>5, <2>6, VerifyFacts
  <2> QED
    BY <1>u, <2>7, OneQuietRequest
<1>2. CASE request' = [request EXCEPT ![w].pc = "get_jwks", ![w].jwks.since = now]
  <2>1. PICK r : r = [request[w] EXCEPT !.pc = "get_jwks", !.jwks.since = now]
    OBVIOUS
  <2>2. request[w] \in Request /\ RequestSound(request[w])
    BY RequestFacts
  <2>3. /\ r.pc = "get_jwks" /\ r.discovery = request[w].discovery /\ r.key = request[w].key
        /\ r.jwks.version = request[w].jwks.version /\ r.jwks.since = now
        /\ r.asked = request[w].asked
    BY <2>1, <2>2 DEF Request
  <2>4. r \in Request
    BY <2>1, <2>2, RequestFacts DEF Request, Points
  <2>5. RequestSound(r)
    BY <2>2, <2>3, RequestFacts DEF RequestSound
  <2>6. request' = [request EXCEPT ![w] = r]
    BY <1>2, <2>1
  <2> QED
    BY <1>u, <2>4, <2>5, <2>6, OneQuietRequest
<1> QED
  BY <1>1, <1>2 DEF LookupJwks

LEMMA GotJwksStep ==
    ASSUME CachesInv, NEW w \in Workers, GotJwks(w),
           UNCHANGED <<published, secret, discovery, jwks, bearers, now>>
    PROVE  CachesInv'
<1>1. PICK r : r = [request[w] EXCEPT !.pc = "store_jwks", !.jwks.version = Current("jwks"),
                                      !.secret = 1, !.bearer = NoBearer]
  OBVIOUS
<1>2. request[w] \in Request /\ RequestSound(request[w])
  BY RequestFacts
<1>3. /\ r.pc = "store_jwks" /\ r.discovery = request[w].discovery /\ r.key = request[w].key
      /\ r.jwks.version = Current("jwks") /\ r.jwks.since = request[w].jwks.since
      /\ r.asked = request[w].asked
  BY <1>1, <1>2 DEF Request
<1>4. Idle \in Request /\ Idle.bearer = NoBearer
  BY IdleFacts DEF Idle
<1>5. r \in Request
  BY <1>1, <1>2, <1>4, RequestFacts DEF Request, Points
<1>6. RequestSound(r)
  BY <1>2, <1>3, RequestFacts DEF RequestSound, AnsweredSince
<1>7. request' = [request EXCEPT ![w] = r]
  BY <1>1 DEF GotJwks
<1> QED
  BY <1>5, <1>6, <1>7, OneQuietRequest

LEMMA AnswerJwksStep ==
    ASSUME CachesInv, NEW w \in Workers, AnswerJwks(w)
    PROVE  CachesInv'
BY GotJwksStep DEF AnswerJwks

LEMMA RetryJwksStep ==
    ASSUME CachesInv, NEW w \in Workers, RetryJwks(w)
    PROVE  CachesInv'
BY GotJwksStep, FinishStep DEF RetryJwks

LEMMA StoreJwksStep ==
    ASSUME CachesInv, NEW w \in Workers, StoreJwks(w)
    PROVE  CachesInv'
<1>2. request[w] \in Request /\ RequestSound(request[w]) /\ request[w].pc = "store_jwks"
  BY RequestFacts DEF StoreJwks, At
<1>5. PICK got : got = request[w].jwks
  OBVIOUS
<1>6. /\ got \in [version : Versions("jwks"), since : Times]
      /\ got.version \in Versions("jwks") /\ got.version \in Nat \ {0}
      /\ got.since \in Nat /\ got.since <= now /\ got.version <= Current("jwks")
      /\ AnsweredSince("jwks", got)
  BY <1>2, <1>5, RequestFacts DEF RequestSound, Request
<1>7. /\ EntryFresh("jwks", [until |-> got.since + CacheTTL, version |-> got.version])
      /\ FreshEnough("jwks", got)
  BY <1>6, AnswerIsFresh, DocumentNames
<1>9. /\ jwks' = [until |-> got.since + CacheTTL, version |-> got.version]
      /\ UNCHANGED <<published, secret, discovery, bearers, now>>
      /\ Verify(w, got)
  BY <1>5 DEF StoreJwks, Expiry
<1>8. PICK r \in Request : RequestSound(r) /\ request' = [request EXCEPT ![w] = r]
  BY <1>6, <1>7, <1>9, VerifyFacts
<1>10. got.since + CacheTTL \in Nat
  BY <1>6, ProviderCachesAssumption
<1>11. CachesSound'
  <2>1. jwks' \in CachedDocument("jwks")
    BY <1>6, <1>9, <1>10 DEF CachedDocument
  <2>2. EntryFresh("jwks", jwks)'
    BY <1>7, <1>9 DEF EntryFresh, Current
  <2>3. discovery' \in CachedDocument("discovery") /\ EntryFresh("discovery", discovery)'
    BY <1>9 DEF CachesInv, TypeOK, EntryFresh, Current
  <2>4. bearers' \in [Secrets -> CachedBearer] /\ \A s \in Secrets : BearerKept(s)'
    BY <1>9 DEF CachesInv, TypeOK, BearerKept
  <2> QED
    BY <2>1, <2>2, <2>3, <2>4 DEF CachesSound
<1> QED
  BY <1>8, <1>9, <1>11, OneRequest

-------------------------------------------------------------------------------
(* The bearers.                                                            *)

LEMMA LookupBearerStep ==
    ASSUME CachesInv, NEW w \in Workers, LookupBearer(w)
    PROVE  CachesInv'
<1>u. UNCHANGED <<published, secret, discovery, jwks, bearers, now>>
  BY DEF LookupBearer
<1>a. request[w] \in Request /\ RequestSound(request[w])
  BY RequestFacts
<1>b. request[w].secret \in Secrets
  BY <1>a DEF Request
<1>c. /\ bearers[request[w].secret] \in CachedBearer
      /\ BearerKept(request[w].secret)
  BY <1>b DEF CachesInv, TypeOK
<1>1. CASE /\ Usable(bearers[request[w].secret])
           /\ request' = [request EXCEPT ![w].pc = "retry_jwks",
                                         ![w].bearer = bearers[request[w].secret].bearer]
  <2>1. PICK r : r = [request[w] EXCEPT !.pc = "retry_jwks",
                                        !.bearer = bearers[request[w].secret].bearer]
    OBVIOUS
  <2>2. /\ r.pc = "retry_jwks" /\ r.discovery = request[w].discovery /\ r.key = request[w].key
        /\ r.jwks = request[w].jwks /\ r.asked = request[w].asked
        /\ r.secret = request[w].secret /\ r.bearer = bearers[request[w].secret].bearer
    BY <2>1, <1>a DEF Request
  <2>3. bearers[request[w].secret].bearer \in Bearer
    BY <1>c DEF CachedBearer
  <2>4. r \in Request
    BY <2>1, <2>3, <1>a DEF Request, Points
  <2>5. bearers[request[w].secret].until > 0
    <3>1. bearers[request[w].secret].until \in Nat
      BY <1>c DEF CachedBearer
    <3> QED
      BY <1>1, <3>1, RequestFacts DEF Usable
  <2>6. r.bearer.secret = r.secret
    BY <1>c, <2>2, <2>5 DEF BearerKept
  <2>7. RequestSound(r)
    BY <1>a, <2>2, <2>6 DEF RequestSound
  <2>8. request' = [request EXCEPT ![w] = r]
    BY <1>1, <2>1
  <2> QED
    BY <1>u, <2>4, <2>7, <2>8, OneQuietRequest
<1>2. CASE request' = [request EXCEPT ![w].pc = "get_bearer", ![w].asked = now]
  <2>1. PICK r : r = [request[w] EXCEPT !.pc = "get_bearer", !.asked = now]
    OBVIOUS
  <2>2. /\ r.pc = "get_bearer" /\ r.discovery = request[w].discovery /\ r.key = request[w].key
        /\ r.jwks = request[w].jwks /\ r.asked = now
    BY <2>1, <1>a DEF Request
  <2>3. r \in Request
    BY <2>1, <1>a, RequestFacts DEF Request, Points
  <2>4. RequestSound(r)
    BY <1>a, <2>2, RequestFacts DEF RequestSound
  <2>5. request' = [request EXCEPT ![w] = r]
    BY <1>2, <2>1
  <2> QED
    BY <1>u, <2>3, <2>4, <2>5, OneQuietRequest
<1> QED
  BY <1>1, <1>2 DEF LookupBearer, BearerKey

LEMMA AnswerBearerStep ==
    ASSUME CachesInv, NEW w \in Workers, AnswerBearer(w)
    PROVE  CachesInv'
<1>a. request[w] \in Request /\ RequestSound(request[w])
  BY RequestFacts
<1>b. PICK lifetime \in Lifetimes :
         request' = [request EXCEPT
              ![w].pc = "store_bearer",
              ![w].bearer = [secret |-> secret, expires |-> now + lifetime],
              ![w].lifetime = lifetime]
  BY DEF AnswerBearer
<1>1. PICK r : r = [request[w] EXCEPT
              !.pc = "store_bearer",
              !.bearer = [secret |-> secret, expires |-> now + lifetime],
              !.lifetime = lifetime]
  OBVIOUS
<1>2. /\ r.pc = "store_bearer" /\ r.discovery = request[w].discovery /\ r.key = request[w].key
      /\ r.jwks = request[w].jwks /\ r.asked = request[w].asked
      /\ r.secret = request[w].secret /\ r.bearer.secret = secret
      /\ r.bearer.expires = now + lifetime /\ r.lifetime = lifetime
  BY <1>1, <1>a DEF Request
<1>3. lifetime \in Nat /\ now + lifetime \in Nat
  BY <1>b, RequestFacts, ProviderCachesAssumption
<1>4. [secret |-> secret, expires |-> now + lifetime] \in Bearer
  BY <1>3, RequestFacts DEF Bearer
<1>5. r \in Request
  BY <1>1, <1>4, <1>a, <1>b DEF Request, Points
<1>6. r.bearer.secret = r.secret /\ r.bearer.expires >= r.asked + r.lifetime
  <2>1. request[w].secret = secret
    BY DEF AnswerBearer
  <2>2. request[w].asked <= now /\ request[w].asked \in Nat /\ now \in Nat
    BY <1>a, RequestFacts DEF RequestSound
  <2> QED
    BY <1>2, <1>3, <2>1, <2>2
<1>7. RequestSound(r)
  BY <1>a, <1>2, <1>6 DEF RequestSound
<1>8. request' = [request EXCEPT ![w] = r]
  BY <1>b, <1>1
<1> QED
  BY <1>5, <1>7, <1>8, OneQuietRequest DEF AnswerBearer

LEMMA StoreBearerStep ==
    ASSUME CachesInv, NEW w \in Workers, StoreBearer(w)
    PROVE  CachesInv'
<1>a. /\ request[w] \in Request /\ RequestSound(request[w]) /\ request[w].pc = "store_bearer"
      /\ request[w].asked \in Nat /\ request[w].lifetime \in Nat
  BY RequestFacts DEF StoreBearer, At
<1>b. request[w].secret \in Secrets /\ request[w].bearer \in Bearer
  BY <1>a DEF Request
<1>1. PICK r : r = [request[w] EXCEPT !.pc = "retry_jwks", !.asked = 0, !.lifetime = 0]
  OBVIOUS
<1>2. /\ r.pc = "retry_jwks" /\ r.discovery = request[w].discovery /\ r.key = request[w].key
      /\ r.jwks = request[w].jwks /\ r.asked = 0
      /\ r.secret = request[w].secret /\ r.bearer = request[w].bearer
  BY <1>1, <1>a DEF Request
<1>3. r \in Request
  BY <1>1, <1>a, RequestFacts DEF Request, Points
<1>4. RequestSound(r)
  BY <1>a, <1>2, RequestFacts DEF RequestSound
<1>5. /\ request' = [request EXCEPT ![w] = r]
      /\ UNCHANGED <<published, secret, discovery, jwks, now>>
  BY <1>1 DEF StoreBearer
<1>6. bearers' \in [Secrets -> CachedBearer] /\ \A s \in Secrets : BearerKept(s)'
  <2>a. /\ bearers \in [Secrets -> CachedBearer]
        /\ \A s \in Secrets : BearerKept(s)
    BY DEF CachesInv, TypeOK
  <2>1. CASE request[w].lifetime > Margin
    <3>1. PICK k : k = [until |-> request[w].asked + (request[w].lifetime - Margin),
                        bearer |-> request[w].bearer]
      OBVIOUS
    <3>2. bearers' = [bearers EXCEPT ![request[w].secret] = k]
      BY <2>1, <3>1 DEF StoreBearer, BearerKey
    <3>3. /\ k.bearer.secret = request[w].secret
          /\ k.bearer.expires \in Nat
          /\ k.bearer.expires >= request[w].asked + request[w].lifetime
      BY <1>a, <1>b, <3>1 DEF RequestSound, Bearer
    <3>4. request[w].asked + (request[w].lifetime - Margin) \in Nat /\ Margin \in Nat
      BY <1>a, <2>1, ProviderCachesAssumption
    <3>5. k \in CachedBearer /\ k.until = request[w].asked + (request[w].lifetime - Margin)
      BY <1>b, <3>1, <3>4 DEF CachedBearer
    <3>6. k.bearer.expires >= k.until + Margin
      BY <1>a, <3>3, <3>4, <3>5
    <3>7. bearers' \in [Secrets -> CachedBearer]
      BY <2>a, <3>2, <3>5
    <3>8. ASSUME NEW s \in Secrets PROVE BearerKept(s)'
      <4>1. CASE s = request[w].secret
        <5>1. bearers'[s] = k
          BY <2>a, <3>2, <4>1
        <5> QED
          BY <3>3, <3>6, <4>1, <5>1 DEF BearerKept
      <4>2. CASE s # request[w].secret
        <5>1. bearers'[s] = bearers[s]
          BY <2>a, <3>2, <4>2
        <5> QED
          BY <2>a, <5>1 DEF BearerKept
      <4> QED
        BY <4>1, <4>2
    <3> QED
      BY <3>7, <3>8
  <2>2. CASE ~(request[w].lifetime > Margin)
    <3>1. bearers' = bearers
      BY <2>2 DEF StoreBearer
    <3> QED
      BY <2>a, <3>1 DEF BearerKept
  <2> QED
    BY <2>1, <2>2
<1>7. CachesSound'
  <2>1. /\ discovery' \in CachedDocument("discovery") /\ EntryFresh("discovery", discovery)'
        /\ jwks' \in CachedDocument("jwks") /\ EntryFresh("jwks", jwks)'
    BY <1>5 DEF CachesInv, TypeOK, EntryFresh, Current
  <2> QED
    BY <1>6, <2>1 DEF CachesSound
<1> QED
  BY <1>3, <1>4, <1>5, <1>7, OneRequest

-------------------------------------------------------------------------------
(* The invariant holds.                                                    *)

LEMMA EmptyFacts ==
    ASSUME NEW s \in Secrets
    PROVE  EmptyBearer \in CachedBearer
<1>1. 1 \in Secrets
  BY ProviderCachesAssumption DEF Secrets
<1> QED
  BY <1>1 DEF EmptyBearer, CachedBearer, NoBearer, Bearer

\* Empty caches are sound.
LEMMA EmptyCaches ==
    ASSUME TypeOK, discovery = Empty, jwks = Empty,
           bearers = [s \in Secrets |-> EmptyBearer],
           \A d \in Documents : PublishedInOrder(d)
    PROVE  CachesSound
<1>1. /\ 1 \in Versions("discovery") /\ 1 \in Versions("jwks")
      /\ CacheTTL \in Nat /\ now \in Nat
      /\ Current("discovery") \in Nat /\ Current("discovery") >= 1
      /\ Current("jwks") \in Nat /\ Current("jwks") >= 1
  BY OneIsVersion, PublishedFacts, DocumentNames
<1>2. ASSUME NEW d \in Documents
      PROVE  EntryFresh(d, Empty)
  <2>1. Current(d) \in Nat /\ Current(d) >= 1
    BY PublishedFacts
  <2>2. Current(d) > 1 => published[d][2] \in Nat
    BY <2>1 DEF PublishedInOrder, Current
  <2> QED
    BY <1>1, <2>1, <2>2 DEF EntryFresh, Empty
<1>3. bearers \in [Secrets -> CachedBearer]
  BY EmptyFacts
<1>4. \A s \in Secrets : BearerKept(s)
  BY DEF BearerKept, EmptyBearer
<1> QED
  BY <1>1, <1>2, <1>3, <1>4, DocumentNames DEF CachesSound, CachedDocument, Empty

LEMMA InitInv == Init => CachesInv
<1> SUFFICES ASSUME Init PROVE CachesInv
  OBVIOUS
<1>1. /\ 1 \in Versions("discovery") /\ 1 \in Versions("jwks") /\ 1 \in Secrets /\ 0 \in Times
      /\ \A d \in Documents : 1 \in Versions(d)
  BY OneIsVersion, DocumentNames, ProviderCachesAssumption DEF Secrets, Times
<1>2. /\ <<0>> \in Seq(Times) /\ Len(<<0>>) = 1
      /\ \A d \in Documents : published[d] = <<0>>
  BY <1>1 DEF Init
<1>3. Idle \in Request
  BY <1>1 DEF Idle, Request, Points, Document, NoBearer, Bearer
<1>4. \A s \in Secrets : EmptyBearer \in CachedBearer
  BY EmptyFacts
<1>5. TypeOK
  BY <1>1, <1>2, <1>3, <1>4 DEF TypeOK, Init, CachedDocument, Empty
<1>6. ASSUME NEW d \in Documents PROVE PublishedInOrder(d)
  BY <1>2 DEF PublishedInOrder, Init
<1>7. CachesSound
  BY <1>5, <1>6, EmptyCaches DEF Init
<1>8. ASSUME NEW w \in Workers PROVE RequestSound(request[w])
  <2>1. now \in Nat /\ now = 0 /\ Current("discovery") >= 1 /\ Current("jwks") >= 1
    BY <1>5, PublishedFacts, DocumentNames DEF Init
  <2>2. request[w] = Idle
    BY DEF Init
  <2> QED
    BY <2>1, <2>2 DEF RequestSound, Idle, Document, NoBearer
<1> QED
  BY <1>5, <1>6, <1>7, <1>8 DEF CachesInv, CachesSound

LEMMA RestartStep ==
    ASSUME CachesInv, Restart
    PROVE  CachesInv'
<1>1. /\ discovery' = Empty /\ jwks' = Empty /\ bearers' = [s \in Secrets |-> EmptyBearer]
      /\ request' = [w \in Workers |-> Idle]
      /\ UNCHANGED <<published, secret, now>>
  BY DEF Restart
<1>2. Idle \in Request /\ RequestSound(Idle)
  BY IdleFacts
<1>3. Empty \in CachedDocument("discovery") /\ Empty \in CachedDocument("jwks")
  BY OneIsVersion, DocumentNames DEF Empty, CachedDocument
<1>4. bearers' \in [Secrets -> CachedBearer]
  BY <1>1, EmptyFacts
<1>5. TypeOK'
  BY <1>1, <1>2, <1>3, <1>4 DEF CachesInv, TypeOK
<1>6. \A d \in Documents : PublishedInOrder(d)'
  BY <1>1 DEF CachesInv, PublishedInOrder
<1>7. CachesSound'
  <2>1. ASSUME NEW d \in Documents PROVE EntryFresh(d, Empty)
    <3>1. /\ Current(d) \in Nat /\ Current(d) >= 1 /\ CacheTTL \in Nat /\ now \in Nat
          /\ PublishedInOrder(d)
      BY PublishedFacts DEF CachesInv
    <3>2. Current(d) > 1 => published[d][2] \in Nat
      BY <3>1 DEF PublishedInOrder, Current
    <3> QED
      BY <3>1, <3>2 DEF EntryFresh, Empty
  <2>2. EntryFresh("discovery", discovery)' /\ EntryFresh("jwks", jwks)'
    BY <1>1, <2>1, DocumentNames DEF EntryFresh, Current
  <2>3. \A s \in Secrets : BearerKept(s)'
    BY <1>1 DEF BearerKept, EmptyBearer
  <2> QED
    BY <1>1, <1>3, <1>4, <2>2, <2>3 DEF CachesSound
<1>8. ASSUME NEW w \in Workers PROVE RequestSound(request[w])'
  <2>1. request'[w] = Idle
    BY <1>1
  <2> QED
    BY <1>1, <1>2, <2>1 DEF RequestSound, AnsweredSince, FreshEnough, Current
<1> QED
  BY <1>5, <1>6, <1>7, <1>8 DEF CachesInv, CachesSound

LEMMA RotateStep ==
    ASSUME CachesInv, RotateSecret \/ UNCHANGED vars
    PROVE  CachesInv'
<1>1. UNCHANGED <<published, discovery, jwks, bearers, request, now>>
  BY DEF RotateSecret, vars
<1>2. secret' \in Secrets
  BY ProviderCachesAssumption DEF RotateSecret, vars, CachesInv, TypeOK, Secrets
<1>3. TypeOK'
  BY <1>1, <1>2 DEF CachesInv, TypeOK
<1>4. /\ \A d \in Documents : PublishedInOrder(d)'
      /\ EntryFresh("discovery", discovery)' /\ EntryFresh("jwks", jwks)'
      /\ \A s \in Secrets : BearerKept(s)'
  BY <1>1 DEF CachesInv, PublishedInOrder, EntryFresh, BearerKept, Current
<1>5. \A w \in Workers : RequestSound(request[w])'
  BY <1>1 DEF CachesInv, RequestSound, AnsweredSince, FreshEnough, Current
<1> QED
  BY <1>3, <1>4, <1>5 DEF CachesInv

LEMMA NextInv == CachesInv /\ [Next]_vars => CachesInv'
<1> SUFFICES ASSUME CachesInv, [Next]_vars PROVE CachesInv'
  OBVIOUS
<1>1. ASSUME NEW w \in Workers, Serve(w) PROVE CachesInv'
  <2>1. End(w) => CachesInv'
    BY FinishStep DEF End
  <2> QED
    BY <1>1, <2>1, DiscoverStep, AnswerDiscoveryStep, StoreDiscoveryStep, ExchangeStep,
       LookupJwksStep, AnswerJwksStep, LookupBearerStep, AnswerBearerStep, StoreBearerStep,
       RetryJwksStep, StoreJwksStep DEF Serve
<1>2. CASE (\E d \in Documents : Publish(d)) \/ Tick
  BY <1>2, ExternalStep DEF External
<1>3. CASE RotateSecret \/ UNCHANGED vars
  BY <1>3, RotateStep
<1>4. CASE Restart
  BY <1>4, RestartStep
<1> QED
  BY <1>1, <1>2, <1>3, <1>4 DEF Next

LEMMA SpecInv == Spec => []CachesInv
BY InitInv, NextInv, PTL DEF Spec

-------------------------------------------------------------------------------
(* The theorems.                                                           *)

\* Every variable of the model keeps its type.
THEOREM TypeCorrectness == Spec => []TypeOK
<1>1. CachesInv => TypeOK
  BY DEF CachesInv
<1> QED
  BY <1>1, SpecInv, PTL

\* No request of exchange_oidc_code or of the endpoints uses a discovery document or a
\* key set that was replaced a whole lifetime of the cache before it looked.
THEOREM Staleness == Spec => []StalenessBounded
<1>1. CachesInv => StalenessBounded
  <2> SUFFICES ASSUME CachesInv, NEW w \in Workers
               PROVE  /\ HasDiscovery(request[w]) => FreshEnough("discovery", request[w].discovery)
                      /\ HasJwks(request[w]) => FreshEnough("jwks", request[w].jwks)
    BY DEF StalenessBounded
  <2>1. RequestSound(request[w])
    BY RequestFacts
  <2>2. request[w].pc = "store_discovery" => FreshEnough("discovery", request[w].discovery)
    <3>1. PICK got : got = request[w].discovery
      OBVIOUS
    <3>2. ASSUME AnsweredSince("discovery", got)
          PROVE  FreshEnough("discovery", got)
      BY <2>1, <3>1, <3>2, RequestFacts, AnswerIsFresh, DocumentNames DEF RequestSound
    <3> QED
      BY <2>1, <3>1, <3>2 DEF RequestSound
  <2>3. request[w].pc = "store_jwks" => FreshEnough("jwks", request[w].jwks)
    <3>1. PICK got : got = request[w].jwks
      OBVIOUS
    <3>2. ASSUME AnsweredSince("jwks", got)
          PROVE  FreshEnough("jwks", got)
      BY <2>1, <3>1, <3>2, RequestFacts, AnswerIsFresh, DocumentNames DEF RequestSound
    <3> QED
      BY <2>1, <3>1, <3>2 DEF RequestSound
  <2> QED
    BY <2>1, <2>2, <2>3 DEF RequestSound, HasDiscovery, HasJwks
<1> QED
  BY <1>1, SpecInv, PTL

\* _verify_id_token_with_jwks refuses the key a provider has changed to only while the
\* change is younger than an entry of _jwks_cache can be.
THEOREM Refusals == Spec => []RefusalsRecent
<1>1. CachesInv => RefusalsRecent
  <2> SUFFICES ASSUME CachesInv, NEW w \in Workers, At(w, "refused"),
                      request[w].key > request[w].jwks.version
               PROVE  published["jwks"][request[w].key] + CacheTTL > request[w].jwks.since
    BY DEF RefusalsRecent
  <2>1. /\ request[w].jwks.version \in Nat \ {0} /\ request[w].jwks.since \in Nat
        /\ Current("jwks") \in Nat /\ RequestSound(request[w])
        /\ request[w] \in Request /\ CacheTTL \in Nat
    BY RequestFacts, ProviderCachesAssumption
  <2>2. request[w].key \in Nat /\ request[w].key <= Current("jwks")
    <3>1. Versions("jwks") \subseteq Nat
      BY PublishedFacts, DocumentNames DEF CachesInv
    <3> QED
      BY <2>1, <3>1 DEF RequestSound, Request
  <2>3. FreshEnough("jwks", request[w].jwks)
    BY <2>1 DEF RequestSound, At
  <2>4. published["jwks"][request[w].jwks.version + 1] + CacheTTL > request[w].jwks.since
    BY <2>1, <2>2, <2>3 DEF FreshEnough
  <2>5. /\ request[w].key \in 1..Len(published["jwks"])
        /\ request[w].jwks.version + 1 \in 1..request[w].key
        /\ request[w].jwks.version + 1 \in 1..Len(published["jwks"])
    BY <2>1, <2>2 DEF Current
  <2>6. /\ published["jwks"][request[w].jwks.version + 1] <= published["jwks"][request[w].key]
        /\ published["jwks"][request[w].key] \in Nat
        /\ published["jwks"][request[w].jwks.version + 1] \in Nat
    BY <2>5, DocumentNames DEF CachesInv, PublishedInOrder
  <2> QED
    BY <2>1, <2>4, <2>6
<1> QED
  BY <1>1, SpecInv, PTL

\* _client_credentials_token never hands out of its cache a token with less than
\* _CC_TOKEN_REFRESH_MARGIN to live.
THEOREM BearerMargin == Spec => []CachedBearersOutlastMargin
<1>1. CachesInv => CachedBearersOutlastMargin
  <2> SUFFICES ASSUME CachesInv, NEW s \in Secrets, Usable(bearers[s])
               PROVE  bearers[s].bearer.expires > now + Margin
    BY DEF CachedBearersOutlastMargin
  <2>1. bearers[s] \in CachedBearer /\ BearerKept(s) /\ now \in Nat /\ Margin \in Nat
    BY ProviderCachesAssumption, PublishedFacts, DocumentNames DEF CachesInv, TypeOK
  <2>2. bearers[s].until \in Nat /\ bearers[s].bearer.expires \in Nat
    BY <2>1 DEF CachedBearer, Bearer
  <2> QED
    BY <2>1, <2>2 DEF BearerKept, Usable
<1> QED
  BY <1>1, SpecInv, PTL

\* The bearer of a retry is one that the client secret the request loaded has earned.
THEOREM BearerSecret == Spec => []BearersMatchSecret
<1>1. CachesInv => BearersMatchSecret
  BY DEF CachesInv, BearersMatchSecret, RequestSound, At
<1> QED
  BY <1>1, SpecInv, PTL

===============================================================================
