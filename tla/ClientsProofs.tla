---------------------------- MODULE ClientsProofs ----------------------------
(***************************************************************************)
(* Proofs about module Clients, for any owners, any limit, any number of   *)
(* handlers and any bound on accounts and secrets.                         *)
(***************************************************************************)
EXTENDS Clients, SequenceTheorems, FiniteSetTheorems, TLAPS

-------------------------------------------------------------------------------
(* The inductive invariant.                                                *)

\* What a handler carries along.
SafeHandler(h) ==
    /\ h \in Handler
    /\ h.pc = "insert" => h.owner \in Owners
    /\ h.pc \in {"mint", "rotate", "revoke", "update"} => h.client \in DOMAIN clients
    /\ h.pc \in {"rotate", "revoke", "update"} => h.loaded \in ServiceAccount
    /\ h.pc = "rotate" => h.secret \in 1..secrets

TablesInv ==
    /\ TypeOK
    /\ \A w \in Workers : SafeHandler(handler[w])

\* Registrations that passed the count are counted with the accounts there are.
OwnerInv(k) ==
    \A o \in Owners :
        Cardinality(Owned(o)) + Cardinality(Registering(o)) < MaxPerOwner + k

\* Tokens that are about to be minted for a revoked account are counted with those
\* that were; before the revocation none is late.
LateInv ==
    \A c \in DOMAIN clients :
        /\ ~clients[c].revoked => clients[c].late = 0
        /\ clients[c].late + Cardinality(Minting(c)) <= Cardinality(Workers)

\* The secrets an account has or had.
Known(c) == {clients[c].secret} \cup clients[c].replaced

\* A secret that was generated and not stored yet is known to no account and to no
\* other handler; what two accounts know is disjoint.
SecretInv ==
    /\ \A c \in DOMAIN clients : /\ Known(c) \subseteq 1..secrets
                                 /\ clients[c].secret \notin clients[c].replaced
    /\ \A c, d \in DOMAIN clients : c # d => Known(c) \cap Known(d) = {}
    /\ \A w \in Workers : handler[w].pc = "rotate" =>
         /\ \A c \in DOMAIN clients : handler[w].secret \notin Known(c)
         /\ \A v \in Workers \ {w} : handler[v].pc = "rotate" =>
              handler[v].secret # handler[w].secret

-------------------------------------------------------------------------------
(* What the table and the handlers hold.                                   *)

LEMMA RowFacts ==
    ASSUME TypeOK
    PROVE  /\ Len(clients) \in Nat /\ Len(clients) <= MaxClients
           /\ DOMAIN clients = 1..Len(clients)
           /\ DOMAIN clients \subseteq ClientIds
           /\ secrets \in Nat /\ secrets <= MaxSecrets
           /\ \A c \in DOMAIN clients :
                /\ clients[c] \in ServiceAccount
                /\ clients[c].owner \in Owners /\ clients[c].secret \in SecretIds
                /\ clients[c].active \in BOOLEAN /\ clients[c].revoked \in BOOLEAN
                /\ clients[c].replaced \in SUBSET SecretIds /\ clients[c].late \in Nat
<1>1. \A c \in DOMAIN clients : clients[c] \in ServiceAccount
  BY DEF TypeOK
<1>2. /\ Len(clients) \in Nat /\ Len(clients) <= MaxClients
      /\ DOMAIN clients = 1..Len(clients)
      /\ secrets \in Nat /\ secrets <= MaxSecrets
  BY ClientsAssumption DEF TypeOK
<1> QED
  BY <1>1, <1>2, ClientsAssumption DEF ServiceAccount, ClientIds

LEMMA MapIsSequence ==
    ASSUME TypeOK, NEW f \in [DOMAIN clients -> ServiceAccount]
    PROVE  f \in Seq(ServiceAccount) /\ Len(f) = Len(clients) /\ DOMAIN f = DOMAIN clients
<1> QED
  BY RowFacts

LEMMA Finite ==
    /\ Cardinality(Workers) \in Nat /\ Cardinality(Workers) > 0
    /\ \A S \in SUBSET Workers : /\ IsFiniteSet(S) /\ Cardinality(S) \in Nat
                                 /\ Cardinality(S) <= Cardinality(Workers)
                                 /\ \A T \in SUBSET S : Cardinality(T) <= Cardinality(S)
<1>1. /\ IsFiniteSet(Workers) /\ Workers # {}
  BY ClientsAssumption
<1>2. Cardinality(Workers) \in Nat /\ Cardinality(Workers) # 0
  BY <1>1, FS_CardinalityType, FS_EmptySet
<1>3. \A S \in SUBSET Workers : IsFiniteSet(S) /\ Cardinality(S) <= Cardinality(Workers)
  BY <1>1, FS_Subset
<1> QED
  BY <1>2, <1>3, FS_Subset, FS_CardinalityType

LEMMA OwnedFinite ==
    ASSUME TypeOK, NEW o
    PROVE  IsFiniteSet(Owned(o)) /\ Cardinality(Owned(o)) \in Nat
<1>1. IsFiniteSet(1..Len(clients)) /\ Owned(o) \subseteq 1..Len(clients)
  BY RowFacts, FS_Interval DEF Owned
<1> QED
  BY <1>1, FS_Subset, FS_CardinalityType

-------------------------------------------------------------------------------
(* Where the handler of a step goes.                                       *)

LEMMA IdleIsSafe == SafeHandler(Idle) /\ SafeHandler(Idle)'
<1>1. Idle \in Handler
  BY ClientsAssumption DEF Idle, Handler, Points
<1> QED
  BY <1>1 DEF SafeHandler, Idle

LEMMA FinishFacts ==
    ASSUME TypeOK, NEW w \in Workers, Finish(w)
    PROVE  /\ \A v \in Workers \ {w} : handler'[v] = handler[v]
           /\ handler'[w] = Idle
<1> QED
  BY DEF Finish, TypeOK

LEMMA StartFacts ==
    ASSUME TypeOK, NEW w \in Workers, NEW point, NEW o, NEW c, NEW secret, NEW patch,
           Start(w, point, o, c, secret, patch)
    PROVE  /\ handler[w].pc = "idle"
           /\ \A v \in Workers \ {w} : handler'[v] = handler[v]
           /\ handler'[w].pc = point /\ handler'[w].owner = o /\ handler'[w].client = c
           /\ handler'[w].secret = secret /\ handler'[w].patch = patch
           /\ handler'[w].loaded = IF c = 0 THEN None ELSE clients[c]
           /\ handler'[w] = [pc |-> point, owner |-> o, client |-> c, secret |-> secret,
                             loaded |-> IF c = 0 THEN None ELSE clients[c], patch |-> patch]
<1>1. handler' = [handler EXCEPT ![w] =
                    [pc |-> point, owner |-> o, client |-> c, secret |-> secret,
                     loaded |-> IF c = 0 THEN None ELSE clients[c], patch |-> patch]]
  BY DEF Start
<1>2. handler'[w] = [pc |-> point, owner |-> o, client |-> c, secret |-> secret,
                     loaded |-> IF c = 0 THEN None ELSE clients[c], patch |-> patch]
  BY <1>1 DEF TypeOK
<1>3. \A v \in Workers \ {w} : handler'[v] = handler[v]
  BY <1>1 DEF TypeOK
<1> QED
  BY <1>2, <1>3 DEF Start, At

-------------------------------------------------------------------------------
(* What a step does to the table.                                          *)

\* The row of account c was overwritten by a handler that had loaded it.
Overwritten(c) ==
    /\ clients' \in Seq(ServiceAccount) /\ Len(clients') = Len(clients)
    /\ DOMAIN clients' = DOMAIN clients
    /\ \A d \in DOMAIN clients \ {c} : clients'[d] = clients[d]
    /\ clients'[c].owner = clients[c].owner /\ clients'[c].late = clients[c].late
    /\ clients[c].revoked => clients'[c].revoked

KeepsSecret(c) ==
    clients'[c].secret = clients[c].secret /\ clients'[c].replaced = clients[c].replaced

ReplacesSecret(c, secret) ==
    /\ clients'[c].secret = secret
    /\ clients'[c].replaced = clients[c].replaced \cup {clients[c].secret}

LEMMA StoreOverwrites ==
    ASSUME TypeOK, NEW w \in Workers, SafeHandler(handler[w]),
           handler[w].pc \in {"rotate", "revoke", "update"},
           NEW changed \in ServiceAccount,
           changed.revoked = handler[w].loaded.revoked \/ changed.revoked = TRUE,
           Store(w, changed)
    PROVE  /\ Overwritten(handler[w].client)
           /\ \/ KeepsSecret(handler[w].client)
              \/ ReplacesSecret(handler[w].client, changed.secret)
           /\ changed.secret = handler[w].loaded.secret => KeepsSecret(handler[w].client)
<1>1. PICK c : c = handler[w].client
  OBVIOUS
<1>2. PICK row : row = clients[c]
  OBVIOUS
<1>3. PICK loaded : loaded = handler[w].loaded
  OBVIOUS
<1>4. PICK secret : secret = IF changed.secret = loaded.secret THEN row.secret ELSE changed.secret
  OBVIOUS
<1>5. PICK active : active = IF changed.active = loaded.active THEN row.active ELSE changed.active
  OBVIOUS
<1>6. PICK revoked :
        revoked = IF changed.revoked = loaded.revoked THEN row.revoked ELSE changed.revoked
  OBVIOUS
<1>7. PICK replaced :
        replaced = IF secret = row.secret THEN row.replaced ELSE row.replaced \cup {row.secret}
  OBVIOUS
<1>8. PICK stored : stored = [row EXCEPT !.secret = secret, !.active = active,
                                         !.revoked = revoked, !.replaced = replaced]
  OBVIOUS
<1>9. clients' = [clients EXCEPT ![c] = stored]
  BY <1>1, <1>2, <1>3, <1>4, <1>5, <1>6, <1>7, <1>8 DEF Store
<1>10. c \in DOMAIN clients /\ row \in ServiceAccount
  BY <1>1, <1>2, RowFacts DEF SafeHandler
<1>11. /\ secret \in SecretIds /\ active \in BOOLEAN /\ revoked \in BOOLEAN
       /\ replaced \in SUBSET SecretIds
       /\ row.revoked => revoked
  BY <1>3, <1>4, <1>5, <1>6, <1>7, <1>10 DEF ServiceAccount
<1>12. stored \in ServiceAccount
  BY <1>8, <1>10, <1>11 DEF ServiceAccount
<1>13. /\ stored.owner = row.owner /\ stored.late = row.late /\ stored.revoked = revoked
       /\ stored.secret = secret /\ stored.replaced = replaced
  BY <1>8, <1>10 DEF ServiceAccount
<1>14. clients' \in [DOMAIN clients -> ServiceAccount]
  BY <1>9, <1>12, RowFacts
<1>15. /\ clients' \in Seq(ServiceAccount) /\ Len(clients') = Len(clients)
       /\ DOMAIN clients' = DOMAIN clients
  BY <1>14, MapIsSequence
<1>16. clients'[c] = stored /\ \A d \in DOMAIN clients \ {c} : clients'[d] = clients[d]
  BY <1>9, <1>10
<1>17. Overwritten(c)
  BY <1>2, <1>11, <1>13, <1>15, <1>16 DEF Overwritten
<1>18. secret = row.secret => KeepsSecret(c)
  BY <1>2, <1>7, <1>13, <1>16 DEF KeepsSecret
<1>19. secret # row.secret => ReplacesSecret(c, changed.secret)
  BY <1>2, <1>4, <1>7, <1>13, <1>16 DEF ReplacesSecret
<1> QED
  BY <1>1, <1>3, <1>4, <1>17, <1>18, <1>19

\* A handler commits the row it had loaded.
LEMMA WriteFacts ==
    ASSUME TablesInv, NEW w \in Workers, Rotate(w) \/ RevokeCommit(w) \/ Update(w)
    PROVE  /\ handler[w].client \in DOMAIN clients
           /\ Overwritten(handler[w].client)
           /\ Finish(w) /\ UNCHANGED secrets /\ handler[w].pc \in {"rotate", "revoke", "update"}
           /\ \/ KeepsSecret(handler[w].client)
              \/ /\ handler[w].pc = "rotate"
                 /\ ReplacesSecret(handler[w].client, handler[w].secret)
<1>1. PICK loaded : loaded = handler[w].loaded
  OBVIOUS
<1>2. /\ handler[w].pc \in {"rotate", "revoke", "update"}
      /\ Finish(w) /\ UNCHANGED secrets /\ TypeOK /\ SafeHandler(handler[w])
  BY DEF Rotate, RevokeCommit, Update, At, TablesInv
<1>3. handler[w].client \in DOMAIN clients /\ loaded \in ServiceAccount
  BY <1>1, <1>2 DEF SafeHandler
<1>4. CASE Rotate(w)
  <2>1. PICK changed : changed = [loaded EXCEPT !.secret = handler[w].secret]
    OBVIOUS
  <2>2. handler[w].pc = "rotate" /\ handler[w].secret \in SecretIds
    BY <1>2, <1>4, RowFacts, ClientsAssumption DEF Rotate, At, SafeHandler, SecretIds
  <2>3. changed \in ServiceAccount
    BY <1>3, <2>1, <2>2 DEF ServiceAccount
  <2>4. changed.revoked = loaded.revoked /\ changed.secret = handler[w].secret
    BY <1>3, <2>1 DEF ServiceAccount
  <2>5. Store(w, changed)
    BY <1>1, <1>4, <2>1 DEF Rotate
  <2> QED
    BY <1>1, <1>2, <1>3, <2>2, <2>3, <2>4, <2>5, StoreOverwrites
<1>5. CASE RevokeCommit(w)
  <2>1. PICK changed : changed = [loaded EXCEPT !.active = FALSE, !.revoked = TRUE]
    OBVIOUS
  <2>2. changed \in ServiceAccount
    BY <1>3, <2>1 DEF ServiceAccount
  <2>3. changed.revoked = TRUE /\ changed.secret = loaded.secret
    BY <1>3, <2>1 DEF ServiceAccount
  <2>4. Store(w, changed)
    BY <1>1, <1>5, <2>1 DEF RevokeCommit
  <2> QED
    BY <1>1, <1>2, <1>3, <2>2, <2>3, <2>4, StoreOverwrites
<1>6. CASE Update(w)
  <2>1. PICK active : active = IF handler[w].patch = None THEN loaded.active
                               ELSE handler[w].patch
    OBVIOUS
  <2>2. PICK revoked : revoked = (loaded.revoked \/ handler[w].patch = FALSE)
    OBVIOUS
  <2>3. PICK changed : changed = [loaded EXCEPT !.active = active, !.revoked = revoked]
    OBVIOUS
  <2>4. active \in BOOLEAN /\ revoked \in BOOLEAN /\ (revoked = loaded.revoked \/ revoked = TRUE)
    BY <1>2, <1>3, <2>1, <2>2 DEF SafeHandler, Handler, ServiceAccount
  <2>5. changed \in ServiceAccount
    BY <1>3, <2>3, <2>4 DEF ServiceAccount
  <2>6. changed.revoked = revoked /\ changed.secret = loaded.secret
    BY <1>3, <2>3 DEF ServiceAccount
  <2>7. Store(w, changed)
    BY <1>1, <1>6, <2>1, <2>2, <2>3 DEF Update
  <2> QED
    BY <1>1, <1>2, <1>3, <2>4, <2>5, <2>6, <2>7, StoreOverwrites
<1> QED
  BY <1>4, <1>5, <1>6

LEMMA MintFacts ==
    ASSUME TablesInv, NEW w \in Workers, Mint(w), NEW c, c = handler[w].client
    PROVE  /\ c \in DOMAIN clients /\ handler[w].pc = "mint"
           /\ Finish(w) /\ UNCHANGED secrets
           /\ clients' \in Seq(ServiceAccount) /\ Len(clients') = Len(clients)
           /\ DOMAIN clients' = DOMAIN clients
           /\ \A d \in DOMAIN clients \ {c} : clients'[d] = clients[d]
           /\ clients'[c].owner = clients[c].owner /\ clients'[c].revoked = clients[c].revoked
           /\ KeepsSecret(c)
           /\ clients'[c].late = IF clients[c].revoked THEN clients[c].late + 1
                                 ELSE clients[c].late
<1>1. /\ handler[w].pc = "mint" /\ Finish(w) /\ UNCHANGED secrets /\ TypeOK
      /\ SafeHandler(handler[w])
  BY DEF Mint, At, TablesInv
<1>2. c \in DOMAIN clients
  BY <1>1 DEF SafeHandler
<1>3. PICK late : late = IF clients[c].revoked THEN clients[c].late + 1 ELSE clients[c].late
  OBVIOUS
<1>4. PICK stored : stored = [clients[c] EXCEPT !.late = late]
  OBVIOUS
<1>5. clients' = [clients EXCEPT ![c] = stored]
  BY <1>3, <1>4 DEF Mint
<1>6. late \in Nat /\ clients[c] \in ServiceAccount
  BY <1>1, <1>2, <1>3, RowFacts
<1>7. stored \in ServiceAccount
  BY <1>4, <1>6 DEF ServiceAccount
<1>8. /\ stored.owner = clients[c].owner /\ stored.revoked = clients[c].revoked
      /\ stored.secret = clients[c].secret /\ stored.replaced = clients[c].replaced
      /\ stored.late = late
  BY <1>4, <1>6 DEF ServiceAccount
<1>9. clients' \in [DOMAIN clients -> ServiceAccount]
  BY <1>1, <1>5, <1>7, RowFacts
<1>10. /\ clients' \in Seq(ServiceAccount) /\ Len(clients') = Len(clients)
       /\ DOMAIN clients' = DOMAIN clients
  BY <1>1, <1>9, MapIsSequence
<1>11. clients'[c] = stored /\ \A d \in DOMAIN clients \ {c} : clients'[d] = clients[d]
  BY <1>2, <1>5
<1> QED
  BY <1>1, <1>2, <1>3, <1>8, <1>10, <1>11 DEF KeepsSecret

LEMMA CreateFacts ==
    ASSUME TablesInv, NEW w \in Workers, Create(w), NEW n, n = Len(clients) + 1
    PROVE  /\ clients' \in Seq(ServiceAccount) /\ Len(clients') = n /\ n <= MaxClients
           /\ DOMAIN clients' = DOMAIN clients \cup {n} /\ n \notin DOMAIN clients
           /\ \A d \in DOMAIN clients : clients'[d] = clients[d]
           /\ clients'[n].owner = handler[w].owner /\ clients'[n].secret = secrets + 1
           /\ clients'[n].replaced = {} /\ clients'[n].late = 0
           /\ secrets' = secrets + 1 /\ secrets' \in 0..MaxSecrets
           /\ handler[w].pc = "insert" /\ handler[w].owner \in Owners /\ Finish(w)
<1>1. PICK new : new = [owner |-> handler[w].owner, secret |-> secrets + 1,
                        active |-> TRUE, revoked |-> FALSE, replaced |-> {}, late |-> 0]
  OBVIOUS
<1>2. /\ handler[w].pc = "insert" /\ Finish(w) /\ Len(clients) < MaxClients
      /\ secrets < MaxSecrets /\ secrets' = secrets + 1
      /\ TypeOK /\ SafeHandler(handler[w])
      /\ clients' = Append(clients, new)
  BY <1>1 DEF Create, At, TablesInv
<1>3. handler[w].owner \in Owners
  BY <1>2 DEF SafeHandler
<1>4. secrets + 1 \in SecretIds /\ secrets' \in 0..MaxSecrets
  BY <1>2, RowFacts, ClientsAssumption DEF SecretIds
<1>5. new \in ServiceAccount
  BY <1>1, <1>3, <1>4 DEF ServiceAccount
<1>6. clients \in Seq(ServiceAccount) /\ Len(clients) \in Nat /\ DOMAIN clients = 1..Len(clients)
  BY <1>2, RowFacts DEF TypeOK
<1>7. /\ clients' \in Seq(ServiceAccount) /\ Len(clients') = n /\ DOMAIN clients' = 1..n
      /\ \A d \in 1..Len(clients) : clients'[d] = clients[d]
      /\ clients'[n] = new
  BY <1>2, <1>5, <1>6
<1>8. DOMAIN clients' = DOMAIN clients \cup {n} /\ n \notin DOMAIN clients /\ n <= MaxClients
  BY <1>2, <1>6, <1>7, ClientsAssumption
<1>9. /\ clients'[n].owner = handler[w].owner /\ clients'[n].secret = secrets + 1
      /\ clients'[n].replaced = {} /\ clients'[n].late = 0
  BY <1>1, <1>7
<1> QED
  BY <1>2, <1>3, <1>4, <1>6, <1>7, <1>8, <1>9

\* The steps that leave the table alone.
Begin(w) ==
    \/ \E o \in Owners : CreateBegin(w, o)
    \/ \E c \in ClientIds :
        \/ \E secret \in SecretIds : TokenBegin(w, c, secret)
        \/ RotateBegin(w, c)
        \/ RevokeBegin(w, c)
        \/ \E patch \in BOOLEAN \cup {None} : UpdateBegin(w, c, patch)
    \/ Abandon(w)

LEMMA StepCases ==
    ASSUME [Next]_vars
    PROVE  \/ \E w \in Workers : \/ Create(w)
                                 \/ Mint(w)
                                 \/ Rotate(w) \/ RevokeCommit(w) \/ Update(w)
                                 \/ Begin(w)
           \/ UNCHANGED vars
<1> QED
  BY DEF Next, Step, Begin

LEMMA BeginFacts ==
    ASSUME TablesInv, NEW w \in Workers, Begin(w)
    PROVE  /\ UNCHANGED clients /\ secrets <= secrets' /\ secrets' \in 0..MaxSecrets
           /\ \A v \in Workers \ {w} : handler'[v] = handler[v]
           /\ \E h : handler' = [handler EXCEPT ![w] = h] /\ SafeHandler(h)'
<1>1. TypeOK /\ secrets \in Nat /\ secrets \in 0..MaxSecrets
  BY RowFacts, ClientsAssumption DEF TablesInv, TypeOK
<1>2. ASSUME NEW point \in Points \ {"mint", "rotate", "revoke", "update"},
             NEW o \in Owners, UNCHANGED <<clients, secrets>>,
             Start(w, point, o, 0, 0, None)
      PROVE  \E h : handler' = [handler EXCEPT ![w] = h] /\ SafeHandler(h)'
  <2>1. PICK h : h = [pc |-> point, owner |-> o, client |-> 0, secret |-> 0,
                      loaded |-> None, patch |-> None]
    OBVIOUS
  <2>2. handler' = [handler EXCEPT ![w] = h]
    BY <1>2, <2>1 DEF Start
  <2>3. h \in Handler
    BY <2>1, ClientsAssumption DEF Handler
  <2>4. SafeHandler(h)'
    BY <1>2, <2>1, <2>3 DEF SafeHandler
  <2> QED
    BY <2>2, <2>4
<1>3. ASSUME NEW point \in {"mint", "rotate", "revoke", "update"},
             NEW c \in DOMAIN clients, NEW secret \in 0..MaxSecrets,
             NEW patch \in BOOLEAN \cup {None}, UNCHANGED clients,
             point = "rotate" => secret \in 1..secrets',
             Start(w, point, None, c, secret, patch)
      PROVE  \E h : handler' = [handler EXCEPT ![w] = h] /\ SafeHandler(h)'
  <2>1. PICK row : row = clients[c]
    OBVIOUS
  <2>2. row \in ServiceAccount /\ c # 0 /\ c \in 0..MaxClients
    BY <1>1, <2>1, RowFacts, ClientsAssumption
  <2>3. PICK h : h = [pc |-> point, owner |-> None, client |-> c, secret |-> secret,
                      loaded |-> row, patch |-> patch]
    OBVIOUS
  <2>4. handler' = [handler EXCEPT ![w] = h]
    BY <1>3, <2>1, <2>2, <2>3 DEF Start
  <2>5. h \in Handler
    BY <2>2, <2>3 DEF Handler, Points
  <2>6. SafeHandler(h)'
    BY <1>3, <2>2, <2>3, <2>5 DEF SafeHandler
  <2> QED
    BY <2>4, <2>6
<1>4. ASSUME NEW o \in Owners, CreateBegin(w, o)
      PROVE  \E h : handler' = [handler EXCEPT ![w] = h] /\ SafeHandler(h)'
  BY <1>2, <1>4 DEF CreateBegin, Points
<1>5. ASSUME NEW c \in ClientIds, NEW secret \in SecretIds, TokenBegin(w, c, secret)
      PROVE  \E h : handler' = [handler EXCEPT ![w] = h] /\ SafeHandler(h)'
  BY <1>3, <1>5, ClientsAssumption DEF TokenBegin
<1>6. ASSUME NEW c \in ClientIds, RotateBegin(w, c)
      PROVE  \E h : handler' = [handler EXCEPT ![w] = h] /\ SafeHandler(h)'
  <2>1. secrets + 1 \in 0..MaxSecrets /\ secrets + 1 \in 1..secrets'
    BY <1>1, <1>6, ClientsAssumption DEF RotateBegin
  <2> QED
    BY <1>3, <1>6, <2>1 DEF RotateBegin
<1>7. ASSUME NEW c \in ClientIds, RevokeBegin(w, c)
      PROVE  \E h : handler' = [handler EXCEPT ![w] = h] /\ SafeHandler(h)'
  BY <1>3, <1>7, ClientsAssumption DEF RevokeBegin
<1>8. ASSUME NEW c \in ClientIds, NEW patch \in BOOLEAN \cup {None}, UpdateBegin(w, c, patch)
      PROVE  \E h : handler' = [handler EXCEPT ![w] = h] /\ SafeHandler(h)'
  BY <1>3, <1>8, ClientsAssumption DEF UpdateBegin
<1>9. \E h : handler' = [handler EXCEPT ![w] = h] /\ SafeHandler(h)'
  <2>1. CASE Abandon(w)
    BY <2>1, IdleIsSafe DEF Abandon, Finish
  <2> QED
    BY <1>4, <1>5, <1>6, <1>7, <1>8, <2>1 DEF Begin
<1>10. UNCHANGED clients /\ secrets <= secrets' /\ secrets' \in 0..MaxSecrets
  BY <1>1, ClientsAssumption
     DEF Begin, CreateBegin, TokenBegin, RotateBegin, RevokeBegin, UpdateBegin, Abandon
<1> QED
  BY <1>1, <1>9, <1>10 DEF TypeOK

\* No step takes a row away or a secret back.
Grows ==
    /\ clients' \in Seq(ServiceAccount) /\ Len(clients') <= MaxClients
    /\ DOMAIN clients \subseteq DOMAIN clients'
    /\ secrets <= secrets' /\ secrets' \in 0..MaxSecrets

LEMMA NextGrows ==
    ASSUME TablesInv, [Next]_vars
    PROVE  Grows
<1>1. /\ clients \in Seq(ServiceAccount) /\ Len(clients) <= MaxClients
      /\ secrets \in 0..MaxSecrets /\ secrets \in Nat
  BY ClientsAssumption DEF TablesInv, TypeOK
<1>2. ASSUME NEW w \in Workers, Create(w) PROVE Grows
  <2>1. PICK n : n = Len(clients) + 1
    OBVIOUS
  <2>2. /\ clients' \in Seq(ServiceAccount) /\ Len(clients') = n /\ n <= MaxClients
        /\ DOMAIN clients \subseteq DOMAIN clients'
        /\ secrets' = secrets + 1 /\ secrets' \in 0..MaxSecrets
    BY <1>2, <2>1, CreateFacts
  <2> QED
    BY <1>1, <2>2 DEF Grows
<1>3. ASSUME NEW w \in Workers, Mint(w) PROVE Grows
  <2>1. PICK c : c = handler[w].client
    OBVIOUS
  <2>2. /\ clients' \in Seq(ServiceAccount) /\ Len(clients') = Len(clients)
        /\ DOMAIN clients' = DOMAIN clients /\ UNCHANGED secrets
    BY <1>3, <2>1, MintFacts
  <2> QED
    BY <1>1, <2>2 DEF Grows
<1>4. ASSUME NEW w \in Workers, Rotate(w) \/ RevokeCommit(w) \/ Update(w) PROVE Grows
  <2>1. Overwritten(handler[w].client) /\ UNCHANGED secrets
    BY <1>4, WriteFacts
  <2> QED
    BY <1>1, <2>1 DEF Grows, Overwritten
<1>5. ASSUME NEW w \in Workers, Begin(w) PROVE Grows
  BY <1>1, <1>5, BeginFacts DEF Grows
<1>6. CASE UNCHANGED vars
  BY <1>1, <1>6 DEF Grows, vars
<1> QED
  BY <1>2, <1>3, <1>4, <1>5, <1>6, StepCases

LEMMA SafeIsStable ==
    ASSUME TablesInv, [Next]_vars, NEW h, SafeHandler(h)
    PROVE  SafeHandler(h)'
<1>1. Grows /\ secrets \in Nat
  BY NextGrows, RowFacts DEF TablesInv
<1> QED
  BY <1>1 DEF SafeHandler, Grows

LEMMA TablesStep ==
    ASSUME TablesInv, [Next]_vars
    PROVE  TablesInv'
<1>1. \/ UNCHANGED handler
      \/ \E w \in Workers : \E h : handler' = [handler EXCEPT ![w] = h] /\ SafeHandler(h)'
  <2>1. ASSUME NEW w \in Workers, Finish(w)
        PROVE  \E h : handler' = [handler EXCEPT ![w] = h] /\ SafeHandler(h)'
    BY <2>1, IdleIsSafe DEF Finish
  <2> QED
    BY <2>1, StepCases, BeginFacts DEF Create, Mint, Rotate, RevokeCommit, Update, vars
<1>2. ASSUME NEW v \in Workers PROVE SafeHandler(handler[v])'
  <2>1. PICK g : g = handler[v]
    OBVIOUS
  <2>2. SafeHandler(g)'
    BY <2>1, SafeIsStable DEF TablesInv
  <2>3. CASE handler'[v] = handler[v]
    BY <2>1, <2>2, <2>3
  <2>4. CASE handler'[v] # handler[v]
    <3>1. PICK w \in Workers : \E h : handler' = [handler EXCEPT ![w] = h] /\ SafeHandler(h)'
      BY <1>1, <2>4
    <3>2. PICK h : handler' = [handler EXCEPT ![w] = h] /\ SafeHandler(h)'
      BY <3>1
    <3>3. handler'[v] = h
      BY <2>4, <3>2 DEF TablesInv, TypeOK
    <3> QED
      BY <3>2, <3>3
  <2> QED
    BY <2>3, <2>4
<1>3. handler' \in [Workers -> Handler]
  <2>1. \A v \in Workers : handler'[v] \in Handler
    BY <1>2 DEF SafeHandler
  <2> QED
    BY <1>1, <2>1 DEF TablesInv, TypeOK
<1> QED
  BY <1>2, <1>3, NextGrows DEF Grows, TablesInv, TypeOK

LEMMA TablesInit ==
    ASSUME Init PROVE TablesInv
<1> QED
  BY IdleIsSafe, ClientsAssumption DEF Init, TablesInv, TypeOK, SafeHandler

-------------------------------------------------------------------------------
(* The limit of an owner.                                                  *)

LEMMA OwnerKept ==
    ASSUME TablesInv, NEW k \in Nat, OwnerInv(k), NEW o \in Owners, Owned(o)' = Owned(o),
           Registering(o)' \subseteq Registering(o)
    PROVE  Cardinality(Owned(o)') + Cardinality(Registering(o)')
             < MaxPerOwner + k
<1>1. Registering(o) \in SUBSET Workers
  BY DEF Registering
<1>2. /\ Cardinality(Registering(o)') <= Cardinality(Registering(o))
      /\ Cardinality(Registering(o)) \in Nat /\ Cardinality(Registering(o)') \in Nat
  BY <1>1, Finite
<1>3. Cardinality(Owned(o)) \in Nat
  BY OwnedFinite DEF TablesInv
<1> QED
  BY <1>2, <1>3, Finite, ClientsAssumption DEF OwnerInv

LEMMA OwnerStep ==
    ASSUME TablesInv, NEW k \in Nat, OwnerInv(k), RegistrationsWithin(k)', [Next]_vars
    PROVE  OwnerInv(k)'
<1> SUFFICES ASSUME NEW o \in Owners
             PROVE  Cardinality(Owned(o)') + Cardinality(Registering(o)')
                      < MaxPerOwner + k
  BY DEF OwnerInv
<1> DEFINE Goal == Cardinality(Owned(o)') + Cardinality(Registering(o)')
                     < MaxPerOwner + k
<1>1. TypeOK /\ \A S \in SUBSET Workers : Cardinality(S) \in Nat
  BY Finite DEF TablesInv
<1>2. ASSUME NEW w \in Workers, Finish(w)
      PROVE  Registering(o)' \subseteq Registering(o) \ {w}
  <2>1. /\ \A v \in Workers \ {w} : handler'[v] = handler[v]
        /\ handler'[w].pc = "idle"
    BY <1>1, <1>2, FinishFacts DEF Idle
  <2> QED
    BY <2>1 DEF Registering
<1>3. ASSUME NEW w \in Workers, Create(w) PROVE Goal
  <2>1. PICK n : n = Len(clients) + 1
    OBVIOUS
  <2>2. /\ DOMAIN clients' = DOMAIN clients \cup {n} /\ n \notin DOMAIN clients
        /\ \A d \in DOMAIN clients : clients'[d] = clients[d]
        /\ clients'[n].owner = handler[w].owner
        /\ handler[w].pc = "insert" /\ Finish(w)
    BY <1>3, <2>1, CreateFacts
  <2>3. CASE handler[w].owner # o
    <3>1. Owned(o)' = Owned(o)
      BY <2>2, <2>3 DEF Owned
    <3> QED
      BY <1>2, <2>2, <3>1, OwnerKept
  <2>4. CASE handler[w].owner = o
    <3>1. Owned(o)' = Owned(o) \cup {n} /\ n \notin Owned(o)
      BY <2>2, <2>4 DEF Owned
    <3>2. /\ Cardinality(Owned(o)') = Cardinality(Owned(o)) + 1
          /\ Cardinality(Owned(o)) \in Nat
      BY <1>1, <3>1, OwnedFinite, FS_AddElement
    <3>3. Registering(o) \in SUBSET Workers /\ w \in Registering(o)
      BY <2>2, <2>4 DEF Registering
    <3>4. /\ IsFiniteSet(Registering(o) \ {w})
          /\ Cardinality(Registering(o) \ {w}) = Cardinality(Registering(o)) - 1
      BY <3>3, Finite, FS_RemoveElement
    <3>5. Cardinality(Registering(o)') <= Cardinality(Registering(o)) - 1
      BY <1>2, <2>2, <3>4, FS_Subset
    <3>6. Cardinality(Registering(o)) \in Nat /\ Cardinality(Registering(o)') \in Nat
      BY <1>1, <3>3, <1>2, <2>2
    <3> QED
      BY <3>2, <3>5, <3>6, Finite, ClientsAssumption DEF OwnerInv
  <2> QED
    BY <2>3, <2>4
<1>4. ASSUME NEW w \in Workers, Mint(w) PROVE Goal
  <2>1. PICK c : c = handler[w].client
    OBVIOUS
  <2>2. /\ DOMAIN clients' = DOMAIN clients /\ Finish(w)
        /\ \A d \in DOMAIN clients \ {c} : clients'[d] = clients[d]
        /\ clients'[c].owner = clients[c].owner
    BY <1>4, <2>1, MintFacts
  <2>3. Owned(o)' = Owned(o)
    BY <2>2 DEF Owned
  <2> QED
    BY <1>2, <2>2, <2>3, OwnerKept
<1>5. ASSUME NEW w \in Workers, Rotate(w) \/ RevokeCommit(w) \/ Update(w) PROVE Goal
  <2>1. Overwritten(handler[w].client) /\ Finish(w)
    BY <1>5, WriteFacts
  <2>2. Owned(o)' = Owned(o)
    BY <2>1 DEF Owned, Overwritten
  <2> QED
    BY <1>2, <2>1, <2>2, OwnerKept
<1>6. ASSUME NEW w \in Workers, Begin(w) PROVE Goal
  <2>1. Owned(o)' = Owned(o) /\ \A v \in Workers \ {w} : handler'[v] = handler[v]
    BY <1>6, BeginFacts DEF Owned
  <2>2. CASE CreateBegin(w, o)
    <3>1. Cardinality(Owned(o)') < MaxPerOwner /\ Cardinality(Owned(o)') \in Nat
      BY <1>1, <2>1, <2>2, OwnedFinite DEF CreateBegin
    <3>2. Registering(o)' \in SUBSET Workers
      BY DEF Registering
    <3>3. /\ Cardinality(Registering(o)') \in Nat
          /\ Cardinality(Registering(o)') <= k
      BY <3>2, Finite DEF RegistrationsWithin
    <3> QED
      BY <3>1, <3>3, Finite, ClientsAssumption
  <2>3. CASE ~CreateBegin(w, o)
    <3>1. ~(handler'[w].pc = "insert" /\ handler'[w].owner = o)
      <4>1. ASSUME NEW q \in Owners, q # o, CreateBegin(w, q)
            PROVE  handler'[w].owner # o
        BY <1>1, <4>1, StartFacts DEF CreateBegin
      <4>2. ASSUME NEW point, point # "insert", NEW q, NEW c, NEW secret, NEW patch,
                   Start(w, point, q, c, secret, patch)
            PROVE  handler'[w].pc # "insert"
        BY <1>1, <4>2, StartFacts
      <4>3. ASSUME Finish(w) PROVE handler'[w].pc # "insert"
        BY <1>1, <4>3, FinishFacts DEF Idle
      <4> QED
        BY <1>6, <2>3, <4>1, <4>2, <4>3
           DEF Begin, TokenBegin, RotateBegin, RevokeBegin, UpdateBegin, Abandon
    <3>2. Registering(o)' \subseteq Registering(o)
      BY <2>1, <3>1 DEF Registering
    <3> QED
      BY <2>1, <3>2, OwnerKept
  <2> QED
    BY <2>2, <2>3
<1>7. CASE UNCHANGED vars
  BY <1>7, OwnerKept DEF vars, Owned, Registering
<1> QED
  BY <1>3, <1>4, <1>5, <1>6, <1>7, StepCases

-------------------------------------------------------------------------------
(* Tokens of revoked accounts.                                             *)

LateOK(c) ==
    /\ ~clients[c].revoked => clients[c].late = 0
    /\ clients[c].late + Cardinality(Minting(c)) <= Cardinality(Workers)

LEMMA LateKept ==
    ASSUME TablesInv, NEW c \in DOMAIN clients, LateOK(c),
           Minting(c)' \subseteq Minting(c), clients'[c].late = clients[c].late,
           clients[c].revoked => clients'[c].revoked
    PROVE  LateOK(c)'
<1>1. Minting(c) \in SUBSET Workers /\ clients[c].late \in Nat
  BY RowFacts DEF Minting, TablesInv
<1>2. /\ Cardinality(Minting(c)') <= Cardinality(Minting(c))
      /\ Cardinality(Minting(c)) \in Nat /\ Cardinality(Minting(c)') \in Nat
  BY <1>1, Finite
<1> QED
  BY <1>1, <1>2, Finite DEF LateOK

LEMMA LateStep ==
    ASSUME TablesInv, LateInv, [Next]_vars
    PROVE  LateInv'
<1>1. TypeOK /\ \A c \in DOMAIN clients : LateOK(c)
  BY DEF TablesInv, LateInv, LateOK
<1> SUFFICES ASSUME NEW c \in DOMAIN clients' PROVE LateOK(c)'
  BY DEF LateInv, LateOK
<1>2. ASSUME NEW w \in Workers, Finish(w)
      PROVE  Minting(c)' \subseteq Minting(c) \ {w}
  <2>1. /\ \A v \in Workers \ {w} : handler'[v] = handler[v]
        /\ handler'[w].pc = "idle"
    BY <1>1, <1>2, FinishFacts DEF Idle
  <2> QED
    BY <2>1 DEF Minting
<1>3. ASSUME NEW w \in Workers, Create(w) PROVE LateOK(c)'
  <2>1. PICK n : n = Len(clients) + 1
    OBVIOUS
  <2>2. /\ DOMAIN clients' = DOMAIN clients \cup {n}
        /\ \A d \in DOMAIN clients : clients'[d] = clients[d]
        /\ clients'[n].late = 0 /\ Finish(w)
    BY <1>3, <2>1, CreateFacts
  <2>3. CASE c \in DOMAIN clients
    <3>1. clients'[c] = clients[c]
      BY <2>2, <2>3
    <3> QED
      BY <1>1, <1>2, <2>2, <2>3, <3>1, LateKept
  <2>4. CASE c = n
    <3>1. Minting(c)' \in SUBSET Workers
      BY DEF Minting
    <3>2. /\ Cardinality(Minting(c)') <= Cardinality(Workers)
          /\ Cardinality(Minting(c)') \in Nat
      BY <3>1, Finite
    <3> QED
      BY <2>2, <2>4, <3>2 DEF LateOK
  <2> QED
    BY <2>2, <2>3, <2>4
<1>4. ASSUME NEW w \in Workers, Mint(w) PROVE LateOK(c)'
  <2>1. PICK d : d = handler[w].client
    OBVIOUS
  <2>2. /\ DOMAIN clients' = DOMAIN clients /\ Finish(w) /\ handler[w].pc = "mint"
        /\ \A k \in DOMAIN clients \ {d} : clients'[k] = clients[k]
        /\ clients'[d].revoked = clients[d].revoked
        /\ clients'[d].late = IF clients[d].revoked THEN clients[d].late + 1
                              ELSE clients[d].late
    BY <1>4, <2>1, MintFacts
  <2>3. CASE c # d \/ ~clients[d].revoked
    <3>1. clients'[c].late = clients[c].late /\ (clients[c].revoked => clients'[c].revoked)
      BY <2>2, <2>3
    <3> QED
      BY <1>1, <1>2, <2>2, <3>1, LateKept
  <2>4. CASE c = d /\ clients[d].revoked
    <3>1. Minting(c) \in SUBSET Workers /\ w \in Minting(c)
      BY <2>1, <2>2, <2>4 DEF Minting
    <3>2. /\ IsFiniteSet(Minting(c) \ {w})
          /\ Cardinality(Minting(c) \ {w}) = Cardinality(Minting(c)) - 1
      BY <3>1, Finite, FS_RemoveElement
    <3>3. Cardinality(Minting(c)') <= Cardinality(Minting(c)) - 1
      BY <1>2, <2>2, <3>2, FS_Subset
    <3>4. /\ Cardinality(Minting(c)) \in Nat /\ Cardinality(Minting(c)') \in Nat
          /\ clients[c].late \in Nat
      BY <1>1, <1>2, <2>2, <3>1, Finite, RowFacts
    <3>5. clients'[c].late = clients[c].late + 1 /\ clients'[c].revoked
      BY <2>2, <2>4
    <3> QED
      BY <1>1, <2>2, <3>3, <3>4, <3>5, Finite DEF LateOK
  <2> QED
    BY <2>3, <2>4
<1>5. ASSUME NEW w \in Workers, Rotate(w) \/ RevokeCommit(w) \/ Update(w)
      PROVE  LateOK(c)'
  <2>1. Overwritten(handler[w].client) /\ Finish(w)
    BY <1>5, WriteFacts
  <2>2. /\ c \in DOMAIN clients /\ clients'[c].late = clients[c].late
        /\ clients[c].revoked => clients'[c].revoked
    BY <2>1 DEF Overwritten
  <2> QED
    BY <1>1, <1>2, <2>1, <2>2, LateKept
<1>6. ASSUME NEW w \in Workers, Begin(w) PROVE LateOK(c)'
  <2>1. clients' = clients /\ \A v \in Workers \ {w} : handler'[v] = handler[v]
    BY <1>6, BeginFacts
  <2>2. CASE \E secret \in SecretIds : TokenBegin(w, c, secret)
    <3>1. ~clients[c].revoked
      BY <2>2 DEF TokenBegin, Usable
    <3>2. Minting(c)' \in SUBSET Workers
      BY DEF Minting
    <3>3. /\ Cardinality(Minting(c)') <= Cardinality(Workers)
          /\ Cardinality(Minting(c)') \in Nat
      BY <3>2, Finite
    <3> QED
      BY <1>1, <2>1, <3>1, <3>3 DEF LateOK
  <2>3. CASE ~\E secret \in SecretIds : TokenBegin(w, c, secret)
    <3>1. ~(handler'[w].pc = "mint" /\ handler'[w].client = c)
      <4>1. ASSUME NEW d, d # c, NEW secret, TokenBegin(w, d, secret)
            PROVE  handler'[w].client # c
        <5>1. Start(w, "mint", None, d, 0, None)
          BY <4>1 DEF TokenBegin
        <5>2. handler'[w].client = d
          BY <1>1, <5>1 DEF Start, TypeOK
        <5> QED
          BY <4>1, <5>2
      <4>2. ASSUME NEW point, point # "mint", NEW q, NEW d, NEW secret, NEW patch,
                   Start(w, point, q, d, secret, patch)
            PROVE  handler'[w].pc # "mint"
        BY <1>1, <4>2, StartFacts
      <4>3. ASSUME Finish(w) PROVE handler'[w].pc # "mint"
        BY <1>1, <4>3, FinishFacts DEF Idle
      <4> QED
        BY <1>6, <2>3, <4>1, <4>2, <4>3
           DEF Begin, CreateBegin, RotateBegin, RevokeBegin, UpdateBegin, Abandon
    <3>2. Minting(c)' \subseteq Minting(c)
      BY <2>1, <3>1 DEF Minting
    <3> QED
      BY <1>1, <2>1, <3>2, LateKept
  <2> QED
    BY <2>2, <2>3
<1>7. CASE UNCHANGED vars
  BY <1>1, <1>7, LateKept DEF vars, Minting
<1> QED
  BY <1>3, <1>4, <1>5, <1>6, <1>7, StepCases

-------------------------------------------------------------------------------
(* Secrets.                                                                *)

\* The accounts know what they knew, and no handler has got a new secret.
LEMMA SecretsKept ==
    ASSUME TablesInv, SecretInv, DOMAIN clients' = DOMAIN clients,
           \A c \in DOMAIN clients : KeepsSecret(c),
           \A v \in Workers : handler'[v].pc = "rotate" => handler'[v] = handler[v],
           secrets <= secrets', secrets' \in Nat
    PROVE  SecretInv'
<1>1. \A c \in DOMAIN clients : Known(c)' = Known(c)
  BY DEF KeepsSecret, Known
<1>2. secrets \in Nat /\ 1..secrets \subseteq 1..secrets'
  BY RowFacts DEF TablesInv
<1>3. \A c \in DOMAIN clients' : /\ Known(c)' \subseteq 1..secrets'
                                 /\ clients'[c].secret \notin clients'[c].replaced
  BY <1>1, <1>2 DEF SecretInv, KeepsSecret
<1>4. \A c, d \in DOMAIN clients' : c # d => Known(c)' \cap Known(d)' = {}
  BY <1>1 DEF SecretInv
<1>5. \A w \in Workers : handler'[w].pc = "rotate" =>
        /\ \A c \in DOMAIN clients' : handler'[w].secret \notin Known(c)'
        /\ \A v \in Workers \ {w} : handler'[v].pc = "rotate" =>
             handler'[v].secret # handler'[w].secret
  BY <1>1 DEF SecretInv
<1> QED
  BY <1>3, <1>4, <1>5 DEF SecretInv

LEMMA SecretStep ==
    ASSUME TablesInv, SecretInv, [Next]_vars
    PROVE  SecretInv'
<1>1. /\ TypeOK /\ secrets \in Nat /\ secrets <= secrets' /\ secrets' \in Nat
      /\ 1..secrets \subseteq 1..secrets'
  BY NextGrows, RowFacts, ClientsAssumption DEF TablesInv, Grows
<1>2. ASSUME NEW w \in Workers, Finish(w)
      PROVE  /\ \A v \in Workers : handler'[v].pc = "rotate" => handler'[v] = handler[v]
             /\ handler'[w].pc # "rotate"
  <2>1. /\ \A v \in Workers \ {w} : handler'[v] = handler[v]
        /\ handler'[w].pc = "idle"
    BY <1>1, <1>2, FinishFacts DEF Idle
  <2> QED
    BY <2>1
<1>3. ASSUME NEW w \in Workers, Create(w) PROVE SecretInv'
  <2>1. PICK n : n = Len(clients) + 1
    OBVIOUS
  <2>2. /\ DOMAIN clients' = DOMAIN clients \cup {n} /\ n \notin DOMAIN clients
        /\ \A d \in DOMAIN clients : clients'[d] = clients[d]
        /\ clients'[n].secret = secrets + 1 /\ clients'[n].replaced = {}
        /\ secrets' = secrets + 1 /\ Finish(w)
    BY <1>3, <2>1, CreateFacts
  <2>3. \A c \in DOMAIN clients : Known(c)' = Known(c) /\ secrets + 1 \notin Known(c)
    BY <1>1, <2>2 DEF Known, SecretInv
  <2>4. Known(n)' = {secrets + 1} /\ secrets + 1 \in 1..secrets'
    BY <1>1, <2>2 DEF Known
  <2>5. \A v \in Workers : handler[v].pc = "rotate" => handler[v].secret # secrets + 1
    BY <1>1 DEF TablesInv, SafeHandler
  <2>6. ASSUME NEW c \in DOMAIN clients'
        PROVE  Known(c)' \subseteq 1..secrets' /\ clients'[c].secret \notin clients'[c].replaced
    <3>1. CASE c = n
      BY <2>2, <2>4, <3>1
    <3>2. CASE c \in DOMAIN clients
      BY <1>1, <2>2, <2>3, <3>2 DEF SecretInv
    <3> QED
      BY <2>2, <3>1, <3>2
  <2>7. ASSUME NEW c \in DOMAIN clients', NEW d \in DOMAIN clients', c # d
        PROVE  Known(c)' \cap Known(d)' = {}
    <3>1. CASE c = n
      BY <2>2, <2>3, <2>4, <2>7, <3>1
    <3>2. CASE d = n
      BY <2>2, <2>3, <2>4, <2>7, <3>2
    <3>3. CASE c # n /\ d # n
      BY <2>2, <2>3, <2>7, <3>3 DEF SecretInv
    <3> QED
      BY <3>1, <3>2, <3>3
  <2>8. ASSUME NEW v \in Workers, handler'[v].pc = "rotate"
        PROVE  /\ \A c \in DOMAIN clients' : handler'[v].secret \notin Known(c)'
               /\ \A u \in Workers \ {v} : handler'[u].pc = "rotate" =>
                    handler'[u].secret # handler'[v].secret
    BY <1>2, <2>2, <2>3, <2>4, <2>5, <2>8 DEF SecretInv
  <2> QED
    BY <2>6, <2>7, <2>8 DEF SecretInv
<1>4. ASSUME NEW w \in Workers, Mint(w) PROVE SecretInv'
  <2>1. PICK c : c = handler[w].client
    OBVIOUS
  <2>2. /\ DOMAIN clients' = DOMAIN clients /\ Finish(w) /\ KeepsSecret(c)
        /\ \A d \in DOMAIN clients \ {c} : clients'[d] = clients[d]
    BY <1>4, <2>1, MintFacts
  <2>3. \A d \in DOMAIN clients : KeepsSecret(d)
    BY <2>2 DEF KeepsSecret
  <2> QED
    BY <1>1, <1>2, <2>2, <2>3, SecretsKept
<1>5. ASSUME NEW w \in Workers, Rotate(w) \/ RevokeCommit(w) \/ Update(w)
      PROVE  SecretInv'
  <2>1. PICK c : c = handler[w].client
    OBVIOUS
  <2>2. PICK secret : secret = handler[w].secret
    OBVIOUS
  <2>3. /\ c \in DOMAIN clients /\ Finish(w) /\ UNCHANGED secrets
        /\ DOMAIN clients' = DOMAIN clients
        /\ \A d \in DOMAIN clients \ {c} : clients'[d] = clients[d]
        /\ KeepsSecret(c) \/ (handler[w].pc = "rotate" /\ ReplacesSecret(c, secret))
    BY <1>5, <2>1, <2>2, WriteFacts DEF Overwritten
  <2>4. CASE KeepsSecret(c)
    <3>1. \A d \in DOMAIN clients : KeepsSecret(d)
      BY <2>3, <2>4 DEF KeepsSecret
    <3> QED
      BY <1>1, <1>2, <2>3, <3>1, SecretsKept
  <2>5. CASE handler[w].pc = "rotate" /\ ReplacesSecret(c, secret)
    <3>1. \A d \in DOMAIN clients \ {c} : Known(d)' = Known(d)
      BY <2>3 DEF Known
    <3>2. Known(c)' = Known(c) \cup {secret}
      BY <2>5 DEF Known, ReplacesSecret
    <3>3. /\ \A d \in DOMAIN clients : secret \notin Known(d)
          /\ \A v \in Workers \ {w} : handler[v].pc = "rotate" => handler[v].secret # secret
          /\ secret \in 1..secrets
      BY <2>2, <2>5 DEF SecretInv, TablesInv, SafeHandler
    <3>4. ASSUME NEW d \in DOMAIN clients'
          PROVE  Known(d)' \subseteq 1..secrets' /\ clients'[d].secret \notin clients'[d].replaced
      <4>1. CASE d = c
        <5>1. clients'[c].secret = secret /\ clients'[c].replaced = Known(c)
          BY <2>5 DEF ReplacesSecret, Known
        <5> QED
          BY <2>3, <3>2, <3>3, <4>1, <5>1 DEF SecretInv
      <4>2. CASE d # c
        BY <2>3, <3>1, <4>2 DEF SecretInv
      <4> QED
        BY <4>1, <4>2
    <3>5. ASSUME NEW d \in DOMAIN clients', NEW e \in DOMAIN clients', d # e
          PROVE  Known(d)' \cap Known(e)' = {}
      BY <2>3, <3>1, <3>2, <3>3, <3>5 DEF SecretInv
    <3>6. ASSUME NEW v \in Workers, handler'[v].pc = "rotate"
          PROVE  /\ \A d \in DOMAIN clients' : handler'[v].secret \notin Known(d)'
                 /\ \A u \in Workers \ {v} : handler'[u].pc = "rotate" =>
                      handler'[u].secret # handler'[v].secret
      BY <1>2, <2>3, <3>1, <3>2, <3>3, <3>6 DEF SecretInv
    <3> QED
      BY <3>4, <3>5, <3>6 DEF SecretInv
  <2> QED
    BY <2>3, <2>4, <2>5
<1>6. ASSUME NEW w \in Workers, Begin(w) PROVE SecretInv'
  <2>1. clients' = clients /\ \A v \in Workers \ {w} : handler'[v] = handler[v]
    BY <1>6, BeginFacts
  <2>2. \A c \in DOMAIN clients : KeepsSecret(c) /\ Known(c)' = Known(c)
    BY <2>1 DEF KeepsSecret, Known
  <2>3. CASE \E c \in ClientIds : RotateBegin(w, c)
    <3>1. PICK c \in ClientIds : RotateBegin(w, c)
      BY <2>3
    <3>2. handler'[w].secret = secrets + 1
      <4>1. Start(w, "rotate", None, c, secrets + 1, None)
        BY <3>1 DEF RotateBegin
      <4> QED
        BY <1>1, <4>1 DEF Start, TypeOK
    <3>3. /\ \A d \in DOMAIN clients : secrets + 1 \notin Known(d)
          /\ \A v \in Workers : handler[v].pc = "rotate" => handler[v].secret # secrets + 1
      BY <1>1 DEF SecretInv, TablesInv, SafeHandler
    <3>4. \A d \in DOMAIN clients' : /\ Known(d)' \subseteq 1..secrets'
                                     /\ clients'[d].secret \notin clients'[d].replaced
      BY <1>1, <2>1, <2>2 DEF SecretInv
    <3>5. \A d, e \in DOMAIN clients' : d # e => Known(d)' \cap Known(e)' = {}
      BY <2>1, <2>2 DEF SecretInv
    <3>6. ASSUME NEW v \in Workers, handler'[v].pc = "rotate"
          PROVE  /\ \A d \in DOMAIN clients' : handler'[v].secret \notin Known(d)'
                 /\ \A u \in Workers \ {v} : handler'[u].pc = "rotate" =>
                      handler'[u].secret # handler'[v].secret
      BY <2>1, <2>2, <3>2, <3>3, <3>6 DEF SecretInv
    <3> QED
      BY <3>4, <3>5, <3>6 DEF SecretInv
  <2>4. CASE ~\E c \in ClientIds : RotateBegin(w, c)
    <3>1. handler'[w].pc # "rotate"
      <4>1. ASSUME NEW point, point # "rotate", NEW q, NEW d, NEW secret, NEW patch,
                   Start(w, point, q, d, secret, patch)
            PROVE  handler'[w].pc # "rotate"
        BY <1>1, <4>1, StartFacts
      <4> QED
        BY <1>2, <1>6, <2>4, <4>1
           DEF Begin, CreateBegin, TokenBegin, RevokeBegin, UpdateBegin, Abandon
    <3> QED
      BY <1>1, <2>1, <2>2, <3>1, SecretsKept
  <2> QED
    BY <2>3, <2>4
<1>7. CASE UNCHANGED vars
  BY <1>1, <1>7, SecretsKept DEF vars, KeepsSecret
<1> QED
  BY <1>3, <1>4, <1>5, <1>6, <1>7, StepCases

-------------------------------------------------------------------------------
(* The theorems.                                                           *)

ClientsInv == TablesInv /\ OwnerInv(Cardinality(Workers)) /\ LateInv /\ SecretInv

LEMMA ClientsInit ==
    ASSUME Init PROVE ClientsInv
<1>1. TablesInv /\ DOMAIN clients = {}
  BY TablesInit DEF Init
<1>2. \A o : Owned(o) = {} /\ Registering(o) = {}
  BY <1>1 DEF Init, Idle, Owned, Registering
<1>3. Cardinality({}) = 0
  BY FS_EmptySet
<1>4. OwnerInv(Cardinality(Workers))
  BY <1>2, <1>3, Finite, ClientsAssumption DEF OwnerInv
<1>5. LateInv /\ SecretInv
  BY <1>1 DEF Init, Idle, LateInv, SecretInv
<1> QED
  BY <1>1, <1>4, <1>5 DEF ClientsInv

LEMMA ClientsInvariance == Spec => []ClientsInv
<1>1. ASSUME ClientsInv, [Next]_vars PROVE ClientsInv'
  <2>1. TablesInv /\ LateInv /\ SecretInv /\ TablesInv'
    BY <1>1, TablesStep DEF ClientsInv
  <2>2. RegistrationsWithin(Cardinality(Workers))'
    <3>1. \A o \in Owners : Registering(o)' \in SUBSET Workers
      BY DEF Registering
    <3> QED
      BY <3>1, Finite DEF RegistrationsWithin
  <2>3. OwnerInv(Cardinality(Workers))'
    BY <1>1, <2>2, Finite, OwnerStep DEF ClientsInv
  <2> QED
    BY <1>1, <2>1, <2>3, LateStep, SecretStep DEF ClientsInv
<1> QED
  BY <1>1, ClientsInit, PTL DEF Spec

\* Every account is well formed, and what a suspended handler is going to commit is an
\* account that exists.
THEOREM TypeCorrectness == Spec => []TypeOK
<1>1. ClientsInv => TypeOK
  BY DEF ClientsInv, TablesInv
<1> QED
  BY <1>1, ClientsInvariance, PTL

\* The count of create_service_account_endpoint is overrun by less than the number of
\* registrations in flight.
THEOREM OwnerLimit == Spec => []OwnedBounded
<1>1. ASSUME ClientsInv PROVE OwnedBounded
  <2>1. ASSUME NEW o \in Owners
        PROVE  Cardinality(Owned(o)) < MaxPerOwner + Cardinality(Workers)
    <3>1. Registering(o) \in SUBSET Workers /\ TypeOK
      BY <1>1 DEF Registering, ClientsInv, TablesInv
    <3>2. Cardinality(Registering(o)) \in Nat /\ Cardinality(Owned(o)) \in Nat
      BY <3>1, Finite, OwnedFinite
    <3> QED
      BY <1>1, <3>2, Finite, ClientsAssumption DEF ClientsInv, OwnerInv
  <2> QED
    BY <2>1 DEF OwnedBounded
<1> QED
  BY <1>1, ClientsInvariance, PTL

\* oauth_token mints for a revoked account only what was in flight when it was revoked,
\* whichever patches are committed over the revocation.
THEOREM RevocationSafety == Spec => []RevocationIsFinal
<1>1. ASSUME ClientsInv PROVE RevocationIsFinal
  <2>1. ASSUME NEW c \in DOMAIN clients PROVE clients[c].late <= Cardinality(Workers)
    <3>1. Minting(c) \in SUBSET Workers /\ clients[c].late \in Nat
      BY <1>1, RowFacts DEF Minting, ClientsInv, TablesInv
    <3>2. Cardinality(Minting(c)) \in Nat
      BY <3>1, Finite
    <3> QED
      BY <1>1, <3>1, <3>2, Finite DEF ClientsInv, LateInv
  <2> QED
    BY <2>1 DEF RevocationIsFinal
<1> QED
  BY <1>1, ClientsInvariance, PTL

\* A secret that rotate_secret replaced is never stored again, by whatever handler had
\* loaded it, and no two accounts share one.
THEOREM SecretSafety == Spec => []NoSecretRevival
<1>1. ASSUME ClientsInv PROVE NoSecretRevival
  BY <1>1 DEF ClientsInv, SecretInv, Known, NoSecretRevival
<1> QED
  BY <1>1, ClientsInvariance, PTL

\* With k registrations of one owner in flight together at most, the count is overrun by
\* less than k: an owner whose registrations do not overlap (k = 1) keeps to the limit.
THEOREM OwnersByOverlap ==
    ASSUME NEW k \in Nat, k > 0
    PROVE  Spec /\ []RegistrationsWithin(k) => []OwnedWithin(k)
<1> DEFINE Inv == TablesInv /\ OwnerInv(k)
           Overlap == RegistrationsWithin(k)
           Within == OwnedWithin(k)
<1>1. ASSUME Init PROVE Inv
  <2>1. TablesInv /\ DOMAIN clients = {}
    BY <1>1, TablesInit DEF Init
  <2>2. \A o : Owned(o) = {} /\ Registering(o) = {}
    BY <1>1, <2>1 DEF Init, Idle, Owned, Registering
  <2>3. Cardinality({}) = 0 /\ 0 + 0 < MaxPerOwner + k
    BY FS_EmptySet, ClientsAssumption
  <2>4. OwnerInv(k)
    BY <2>2, <2>3 DEF OwnerInv
  <2> QED
    BY <2>1, <2>4
<1>2. Inv /\ Overlap' /\ [Next]_vars => Inv'
  BY TablesStep, OwnerStep
<1>3. ASSUME Inv PROVE Within
  <2>1. ASSUME NEW o \in Owners PROVE Cardinality(Owned(o)) < MaxPerOwner + k
    <3>1. Registering(o) \in SUBSET Workers /\ TypeOK
      BY <1>3 DEF Registering, TablesInv
    <3>2. Cardinality(Registering(o)) \in Nat /\ Cardinality(Owned(o)) \in Nat
      BY <3>1, Finite, OwnedFinite
    <3> QED
      BY <1>3, <3>2, ClientsAssumption DEF OwnerInv
  <2> QED
    BY <2>1 DEF OwnedWithin
<1> HIDE DEF Inv, Overlap, Within
<1>4. Spec /\ []Overlap => []Within
  BY <1>1, <1>2, <1>3, PTL DEF Spec
<1> QED
  BY <1>4 DEF Overlap, Within

-------------------------------------------------------------------------------
(* When a revocation takes effect.                                         *)

\* A step is no token request that passes the check of account c, and no token is
\* minted: what is late or will be late does not grow.
LEMMA RunsOutKept ==
    ASSUME TablesInv, NEW c \in DOMAIN clients,
           Minting(c)' \subseteq Minting(c), clients'[c].late = clients[c].late
    PROVE  clients'[c].late + Cardinality(Minting(c)') <= clients[c].late + Cardinality(Minting(c))
<1>1. Minting(c) \in SUBSET Workers /\ clients[c].late \in Nat
  BY RowFacts DEF Minting, TablesInv
<1>2. /\ Cardinality(Minting(c)') <= Cardinality(Minting(c))
      /\ Cardinality(Minting(c)) \in Nat /\ Cardinality(Minting(c)') \in Nat
  BY <1>1, Finite
<1> QED
  BY <1>1, <1>2

\* Who is about to mint a token for c after a step that leaves the table alone: nobody
\* new, unless c is usable.
LEMMA BeginMints ==
    ASSUME TablesInv, NEW w \in Workers, Begin(w), NEW c
    PROVE  \/ Minting(c)' \subseteq Minting(c)
           \/ c \in DOMAIN clients /\ ~clients[c].revoked
<1>1. TypeOK /\ \A v \in Workers \ {w} : handler'[v] = handler[v]
  BY BeginFacts DEF TablesInv
<1>2. ASSUME NEW d, NEW secret, TokenBegin(w, d, secret)
      PROVE  \/ Minting(c)' \subseteq Minting(c)
             \/ c \in DOMAIN clients /\ ~clients[c].revoked
  <2>1. Start(w, "mint", None, d, 0, None) /\ d \in DOMAIN clients /\ ~clients[d].revoked
    BY <1>2 DEF TokenBegin, Usable
  <2>2. handler'[w].client = d
    BY <1>1, <2>1 DEF Start, TypeOK
  <2> QED
    BY <1>1, <2>1, <2>2 DEF Minting
<1>3. ASSUME NEW point, point # "mint", NEW q, NEW d, NEW secret, NEW patch,
             Start(w, point, q, d, secret, patch)
      PROVE  handler'[w].pc # "mint"
  BY <1>1, <1>3, StartFacts
<1>4. ASSUME Finish(w) PROVE handler'[w].pc # "mint"
  BY <1>1, <1>4, FinishFacts DEF Idle
<1>5. ASSUME handler'[w].pc # "mint" PROVE Minting(c)' \subseteq Minting(c)
  BY <1>1, <1>5 DEF Minting
<1> QED
  BY <1>2, <1>3, <1>4, <1>5 DEF Begin, CreateBegin, RotateBegin, RevokeBegin, UpdateBegin, Abandon

LEMMA FinishMints ==
    ASSUME TypeOK, NEW w \in Workers, Finish(w), NEW c
    PROVE  Minting(c)' \subseteq Minting(c) \ {w}
<1>1. /\ \A v \in Workers \ {w} : handler'[v] = handler[v]
      /\ handler'[w].pc = "idle"
  BY FinishFacts DEF Idle
<1> QED
  BY <1>1 DEF Minting

LEMMA RunsOutStep ==
    ASSUME TablesInv, [Next]_vars, NEW c \in DOMAIN clients, clients[c].revoked
    PROVE  clients'[c].late + Cardinality(Minting(c)') <= clients[c].late + Cardinality(Minting(c))
<1>1. TypeOK
  BY DEF TablesInv
<1>2. ASSUME NEW w \in Workers, Finish(w), clients'[c].late = clients[c].late
      PROVE  clients'[c].late + Cardinality(Minting(c)')
               <= clients[c].late + Cardinality(Minting(c))
  BY <1>1, <1>2, FinishMints, RunsOutKept
<1>3. ASSUME NEW w \in Workers, Create(w)
      PROVE  Finish(w) /\ clients'[c].late = clients[c].late
  BY <1>3, CreateFacts
<1>4. ASSUME NEW w \in Workers, Rotate(w) \/ RevokeCommit(w) \/ Update(w)
      PROVE  Finish(w) /\ clients'[c].late = clients[c].late
  BY <1>4, WriteFacts DEF Overwritten
<1>5. ASSUME NEW w \in Workers, Mint(w)
      PROVE  clients'[c].late + Cardinality(Minting(c)')
               <= clients[c].late + Cardinality(Minting(c))
  <2>1. PICK d : d = handler[w].client
    OBVIOUS
  <2>2. /\ Finish(w) /\ handler[w].pc = "mint"
        /\ \A e \in DOMAIN clients \ {d} : clients'[e] = clients[e]
        /\ clients'[d].late = IF clients[d].revoked THEN clients[d].late + 1
                              ELSE clients[d].late
    BY <1>5, <2>1, MintFacts
  <2>3. CASE c # d
    BY <1>2, <2>2, <2>3
  <2>4. CASE c = d
    <3>1. Minting(c) \in SUBSET Workers /\ w \in Minting(c)
      BY <2>1, <2>2, <2>4 DEF Minting
    <3>2. /\ IsFiniteSet(Minting(c) \ {w})
          /\ Cardinality(Minting(c) \ {w}) = Cardinality(Minting(c)) - 1
      BY <3>1, Finite, FS_RemoveElement
    <3>3. Minting(c)' \subseteq Minting(c) \ {w}
      BY <1>1, <2>2, FinishMints
    <3>4. Cardinality(Minting(c)') <= Cardinality(Minting(c)) - 1 /\ Cardinality(Minting(c)') \in Nat
      BY <3>2, <3>3, FS_Subset, FS_CardinalityType
    <3>5. Cardinality(Minting(c)) \in Nat /\ clients[c].late \in Nat
      BY <1>1, <3>1, Finite, RowFacts
    <3>6. clients'[c].late = clients[c].late + 1
      BY <2>2, <2>4
    <3> QED
      BY <3>4, <3>5, <3>6
  <2> QED
    BY <2>3, <2>4
<1>6. ASSUME NEW w \in Workers, Begin(w)
      PROVE  clients'[c].late + Cardinality(Minting(c)')
               <= clients[c].late + Cardinality(Minting(c))
  BY <1>6, BeginFacts, BeginMints, RunsOutKept
<1>7. CASE UNCHANGED vars
  BY <1>7, RunsOutKept DEF vars, Minting
<1> QED
  BY <1>2, <1>3, <1>4, <1>5, <1>6, <1>7, StepCases

LEMMA RevokedStays ==
    ASSUME TablesInv, [Next]_vars, NEW c \in DOMAIN clients, clients[c].revoked
    PROVE  clients'[c].revoked
<1>1. ASSUME NEW w \in Workers, Create(w) PROVE clients'[c].revoked
  BY <1>1, CreateFacts
<1>2. ASSUME NEW w \in Workers, Mint(w) PROVE clients'[c].revoked
  BY <1>2, MintFacts
<1>3. ASSUME NEW w \in Workers, Rotate(w) \/ RevokeCommit(w) \/ Update(w)
      PROVE  clients'[c].revoked
  BY <1>3, WriteFacts DEF Overwritten
<1>4. ASSUME NEW w \in Workers, Begin(w) PROVE clients'[c].revoked
  BY <1>4, BeginFacts
<1> QED
  BY <1>1, <1>2, <1>3, <1>4, StepCases DEF vars

\* From the moment the revocation of a client is committed, the tokens it still gets are
\* at most the requests that were in flight then; a request that starts later gets none.
THEOREM RevocationDrains == Spec => RevocationsLast
<1>1. ASSUME TablesInv, [Next]_vars
      PROVE  \A c \in DOMAIN clients : clients[c].revoked =>
               /\ clients'[c].revoked
               /\ clients'[c].late + Cardinality(Minting(c)')
                    <= clients[c].late + Cardinality(Minting(c))
  BY <1>1, RunsOutStep, RevokedStays
<1>2. ClientsInv => TablesInv
  BY DEF ClientsInv
<1> QED
  BY <1>1, <1>2, ClientsInvariance, PTL DEF RevocationsLast, Spec

\* An account is revoked by revoke_client and by an update that switches it off only.
Revokes(w) == handler[w].pc = "revoke" \/ (handler[w].pc = "update" /\ handler[w].patch = FALSE)

LEMMA StoreKeepsRevoked ==
    ASSUME TypeOK, NEW w \in Workers, SafeHandler(handler[w]), handler[w].client \in DOMAIN clients,
           NEW changed, changed.revoked = handler[w].loaded.revoked, Store(w, changed)
    PROVE  clients'[handler[w].client].revoked = clients[handler[w].client].revoked
<1>1. PICK c : c = handler[w].client
  OBVIOUS
<1>2. PICK row : row = clients[c]
  OBVIOUS
<1>3. PICK secret : secret = IF changed.secret = handler[w].loaded.secret
                             THEN row.secret ELSE changed.secret
  OBVIOUS
<1>4. PICK active : active = IF changed.active = handler[w].loaded.active
                             THEN row.active ELSE changed.active
  OBVIOUS
<1>5. PICK replaced : replaced = IF secret = row.secret THEN row.replaced
                                 ELSE row.replaced \cup {row.secret}
  OBVIOUS
<1>6. PICK stored : stored = [row EXCEPT !.secret = secret, !.active = active,
                                         !.revoked = row.revoked, !.replaced = replaced]
  OBVIOUS
<1>7. clients' = [clients EXCEPT ![c] = stored]
  BY <1>1, <1>2, <1>3, <1>4, <1>5, <1>6 DEF Store
<1>8. c \in DOMAIN clients /\ row \in ServiceAccount
  BY <1>1, <1>2, RowFacts
<1>9. stored.revoked = row.revoked
  BY <1>6, <1>8 DEF ServiceAccount
<1> QED
  BY <1>1, <1>2, <1>7, <1>8, <1>9

LEMMA OnlyRevocationsRevoke ==
    ASSUME TablesInv, NEW w \in Workers, Rotate(w) \/ RevokeCommit(w) \/ Update(w), ~Revokes(w)
    PROVE  clients'[handler[w].client].revoked = clients[handler[w].client].revoked
<1>1. PICK loaded : loaded = handler[w].loaded
  OBVIOUS
<1>2. /\ TypeOK /\ SafeHandler(handler[w]) /\ handler[w].client \in DOMAIN clients
      /\ handler[w].pc \in {"rotate", "revoke", "update"}
  BY WriteFacts DEF TablesInv
<1>3. loaded \in ServiceAccount /\ handler[w] \in Handler
  BY <1>1, <1>2 DEF SafeHandler
<1>4. CASE Rotate(w)
  <2>1. PICK changed : changed = [loaded EXCEPT !.secret = handler[w].secret]
    OBVIOUS
  <2>2. changed.revoked = loaded.revoked
    BY <1>3, <2>1 DEF ServiceAccount
  <2>3. Store(w, changed)
    BY <1>1, <1>4, <2>1 DEF Rotate
  <2> QED
    BY <1>1, <1>2, <2>2, <2>3, StoreKeepsRevoked
<1>5. CASE Update(w)
  <2>1. PICK active : active = IF handler[w].patch = None THEN loaded.active
                               ELSE handler[w].patch
    OBVIOUS
  <2>2. handler[w].patch # FALSE
    BY <1>5 DEF Revokes, Update, At
  <2>3. PICK revoked : revoked = (loaded.revoked \/ handler[w].patch = FALSE)
    OBVIOUS
  <2>4. revoked = loaded.revoked
    BY <1>3, <2>2, <2>3 DEF ServiceAccount
  <2>5. PICK changed : changed = [loaded EXCEPT !.active = active, !.revoked = revoked]
    OBVIOUS
  <2>6. changed.revoked = loaded.revoked
    BY <1>3, <2>4, <2>5 DEF ServiceAccount
  <2>7. Store(w, changed)
    BY <1>1, <1>5, <2>1, <2>3, <2>5 DEF Update
  <2> QED
    BY <1>1, <1>2, <2>6, <2>7, StoreKeepsRevoked
<1>6. ~RevokeCommit(w)
  BY DEF RevokeCommit, At, Revokes
<1> QED
  BY <1>4, <1>5, <1>6

\* Nobody is about to mint a token for a revoked account, and nobody has.
PromptInv ==
    /\ TablesInv
    /\ \A c \in DOMAIN clients : /\ clients[c].late = 0
                                 /\ clients[c].revoked => Minting(c) = {}

LEMMA PromptStep == PromptInv /\ GrantsApart /\ [Next]_vars => PromptInv'
<1> SUFFICES ASSUME PromptInv, GrantsApart, [Next]_vars PROVE PromptInv'
  OBVIOUS
<1>1. TypeOK /\ TablesInv /\ TablesInv'
  BY TablesStep DEF PromptInv, TablesInv
<1> SUFFICES ASSUME NEW c \in DOMAIN clients'
             PROVE  clients'[c].late = 0 /\ (clients'[c].revoked => Minting(c)' = {})
  BY <1>1 DEF PromptInv
<1>2. ASSUME c \in DOMAIN clients, clients'[c].late = clients[c].late,
             clients'[c].revoked = clients[c].revoked,
             Minting(c)' \subseteq Minting(c) \/ ~clients[c].revoked
      PROVE  clients'[c].late = 0 /\ (clients'[c].revoked => Minting(c)' = {})
  BY <1>2 DEF PromptInv
<1>3. ASSUME NEW w \in Workers, Create(w)
      PROVE  clients'[c].late = 0 /\ (clients'[c].revoked => Minting(c)' = {})
  <2>1. PICK n : n = Len(clients) + 1
    OBVIOUS
  <2>2. /\ DOMAIN clients' = DOMAIN clients \cup {n} /\ n \notin DOMAIN clients /\ Finish(w)
        /\ \A d \in DOMAIN clients : clients'[d] = clients[d]
        /\ clients'[n].late = 0
    BY <1>1, <1>3, <2>1, CreateFacts
  <2>3. CASE c \in DOMAIN clients
    BY <1>1, <1>2, <2>2, <2>3, FinishMints
  <2>4. CASE c = n
    <3>1. Minting(n) = {}
      BY <1>1, <2>2 DEF Minting, TablesInv, SafeHandler
    <3>2. Minting(n)' = {}
      BY <1>1, <2>2, <3>1, FinishMints
    <3> QED
      BY <2>2, <2>4, <3>2
  <2> QED
    BY <2>2, <2>3, <2>4
<1>4. ASSUME NEW w \in Workers, Mint(w)
      PROVE  clients'[c].late = 0 /\ (clients'[c].revoked => Minting(c)' = {})
  <2>1. PICK d : d = handler[w].client
    OBVIOUS
  <2>2. /\ DOMAIN clients' = DOMAIN clients /\ Finish(w) /\ handler[w].pc = "mint"
        /\ \A e \in DOMAIN clients \ {d} : clients'[e] = clients[e]
        /\ clients'[d].revoked = clients[d].revoked
        /\ clients'[d].late = IF clients[d].revoked THEN clients[d].late + 1
                              ELSE clients[d].late
    BY <1>1, <1>4, <2>1, MintFacts
  <2>3. w \in Minting(d)
    BY <2>1, <2>2 DEF Minting
  <2>4. d \in DOMAIN clients => ~clients[d].revoked
    BY <2>3 DEF PromptInv
  <2>5. c \in DOMAIN clients /\ clients'[c].late = clients[c].late
        /\ clients'[c].revoked = clients[c].revoked
    BY <2>2, <2>4
  <2> QED
    BY <1>1, <1>2, <2>2, <2>5, FinishMints
<1>5. ASSUME NEW w \in Workers, Rotate(w) \/ RevokeCommit(w) \/ Update(w)
      PROVE  clients'[c].late = 0 /\ (clients'[c].revoked => Minting(c)' = {})
  <2>1. PICK d : d = handler[w].client
    OBVIOUS
  <2>2. Overwritten(d) /\ Finish(w) /\ d \in DOMAIN clients
    BY <1>1, <1>5, <2>1, WriteFacts
  <2>3. c \in DOMAIN clients /\ clients'[c].late = clients[c].late
    BY <2>2 DEF Overwritten
  <2>4. Minting(c)' \subseteq Minting(c)
    BY <1>1, <2>2, FinishMints
  <2>5. CASE clients'[c].revoked = clients[c].revoked
    BY <1>2, <2>3, <2>4, <2>5
  <2>6. CASE clients'[c].revoked # clients[c].revoked
    <3>1. c = d
      BY <2>2, <2>3, <2>6 DEF Overwritten
    <3>2. Revokes(w)
      BY <1>1, <1>5, <2>1, <2>6, <3>1, OnlyRevocationsRevoke
    <3>3. Minting(c) = {}
      BY <2>1, <3>1, <3>2 DEF Minting, GrantsApart, Revokes
    <3> QED
      BY <2>3, <2>4, <3>3 DEF PromptInv
  <2> QED
    BY <2>5, <2>6
<1>6. ASSUME NEW w \in Workers, Begin(w)
      PROVE  clients'[c].late = 0 /\ (clients'[c].revoked => Minting(c)' = {})
  <2>1. clients' = clients
    BY <1>1, <1>6, BeginFacts
  <2>2. Minting(c)' \subseteq Minting(c) \/ ~clients[c].revoked
    BY <1>1, <1>6, BeginMints
  <2> QED
    BY <1>2, <2>1, <2>2
<1>7. CASE UNCHANGED vars
  <2>1. clients' = clients /\ Minting(c)' = Minting(c)
    BY <1>7 DEF vars, Minting
  <2> QED
    BY <1>2, <2>1
<1> QED
  BY <1>3, <1>4, <1>5, <1>6, <1>7, StepCases

\* A client whose revocation overlaps no token request of it gets no token afterwards,
\* whatever handlers that had loaded the account before write back.
THEOREM PromptRevocation == Spec /\ []GrantsApart => []NoLateTokens
<1>1. Init => PromptInv
  <2>1. ASSUME Init PROVE TablesInv /\ DOMAIN clients = {}
    BY <2>1, TablesInit DEF Init
  <2> QED
    BY <2>1 DEF PromptInv
<1>2. PromptInv => NoLateTokens
  BY DEF PromptInv, NoLateTokens
<1> QED
  BY <1>1, <1>2, PromptStep, PTL DEF Spec

-------------------------------------------------------------------------------
(* The handlers implement Credentials.                                     *)

\* The refinement mapping, as values.
ValidMap == [c \in DOMAIN clients |-> clients[c].secret]
DeadSet == UNION {clients[c].replaced : c \in DOMAIN clients}
RevokedSet == {c \in DOMAIN clients : clients[c].revoked}
AdmittedMap == [c \in ClientIds |-> Cardinality(Minting(c))]

\* A secret that no account has or had is fresh.
LEMMA UnknownIsFresh ==
    ASSUME NEW s, \A c \in DOMAIN clients : s \notin Known(c)
    PROVE  s \notin DeadSet /\ \A c \in DOMAIN ValidMap : ValidMap[c] # s
BY DEF DeadSet, ValidMap, Known

\* What depends on the table does not move with it.
LEMMA SameTable ==
    ASSUME UNCHANGED clients
    PROVE  UNCHANGED <<ValidMap, DeadSet, RevokedSet>>
BY DEF ValidMap, DeadSet, RevokedSet

\* A handler that mints for nobody before and after a step changes no count.
LEMMA SameAdmitted ==
    ASSUME NEW w \in Workers, \A v \in Workers \ {w} : handler'[v] = handler[v],
           handler[w].pc # "mint", handler'[w].pc # "mint"
    PROVE  UNCHANGED AdmittedMap
<1>1. \A c : Minting(c)' = Minting(c)
  BY DEF Minting
<1> QED
  BY <1>1 DEF AdmittedMap

LEMMA FinishAdmitted ==
    ASSUME TypeOK, NEW w \in Workers, Finish(w), handler[w].pc # "mint"
    PROVE  UNCHANGED AdmittedMap
BY FinishFacts, SameAdmitted DEF Idle

\* The request of account c that was about to be issued a token is over.
LEMMA SettleAdmitted ==
    ASSUME TypeOK, NEW w \in Workers, Finish(w), handler[w].pc = "mint",
           NEW c \in ClientIds, c = handler[w].client
    PROVE  /\ AdmittedMap[c] > 0
           /\ AdmittedMap' = [AdmittedMap EXCEPT ![c] = @ - 1]
<1>1. (\A v \in Workers \ {w} : handler'[v] = handler[v]) /\ handler'[w].pc = "idle"
  BY FinishFacts DEF Idle
<1>2. Minting(c)' = Minting(c) \ {w} /\ w \in Minting(c) /\ Minting(c) \in SUBSET Workers
  BY <1>1 DEF Minting
<1>3. \A d \in ClientIds \ {c} : Minting(d)' = Minting(d)
  BY <1>1 DEF Minting
<1>4. IsFiniteSet(Minting(c)) /\ Cardinality(Minting(c)) \in Nat
  BY <1>2, Finite
<1>5. Cardinality(Minting(c)') = Cardinality(Minting(c)) - 1
  <2>1. Cardinality(Minting(c) \ {w}) = Cardinality(Minting(c)) - 1
    BY <1>2, <1>4, FS_RemoveElement
  <2> QED
    BY <1>2, <2>1
<1>6. Cardinality(Minting(c)) # 0
  BY <1>2, <1>4, FS_EmptySet
<1> QED
  BY <1>3, <1>4, <1>5, <1>6 DEF AdmittedMap

\* A request of account c is admitted.
LEMMA AdmitAdmitted ==
    ASSUME TypeOK, NEW w \in Workers, NEW c \in ClientIds,
           Start(w, "mint", None, c, 0, None)
    PROVE  AdmittedMap' = [AdmittedMap EXCEPT ![c] = @ + 1]
<1>1. /\ \A v \in Workers \ {w} : handler'[v] = handler[v]
      /\ handler[w].pc = "idle" /\ handler'[w].pc = "mint" /\ handler'[w].client = c
  <2>1. PICK h : h = [pc |-> "mint", owner |-> None, client |-> c, secret |-> 0,
                      loaded |-> IF c = 0 THEN None ELSE clients[c], patch |-> None]
    OBVIOUS
  <2>2. h.pc = "mint" /\ h.client = c
    BY <2>1
  <2>3. handler' = [handler EXCEPT ![w] = h] /\ handler[w].pc = "idle"
    BY <2>1 DEF Start, At
  <2> QED
    BY <2>2, <2>3 DEF TypeOK
<1>2. Minting(c)' = Minting(c) \cup {w} /\ w \notin Minting(c) /\ Minting(c) \in SUBSET Workers
  BY <1>1 DEF Minting
<1>3. \A d \in ClientIds \ {c} : Minting(d)' = Minting(d)
  BY <1>1 DEF Minting
<1>4. IsFiniteSet(Minting(c))
  BY <1>2, Finite
<1>5. Cardinality(Minting(c)') = Cardinality(Minting(c)) + 1
  <2>1. Cardinality(Minting(c) \cup {w}) = Cardinality(Minting(c)) + 1
    BY <1>2, <1>4, FS_AddElement
  <2> QED
    BY <1>2, <2>1
<1> QED
  BY <1>3, <1>5 DEF AdmittedMap

\* create_client.
LEMMA CreateRefines ==
    ASSUME ClientsInv, NEW w \in Workers, Create(w)
    PROVE  Promise!Next
<1>0. TablesInv /\ TypeOK /\ SecretInv
  BY DEF ClientsInv, TablesInv
<1>1. PICK n : n = Len(clients) + 1
  OBVIOUS
<1>2. PICK s : s = secrets + 1
  OBVIOUS
<1>3. /\ DOMAIN clients' = DOMAIN clients \cup {n} /\ n \notin DOMAIN clients /\ n <= MaxClients
      /\ \A d \in DOMAIN clients : clients'[d] = clients[d]
      /\ clients'[n].secret = s /\ clients'[n].replaced = {} /\ s \in 0..MaxSecrets
      /\ handler[w].pc = "insert" /\ Finish(w)
  BY <1>0, <1>1, <1>2, CreateFacts
<1>4. clients'[n].revoked = FALSE
  <2>1. PICK new : new = [owner |-> handler[w].owner, secret |-> secrets + 1,
                          active |-> TRUE, revoked |-> FALSE, replaced |-> {}, late |-> 0]
    OBVIOUS
  <2>2. clients' = Append(clients, new) /\ new.revoked = FALSE
    BY <2>1 DEF Create
  <2>3. clients \in Seq(ServiceAccount)
    BY <1>0 DEF TypeOK
  <2>4. clients'[n] = new
    BY <1>1, <2>2, <2>3
  <2> QED
    BY <2>2, <2>4
<1>5. n \in ClientIds /\ s \in SecretIds
  BY <1>0, <1>1, <1>2, <1>3, RowFacts, ClientsAssumption DEF ClientIds, SecretIds
<1>6. \A c \in DOMAIN clients : s \notin Known(c)
  BY <1>0, <1>2, RowFacts DEF SecretInv
<1>7. s \notin DeadSet /\ \A c \in DOMAIN ValidMap : ValidMap[c] # s
  BY <1>6, UnknownIsFresh
<1>8. ValidMap' = [d \in DOMAIN ValidMap \cup {n} |-> IF d = n THEN s ELSE ValidMap[d]]
  BY <1>3 DEF ValidMap
<1>9. UNCHANGED DeadSet
  BY <1>3 DEF DeadSet
<1>10. UNCHANGED RevokedSet
  BY <1>3, <1>4 DEF RevokedSet
<1>11. UNCHANGED AdmittedMap
  BY <1>0, <1>3, FinishAdmitted
<1>12. Promise!Register(n, s)
  BY <1>3, <1>7, <1>8, <1>9, <1>10, <1>11
     DEF Promise!Register, Promise!Fresh, ValidMap, DeadSet, RevokedSet, AdmittedMap
<1> QED
  BY <1>5, <1>12 DEF Promise!Next

\* The COMMIT of rotate_secret writes neither is_active nor revoked_at.
LEMMA RotateKeepsRevoked ==
    ASSUME TablesInv, NEW w \in Workers, Rotate(w)
    PROVE  clients'[handler[w].client].revoked = clients[handler[w].client].revoked
<1>1. PICK c, row, loaded : /\ c = handler[w].client /\ row = clients[c]
                            /\ loaded = handler[w].loaded
  OBVIOUS
<1>2. SafeHandler(handler[w]) /\ handler[w].pc = "rotate"
  BY DEF Rotate, At, TablesInv
<1>3. c \in DOMAIN clients /\ row \in ServiceAccount /\ loaded \in ServiceAccount
  BY <1>1, <1>2, RowFacts DEF SafeHandler, TablesInv
<1>4. PICK changed : changed = [loaded EXCEPT !.secret = handler[w].secret]
  OBVIOUS
<1>5. changed.revoked = loaded.revoked
  BY <1>3, <1>4 DEF ServiceAccount
<1>6. Store(w, changed)
  BY <1>1, <1>4 DEF Rotate
<1>7. PICK secret, active, replaced :
        clients' = [clients EXCEPT ![c] =
                      [row EXCEPT !.secret = secret, !.active = active,
                                  !.revoked = row.revoked, !.replaced = replaced]]
  BY <1>1, <1>5, <1>6 DEF Store
<1>8. PICK stored : stored = [row EXCEPT !.secret = secret, !.active = active,
                                         !.revoked = row.revoked, !.replaced = replaced]
  OBVIOUS
<1>9. stored.revoked = row.revoked
  BY <1>3, <1>8 DEF ServiceAccount
<1>10. clients'[c] = stored
  BY <1>3, <1>7, <1>8
<1> QED
  BY <1>1, <1>9, <1>10

\* rotate_secret, revoke_client, update_client: the COMMIT.
LEMMA WriteRefines ==
    ASSUME ClientsInv, NEW w \in Workers, Rotate(w) \/ RevokeCommit(w) \/ Update(w)
    PROVE  Promise!Next \/ UNCHANGED Promise!credentialVars
<1>0. TablesInv /\ TypeOK /\ SecretInv
  BY DEF ClientsInv, TablesInv
<1>1. PICK c : c = handler[w].client
  OBVIOUS
<1>2. PICK s : s = handler[w].secret
  OBVIOUS
<1>3. /\ c \in DOMAIN clients /\ Overwritten(c) /\ Finish(w)
      /\ handler[w].pc \in {"rotate", "revoke", "update"}
      /\ KeepsSecret(c) \/ (handler[w].pc = "rotate" /\ ReplacesSecret(c, s))
  BY <1>0, <1>1, <1>2, WriteFacts
<1>4. c \in ClientIds /\ clients[c].revoked \in BOOLEAN
  BY <1>0, <1>3, RowFacts
<1>5. UNCHANGED AdmittedMap
  BY <1>0, <1>3, FinishAdmitted
<1>6. /\ DOMAIN clients' = DOMAIN clients
      /\ \A d \in DOMAIN clients \ {c} : clients'[d] = clients[d]
      /\ clients[c].revoked => clients'[c].revoked
  BY <1>3 DEF Overwritten
<1>7. CASE KeepsSecret(c)
  <2>1. UNCHANGED ValidMap
    BY <1>6, <1>7 DEF ValidMap, KeepsSecret
  <2>2. UNCHANGED DeadSet
    <3>1. \A d \in DOMAIN clients : clients'[d].replaced = clients[d].replaced
      BY <1>6, <1>7 DEF KeepsSecret
    <3> QED
      BY <1>6, <3>1 DEF DeadSet
  <2>3. CASE clients'[c].revoked
    <3>1. RevokedSet' = RevokedSet \cup {c}
      BY <1>3, <1>6, <2>3 DEF RevokedSet
    <3>2. Promise!Revoke(c)
      BY <1>3, <1>5, <2>1, <2>2, <3>1
         DEF Promise!Revoke, ValidMap, DeadSet, RevokedSet, AdmittedMap
    <3> QED
      BY <1>4, <3>2 DEF Promise!Next
  <2>4. CASE ~clients'[c].revoked
    <3>1. UNCHANGED RevokedSet
      BY <1>3, <1>6, <2>4 DEF RevokedSet
    <3> QED
      BY <1>5, <2>1, <2>2, <3>1
         DEF Promise!credentialVars, ValidMap, DeadSet, RevokedSet, AdmittedMap
  <2> QED
    BY <2>3, <2>4
<1>8. CASE handler[w].pc = "rotate" /\ ReplacesSecret(c, s)
  <2>1. clients'[c].revoked = clients[c].revoked
    BY <1>0, <1>1, <1>8, RotateKeepsRevoked DEF RevokeCommit, Update, At
  <2>2. UNCHANGED RevokedSet
    BY <1>3, <1>6, <2>1 DEF RevokedSet
  <2>3. ValidMap' = [ValidMap EXCEPT ![c] = s]
    BY <1>6, <1>8 DEF ValidMap, ReplacesSecret
  <2>4. DeadSet' = DeadSet \cup {ValidMap[c]}
    <3>1. clients'[c].replaced = clients[c].replaced \cup {ValidMap[c]}
      BY <1>3, <1>8 DEF ValidMap, ReplacesSecret
    <3>2. \A x : x \in DeadSet' <=> \E d \in DOMAIN clients : x \in clients'[d].replaced
      BY <1>6 DEF DeadSet
    <3>3. \A x : x \in DeadSet <=> \E d \in DOMAIN clients : x \in clients[d].replaced
      BY DEF DeadSet
    <3>4. \A x : x \in DeadSet' <=> x \in DeadSet \/ x = ValidMap[c]
      BY <1>3, <1>6, <3>1, <3>2, <3>3
    <3> QED
      BY <3>4
  <2>5. s \in SecretIds /\ \A d \in DOMAIN clients : s \notin Known(d)
    <3>1. s \in 1..secrets /\ secrets \in Nat /\ secrets <= MaxSecrets
      BY <1>0, <1>2, <1>8, RowFacts DEF TablesInv, SafeHandler
    <3>2. \A d \in DOMAIN clients : s \notin Known(d)
      BY <1>0, <1>2, <1>8 DEF SecretInv
    <3> QED
      BY <3>1, <3>2, ClientsAssumption DEF SecretIds
  <2>6. s \notin DeadSet /\ \A d \in DOMAIN ValidMap : ValidMap[d] # s
    BY <2>5, UnknownIsFresh
  <2>7. Promise!Replace(c, s)
    BY <1>3, <1>5, <2>2, <2>3, <2>4, <2>6
       DEF Promise!Replace, Promise!Fresh, ValidMap, DeadSet, RevokedSet, AdmittedMap
  <2> QED
    BY <1>4, <2>5, <2>7 DEF Promise!Next
<1> QED
  BY <1>3, <1>7, <1>8

\* A token is minted, or the request for one gives up.
LEMMA SettleRefines ==
    ASSUME TypeOK, NEW w \in Workers, Finish(w), handler[w].pc = "mint",
           handler[w].client \in ClientIds, UNCHANGED <<ValidMap, DeadSet, RevokedSet>>
    PROVE  Promise!Next
<1>1. PICK c \in ClientIds : c = handler[w].client
  OBVIOUS
<1>2. AdmittedMap[c] > 0 /\ AdmittedMap' = [AdmittedMap EXCEPT ![c] = @ - 1]
  BY <1>1, SettleAdmitted
<1>3. Promise!Settle(c)
  BY <1>2 DEF Promise!Settle, ValidMap, DeadSet, RevokedSet, AdmittedMap
<1> QED
  BY <1>3 DEF Promise!Next

LEMMA MintRefines ==
    ASSUME ClientsInv, NEW w \in Workers, Mint(w)
    PROVE  Promise!Next
<1>0. TablesInv /\ TypeOK
  BY DEF ClientsInv, TablesInv
<1>1. PICK c : c = handler[w].client
  OBVIOUS
<1>2. /\ c \in DOMAIN clients /\ handler[w].pc = "mint" /\ Finish(w)
      /\ DOMAIN clients' = DOMAIN clients
      /\ \A d \in DOMAIN clients \ {c} : clients'[d] = clients[d]
      /\ clients'[c].revoked = clients[c].revoked /\ KeepsSecret(c)
  BY <1>0, <1>1, MintFacts
<1>3. UNCHANGED ValidMap
  BY <1>2 DEF ValidMap, KeepsSecret
<1>4. UNCHANGED DeadSet
  <2>1. \A d \in DOMAIN clients : clients'[d].replaced = clients[d].replaced
    BY <1>2 DEF KeepsSecret
  <2> QED
    BY <1>2, <2>1 DEF DeadSet
<1>5. UNCHANGED RevokedSet
  BY <1>2 DEF RevokedSet
<1>6. c \in ClientIds
  BY <1>0, <1>2, RowFacts
<1> QED
  BY <1>0, <1>1, <1>2, <1>3, <1>4, <1>5, <1>6, SettleRefines

\* The SELECTs, and a handler that dies.
LEMMA BeginRefines ==
    ASSUME ClientsInv, NEW w \in Workers, Begin(w)
    PROVE  Promise!Next \/ UNCHANGED Promise!credentialVars
<1>0. TablesInv /\ TypeOK
  BY DEF ClientsInv, TablesInv
<1>1. UNCHANGED <<ValidMap, DeadSet, RevokedSet>>
  BY <1>0, BeginFacts, SameTable
<1>2. ASSUME UNCHANGED AdmittedMap PROVE UNCHANGED Promise!credentialVars
  BY <1>1, <1>2 DEF Promise!credentialVars, ValidMap, DeadSet, RevokedSet, AdmittedMap
<1>3. ASSUME NEW point, point # "mint", NEW o, NEW c, NEW secret, NEW patch,
             Start(w, point, o, c, secret, patch)
      PROVE  UNCHANGED AdmittedMap
  <2>1. /\ \A v \in Workers \ {w} : handler'[v] = handler[v]
        /\ handler[w].pc = "idle" /\ handler'[w].pc = point
    BY <1>0, <1>3, StartFacts
  <2> QED
    BY <1>3, <2>1, SameAdmitted
<1>4. ASSUME NEW c \in ClientIds, NEW secret \in SecretIds, TokenBegin(w, c, secret)
      PROVE  Promise!Next
  <2>1. /\ c \in DOMAIN ValidMap /\ secret = ValidMap[c] /\ c \notin RevokedSet
        /\ Start(w, "mint", None, c, 0, None)
    BY <1>4 DEF TokenBegin, Usable, ValidMap, RevokedSet
  <2>2. AdmittedMap' = [AdmittedMap EXCEPT ![c] = @ + 1]
    BY <1>0, <2>1, AdmitAdmitted
  <2>3. Promise!Admit(c, secret)
    BY <1>1, <2>1, <2>2 DEF Promise!Admit, ValidMap, DeadSet, RevokedSet, AdmittedMap
  <2> QED
    BY <2>3 DEF Promise!Next
<1>5. CASE \E o \in Owners : CreateBegin(w, o)
  BY <1>2, <1>3, <1>5 DEF CreateBegin
<1>6. CASE \E c \in ClientIds : RotateBegin(w, c)
  BY <1>2, <1>3, <1>6 DEF RotateBegin
<1>7. CASE \E c \in ClientIds : RevokeBegin(w, c)
  BY <1>2, <1>3, <1>7 DEF RevokeBegin
<1>8. CASE \E c \in ClientIds, patch \in BOOLEAN \cup {None} : UpdateBegin(w, c, patch)
  BY <1>2, <1>3, <1>8 DEF UpdateBegin
<1>9. CASE Abandon(w)
  <2>1. Finish(w)
    BY <1>9 DEF Abandon
  <2>2. CASE handler[w].pc = "mint"
    <3>1. handler[w].client \in ClientIds
      BY <1>0, <2>2, RowFacts DEF TablesInv, SafeHandler
    <3> QED
      BY <1>0, <1>1, <2>1, <2>2, <3>1, SettleRefines
  <2>3. CASE handler[w].pc # "mint"
    BY <1>0, <1>2, <2>1, <2>3, FinishAdmitted
  <2> QED
    BY <2>2, <2>3
<1> QED
  BY <1>4, <1>5, <1>6, <1>7, <1>8, <1>9 DEF Begin

LEMMA InitRefines == Init => Promise!Init
<1> SUFFICES ASSUME Init PROVE Promise!Init
  OBVIOUS
<1>1. DOMAIN clients = {}
  BY DEF Init
<1>2. ValidMap = [c \in {} |-> {}] /\ DeadSet = {} /\ RevokedSet = {}
  BY <1>1 DEF ValidMap, DeadSet, RevokedSet
<1>3. AdmittedMap = [c \in ClientIds |-> 0]
  <2>1. \A c : Minting(c) = {}
    BY DEF Init, Minting, Idle
  <2> QED
    BY <2>1, FS_EmptySet DEF AdmittedMap
<1> QED
  BY <1>2, <1>3 DEF Promise!Init, ValidMap, DeadSet, RevokedSet, AdmittedMap

LEMMA StepRefines ==
    ClientsInv /\ [Next]_vars => [Promise!Next]_(Promise!credentialVars)
<1> SUFFICES ASSUME ClientsInv, [Next]_vars
             PROVE  Promise!Next \/ UNCHANGED Promise!credentialVars
  OBVIOUS
<1>1. CASE UNCHANGED vars
  <2>1. UNCHANGED <<clients, handler>>
    BY <1>1 DEF vars
  <2>2. UNCHANGED <<ValidMap, DeadSet, RevokedSet>> /\ UNCHANGED AdmittedMap
    BY <2>1, SameTable DEF AdmittedMap, Minting
  <2> QED
    BY <2>2 DEF Promise!credentialVars, ValidMap, DeadSet, RevokedSet, AdmittedMap
<1> QED
  BY <1>1, CreateRefines, MintRefines, WriteRefines, BeginRefines, StepCases

\* Whatever handlers write back rows they had loaded, the credentials of a service account
\* live the life that Credentials promises: one valid secret at a time, valid once and for
\* one account, revocations that last, tokens for those only who presented the valid secret
\* of an account that was not revoked.
THEOREM Refinement == Spec => ImplementsCredentials
<1> QED
  BY InitRefines, StepRefines, ClientsInvariance, PTL
     DEF Spec, ImplementsCredentials, Promise!Spec

===============================================================================
