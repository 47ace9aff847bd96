-------------------------- MODULE SigningKeysProofs --------------------------
(***************************************************************************)
(* Proofs about module SigningKeys, for any number of handlers and keys    *)
(* and any token lifetime, grace window and latency.                       *)
(***************************************************************************)
EXTENDS SigningKeys, SequenceTheorems, FiniteSetTheorems, TLAPS

-------------------------------------------------------------------------------
(* The inductive invariant.                                                *)

\* A key is retired for no longer than its latest token is old, but for the latencies
\* of the handlers that signed it and retired the key; a key that came back after its
\* revocation was retired about then; an active key was never revoked.
SafeKey(key) ==
    /\ key.status = "rotating_out" /\ key.life > 0
         => key.rotated + key.life <= 2 * Latency + TokenTTL
    /\ key.status = "rotating_out" /\ key.was_revoked
         => key.revoked <= key.rotated + Latency
    /\ key.status = "active" => ~key.was_revoked

\* A handler about to sign read its key before anybody retired it; one about to
\* retire keys may revive a key only if that was revoked after it was loaded.
SafeHandler(h) ==
    /\ h \in Handler
    /\ h.pc \in {"sign", "revoke"} => h.key \in DOMAIN keys
    /\ h.pc = "sign" /\ keys[h.key].status = "rotating_out"
         => keys[h.key].rotated <= h.age + Latency
    /\ h.pc = "retire"
         => \A k \in h.loaded : /\ k \in DOMAIN keys
                                /\ keys[k].was_revoked => keys[k].revoked <= h.age + Latency
    /\ h.pc = "revoke" /\ h.seen = "revoked" => keys[h.key].status # "active"

KeysInv ==
    /\ TypeOK
    /\ \A k \in DOMAIN keys : SafeKey(keys[k])
    /\ \A w \in Workers : SafeHandler(handler[w])

-------------------------------------------------------------------------------
(* What the table and the handlers hold.                                   *)

LEMMA RowTypes ==
    ASSUME NEW s \in Seq(SigningKey)
    PROVE  /\ Len(s) \in Nat /\ DOMAIN s = 1..Len(s)
           /\ \A k \in DOMAIN s :
                /\ s[k] \in SigningKey
                /\ s[k].status \in SigningKeyStatus /\ s[k].was_revoked \in BOOLEAN
                /\ s[k].rotated \in Nat /\ s[k].revoked \in Nat /\ s[k].life \in Nat
                /\ s[k].rotated <= Grace + Latency + 1 /\ s[k].revoked <= Grace + Latency
                /\ s[k].life <= TokenTTL
<1>1. \A k \in DOMAIN s : s[k] \in SigningKey
  OBVIOUS
<1> QED
  BY <1>1, SigningKeysAssumption DEF SigningKey

LEMMA KeyFacts ==
    ASSUME TypeOK
    PROVE  /\ Len(keys) \in Nat /\ Len(keys) <= MaxKeys
           /\ DOMAIN keys = 1..Len(keys)
           /\ DOMAIN keys \subseteq KeyIds
           /\ \A k \in DOMAIN keys : keys[k] \in SigningKey
<1> QED
  BY RowTypes, SigningKeysAssumption DEF TypeOK, KeyIds

LEMMA MapIsSequence ==
    ASSUME TypeOK, NEW f \in [DOMAIN keys -> SigningKey]
    PROVE  f \in Seq(SigningKey) /\ Len(f) = Len(keys)
<1> QED
  BY KeyFacts

LEMMA CreateAppends ==
    ASSUME TypeOK, NEW x \in SigningKey, keys' = Append(keys, x)
    PROVE  /\ keys' \in Seq(SigningKey)
           /\ Len(keys') = Len(keys) + 1
           /\ DOMAIN keys' = DOMAIN keys \cup {Len(keys) + 1}
           /\ Len(keys) + 1 \notin DOMAIN keys
           /\ \A k \in DOMAIN keys : keys'[k] = keys[k]
           /\ keys'[Len(keys) + 1] = x
<1> DEFINE n == Len(keys)
<1>1. keys \in Seq(SigningKey) /\ n \in Nat /\ DOMAIN keys = 1..n
  BY KeyFacts DEF TypeOK
<1>2. /\ keys' \in Seq(SigningKey)
      /\ DOMAIN keys' = 1..(n + 1)
      /\ Len(keys') = n + 1
      /\ \A i \in 1..n : keys'[i] = keys[i]
      /\ keys'[n + 1] = x
  BY <1>1
<1> QED
  BY <1>1, <1>2

NewKey == [status |-> "active", rotated |-> 0, was_revoked |-> FALSE,
           revoked |-> 0, life |-> 0]

LEMMA NewKeyType == NewKey \in SigningKey /\ SafeKey(NewKey)
<1> QED
  BY SigningKeysAssumption DEF NewKey, SigningKey, SigningKeyStatus, SafeKey

LEMMA IdleIsSafe == TypeOK => SafeHandler(Idle)
<1>1. Idle \in Handler
  BY SigningKeysAssumption DEF Idle, Handler, Points, SigningKeyStatus
<1> QED
  BY <1>1 DEF SafeHandler, Idle

LEMMA IdleStaysSafe ==
    ASSUME TypeOK', NEW w \in Workers, handler'[w] = Idle
    PROVE  SafeHandler(handler[w])'
<1>1. Idle \in Handler
  BY SigningKeysAssumption DEF Idle, Handler, Points, SigningKeyStatus
<1> QED
  BY <1>1 DEF SafeHandler, Idle

LEMMA InitSafe == Init => KeysInv
<1> SUFFICES ASSUME Init PROVE KeysInv
  OBVIOUS
<1>1. keys \in Seq(SigningKey) /\ Len(keys) = 0 /\ DOMAIN keys = {}
  BY DEF Init
<1>2. Idle \in Handler
  BY SigningKeysAssumption DEF Idle, Handler, Points, SigningKeyStatus
<1>3. TypeOK
  BY <1>1, <1>2, SigningKeysAssumption DEF Init, TypeOK
<1>4. \A w \in Workers : handler[w] = Idle
  BY DEF Init
<1> QED
  BY <1>1, <1>3, <1>4, IdleIsSafe DEF KeysInv

-------------------------------------------------------------------------------
(* Steps that leave the table alone, or touch one row.                     *)

\* The other handlers stay safe when every row they hold only changes in ways that
\* no condition on them minds.
Benign ==
    \A k \in DOMAIN keys :
        /\ k \in DOMAIN keys'
        /\ keys'[k].status # "active" \/ keys[k].status = "active"
        /\ keys'[k].status = "rotating_out"
             => \/ keys'[k].rotated <= Latency
                \/ keys[k].status = "rotating_out" /\ keys'[k].rotated = keys[k].rotated
        /\ keys'[k].was_revoked
             => \/ keys'[k].revoked <= Latency
                \/ keys[k].was_revoked /\ keys'[k].revoked = keys[k].revoked

LEMMA BenignKeepsHandler ==
    ASSUME KeysInv, TypeOK', Benign, NEW w \in Workers, handler'[w] = handler[w]
    PROVE  SafeHandler(handler[w])'
<1> DEFINE h == handler[w]
<1>1. /\ h \in Handler /\ h' = h /\ SafeHandler(h)
      /\ h.age \in Nat /\ h.age <= Latency /\ h.key \in Nat /\ h.loaded \subseteq KeyIds
  BY SigningKeysAssumption DEF KeysInv, SafeHandler, Handler
<1>2. /\ \A k \in DOMAIN keys : keys[k].rotated \in Nat /\ keys[k].revoked \in Nat
      /\ \A k \in DOMAIN keys' : keys'[k].rotated \in Nat /\ keys'[k].revoked \in Nat
  BY RowTypes DEF KeysInv, TypeOK
<1>3. h.pc \in {"sign", "revoke"} => h.key \in DOMAIN keys'
  BY <1>1 DEF SafeHandler, Benign
<1>4. h.pc = "sign" /\ keys'[h.key].status = "rotating_out"
         => keys'[h.key].rotated <= h.age + Latency
  BY <1>1, <1>2, SigningKeysAssumption DEF SafeHandler, Benign
<1>5. ASSUME h.pc = "retire", NEW k \in h.loaded
      PROVE  /\ k \in DOMAIN keys'
             /\ keys'[k].was_revoked => keys'[k].revoked <= h.age + Latency
  BY <1>1, <1>2, <1>5, SigningKeysAssumption DEF SafeHandler, Benign
<1>6. h.pc = "revoke" /\ h.seen = "revoked" => keys'[h.key].status # "active"
  BY <1>1 DEF SafeHandler, Benign
<1> QED
  BY <1>1, <1>3, <1>4, <1>5, <1>6 DEF SafeHandler

LEMMA UnchangedIsBenign == ASSUME UNCHANGED keys PROVE Benign
<1> QED
  BY DEF Benign

\* What each kind of handler step does to the table, and that it leaves the handlers
\* of the other workers alone.
OthersWait(w) == \A v \in Workers : v # w => handler'[v] = handler[v]

LEMMA CreateStep ==
    ASSUME KeysInv, NEW w \in Workers, CreateKey(w)
    PROVE  KeysInv'
<1>1. /\ keys' = Append(keys, NewKey) /\ Len(keys) < MaxKeys
      /\ NewKey \in SigningKey /\ SafeKey(NewKey)
  BY NewKeyType DEF CreateKey, NewKey
<1>2. /\ keys' \in Seq(SigningKey)
      /\ Len(keys') = Len(keys) + 1
      /\ DOMAIN keys' = DOMAIN keys \cup {Len(keys) + 1}
      /\ Len(keys) + 1 \notin DOMAIN keys
      /\ \A k \in DOMAIN keys : keys'[k] = keys[k]
      /\ keys'[Len(keys) + 1] = NewKey
  BY <1>1, CreateAppends DEF KeysInv
<1>3. handler[w] \in Handler /\ handler \in [Workers -> Handler]
      /\ Len(keys) + 1 \in 0..MaxKeys
  BY <1>1, KeyFacts, SigningKeysAssumption DEF KeysInv, TypeOK
<1>4. /\ handler' \in [Workers -> Handler]
      /\ OthersWait(w)
      /\ \/ handler'[w] = [handler[w] EXCEPT !.pc = "sign", !.key = Len(keys) + 1]
         \/ handler'[w] = Idle
  <2>1. [handler[w] EXCEPT !.pc = "sign", !.key = Len(keys) + 1] \in Handler
    BY <1>3 DEF Handler, Points
  <2>2. Idle \in Handler
    BY IdleIsSafe DEF KeysInv, SafeHandler
  <2> QED
    BY <1>3, <2>1, <2>2 DEF CreateKey, Finish, OthersWait
<1>5. TypeOK'
  BY <1>2, <1>4, KeyFacts, SigningKeysAssumption, <1>1 DEF KeysInv, TypeOK
<1>6. Benign
  BY <1>2 DEF Benign
<1>7. ASSUME NEW v \in Workers PROVE SafeHandler(handler[v])'
  <2>1. CASE v # w
    BY <1>4, <1>5, <1>6, <2>1, BenignKeepsHandler DEF OthersWait
  <2>2. CASE v = w /\ handler'[w] = Idle
    BY <1>5, <2>2, IdleStaysSafe
  <2>3. CASE v = w /\ handler'[w] = [handler[w] EXCEPT !.pc = "sign", !.key = Len(keys) + 1]
    <3>1. /\ handler'[v] \in Handler
          /\ handler'[v].pc = "sign" /\ handler'[v].key = Len(keys) + 1
      BY <1>3, <1>4, <2>3 DEF Handler
    <3>2. keys'[Len(keys) + 1].status = "active"
      BY <1>2 DEF NewKey
    <3> QED
      BY <1>2, <3>1, <3>2 DEF SafeHandler
  <2> QED
    BY <1>4, <2>1, <2>2, <2>3
<1> QED
  BY <1>1, <1>2, <1>5, <1>7 DEF KeysInv

\* A step that leaves the table alone and starts, or ends, one request.
LEMMA QuietStep ==
    ASSUME KeysInv, NEW w \in Workers, NEW h \in Handler, UNCHANGED keys,
           handler' = [handler EXCEPT ![w] = h], SafeHandler(h)
    PROVE  KeysInv'
<1>1. handler \in [Workers -> Handler]
  BY DEF KeysInv, TypeOK
<1>2. handler' \in [Workers -> Handler] /\ handler'[w] = h /\ OthersWait(w)
  BY <1>1 DEF OthersWait
<1>3. TypeOK'
  BY <1>2 DEF KeysInv, TypeOK
<1>4. ASSUME NEW v \in Workers PROVE SafeHandler(handler[v])'
  <2>1. CASE v # w
    BY <1>2, <1>3, <2>1, UnchangedIsBenign, BenignKeepsHandler DEF OthersWait
  <2>2. CASE v = w
    BY <1>2, <2>2 DEF SafeHandler
  <2> QED
    BY <2>1, <2>2
<1> QED
  BY <1>3, <1>4 DEF KeysInv

LEMMA BeginStep ==
    ASSUME KeysInv, NEW w \in Workers,
           \/ MintBegin(w) \/ StartupBegin(w) \/ RotateBegin(w) \/ Abandon(w)
           \/ \E k \in KeyIds : RevokeBegin(w, k)
    PROVE  KeysInv'
<1> DEFINE H(op, point, k, loaded, seen) ==
             [op |-> op, pc |-> point, key |-> k, loaded |-> loaded, seen |-> seen, age |-> 0]
<1>1. /\ DOMAIN keys \subseteq KeyIds /\ \A k \in KeyIds : k \in 0..MaxKeys
      /\ \A k \in DOMAIN keys : keys[k] \in SigningKey /\ SafeKey(keys[k])
      /\ \A k \in DOMAIN keys : keys[k].status \in SigningKeyStatus
      /\ 0 \in 0..Latency /\ 0 \in 0..MaxKeys
  BY KeyFacts, SigningKeysAssumption DEF KeysInv, KeyIds, SigningKey
<1>2. UNCHANGED keys
  BY DEF MintBegin, StartupBegin, RotateBegin, Abandon, RevokeBegin
<1>3. ASSUME NEW k \in Active
      PROVE  H("mint", "sign", k, {}, "active") \in Handler
             /\ SafeHandler(H("mint", "sign", k, {}, "active"))
  BY <1>1 DEF Active, Handler, Points, SigningKeyStatus, SafeHandler
<1>4. ASSUME NEW op \in {"mint", "startup"}
      PROVE  H(op, "create", 0, {}, "active") \in Handler
             /\ SafeHandler(H(op, "create", 0, {}, "active"))
  BY <1>1 DEF Handler, Points, SigningKeyStatus, SafeHandler
<1>5. /\ H("rotate", "retire", 0, Active, "active") \in Handler
      /\ SafeHandler(H("rotate", "retire", 0, Active, "active"))
  BY <1>1 DEF Active, Handler, Points, SigningKeyStatus, SafeHandler, SafeKey
<1>6. ASSUME NEW k \in DOMAIN keys
      PROVE  /\ H("revoke", "revoke", k, {}, keys[k].status) \in Handler
             /\ SafeHandler(H("revoke", "revoke", k, {}, keys[k].status))
  BY <1>1 DEF Handler, Points, SafeHandler
<1>7. Idle \in Handler /\ SafeHandler(Idle)
  BY IdleIsSafe DEF KeysInv, SafeHandler
<1>8. CASE MintBegin(w)
  BY <1>2, <1>3, <1>4, <1>8, QuietStep DEF MintBegin, IsNewestActive, Start
<1>9. CASE StartupBegin(w)
  BY <1>2, <1>4, <1>9, QuietStep DEF StartupBegin, Start
<1>10. CASE RotateBegin(w)
  BY <1>2, <1>5, <1>10, QuietStep DEF RotateBegin, Start
<1>11. CASE \E k \in KeyIds : RevokeBegin(w, k)
  BY <1>2, <1>6, <1>11, QuietStep DEF RevokeBegin, Start
<1>12. CASE Abandon(w)
  BY <1>2, <1>7, <1>12, QuietStep DEF Abandon, Finish
<1> QED
  BY <1>8, <1>9, <1>10, <1>11, <1>12

\* A step that rewrites rows and moves one handler on.
LEMMA RowStep ==
    ASSUME KeysInv, NEW w \in Workers, NEW h \in Handler,
           handler' = [handler EXCEPT ![w] = h],
           h.pc \in {"idle", "create"},
           keys' \in [DOMAIN keys -> SigningKey],
           \A k \in DOMAIN keys : SafeKey(keys'[k]),
           Benign
    PROVE  KeysInv'
<1>1. handler \in [Workers -> Handler]
  BY DEF KeysInv, TypeOK
<1>2. handler' \in [Workers -> Handler] /\ handler'[w] = h /\ OthersWait(w)
  BY <1>1 DEF OthersWait
<1>3. TypeOK' /\ DOMAIN keys' = DOMAIN keys
  BY <1>2, MapIsSequence DEF KeysInv, TypeOK
<1>4. ASSUME NEW v \in Workers PROVE SafeHandler(handler[v])'
  <2>1. CASE v # w
    BY <1>2, <1>3, <2>1, BenignKeepsHandler DEF OthersWait
  <2>2. CASE v = w
    BY <1>2, <2>2 DEF SafeHandler
  <2> QED
    BY <2>1, <2>2
<1> QED
  BY <1>3, <1>4 DEF KeysInv

LEMMA HandlerRecord ==
    ASSUME KeysInv, NEW w \in Workers
    PROVE  /\ handler[w] \in Handler /\ SafeHandler(handler[w])
           /\ handler[w].age \in Nat /\ handler[w].age <= Latency
           /\ handler[w].seen \in SigningKeyStatus
           /\ Idle \in Handler /\ Idle.pc = "idle"
<1>1. handler[w] \in Handler /\ SafeHandler(handler[w])
  BY DEF KeysInv, SafeHandler
<1>2. Idle \in Handler /\ Idle.pc = "idle"
  BY IdleIsSafe DEF KeysInv, SafeHandler, Idle
<1> QED
  BY <1>1, <1>2, SigningKeysAssumption DEF Handler

LEMMA SignStep ==
    ASSUME KeysInv, NEW w \in Workers, Sign(w)
    PROVE  KeysInv'
<1> DEFINE k == handler[w].key
           row == [keys[k] EXCEPT !.life = TokenTTL]
<1>1. /\ k \in DOMAIN keys /\ keys[k] \in SigningKey /\ SafeKey(keys[k])
      /\ keys[k].status = "rotating_out" => keys[k].rotated <= handler[w].age + Latency
  BY HandlerRecord, RowTypes DEF KeysInv, TypeOK, SafeHandler, Sign, At
<1>2. /\ row \in SigningKey
      /\ row.status = keys[k].status /\ row.rotated = keys[k].rotated
      /\ row.was_revoked = keys[k].was_revoked /\ row.revoked = keys[k].revoked
      /\ row.life = TokenTTL
  BY <1>1, SigningKeysAssumption DEF SigningKey
<1>3. SafeKey(row)
  <2>1. keys[k].rotated \in Nat
    BY <1>1, RowTypes DEF KeysInv, TypeOK
  <2> QED
    BY <1>1, <1>2, <2>1, HandlerRecord, SigningKeysAssumption DEF SafeKey
<1> HIDE DEF row
<1>4. /\ keys' \in [DOMAIN keys -> SigningKey]
      /\ keys'[k] = row
      /\ \A j \in DOMAIN keys : j # k => keys'[j] = keys[j]
  BY <1>1, <1>2, KeyFacts DEF Sign, KeysInv, row
<1>5. Benign
  BY <1>2, <1>4 DEF Benign
<1>6. \A j \in DOMAIN keys : SafeKey(keys'[j])
  BY <1>3, <1>4 DEF KeysInv
<1> QED
  BY <1>4, <1>5, <1>6, HandlerRecord, RowStep DEF Sign, Finish

LEMMA RetireStep ==
    ASSUME KeysInv, NEW w \in Workers, RetireKeys(w)
    PROVE  KeysInv'
<1> DEFINE h == handler[w]
           Row(k) == [keys[k] EXCEPT !.status = "rotating_out", !.rotated = h.age]
           next == [handler[w] EXCEPT !.pc = "create", !.loaded = {}]
<1>1. /\ h \in Handler /\ SafeHandler(h) /\ h.pc = "retire"
      /\ h.age \in Nat /\ h.age <= Latency /\ h.age \in 0..(Grace + Latency + 1)
  <2>1. h \in Handler /\ SafeHandler(h) /\ h.age \in Nat /\ h.age <= Latency
    BY HandlerRecord
  <2>2. h.pc = "retire"
    BY DEF RetireKeys, At
  <2> QED
    BY <2>1, <2>2, SigningKeysAssumption
<1>2. ASSUME NEW k \in DOMAIN keys
      PROVE  /\ Row(k) \in SigningKey
             /\ Row(k).status = "rotating_out" /\ Row(k).rotated = h.age
             /\ Row(k).was_revoked = keys[k].was_revoked
             /\ Row(k).revoked = keys[k].revoked /\ Row(k).life = keys[k].life
             /\ keys[k].life \in Nat /\ keys[k].life <= TokenTTL
  <2>1. keys[k] \in SigningKey /\ keys[k].life \in Nat /\ keys[k].life <= TokenTTL
    BY RowTypes DEF KeysInv, TypeOK
  <2> QED
    BY <1>1, <2>1 DEF SigningKey, SigningKeyStatus
<1> HIDE DEF Row
<1>3. ASSUME NEW k \in DOMAIN keys, k \in h.loaded PROVE SafeKey(Row(k))
  <2>1. keys[k].was_revoked => keys[k].revoked <= h.age + Latency
    BY <1>1, <1>3 DEF SafeHandler
  <2>2. h.age + keys[k].life <= 2 * Latency + TokenTTL
    BY <1>1, <1>2, SigningKeysAssumption
  <2> QED
    BY <1>2, <2>1, <2>2 DEF SafeKey
<1>4. /\ keys' \in [DOMAIN keys -> SigningKey]
      /\ \A k \in DOMAIN keys : keys'[k] = IF k \in h.loaded THEN Row(k) ELSE keys[k]
  BY <1>2, KeyFacts DEF RetireKeys, KeysInv, Row
<1>5. Benign
  BY <1>1, <1>2, <1>4 DEF Benign
<1>6. \A k \in DOMAIN keys : SafeKey(keys'[k])
  BY <1>3, <1>4 DEF KeysInv
<1>7. next \in Handler /\ next.pc = "create"
  BY <1>1 DEF Handler, Points
<1>8. handler' = [handler EXCEPT ![w] = next]
  BY DEF RetireKeys
<1> QED
  BY <1>4, <1>5, <1>6, <1>7, <1>8, RowStep

LEMMA RevokeStep ==
    ASSUME KeysInv, NEW w \in Workers, RevokeKey(w)
    PROVE  KeysInv'
<1> DEFINE h == handler[w]
           k == handler[w].key
           row == [keys[k] EXCEPT
                     !.status = IF h.seen = "revoked" THEN @ ELSE "revoked",
                     !.rotated = IF h.seen = "revoked" THEN @ ELSE 0,
                     !.was_revoked = TRUE, !.revoked = h.age]
<1>1. /\ k \in DOMAIN keys /\ keys[k] \in SigningKey /\ SafeKey(keys[k])
      /\ keys[k].rotated \in Nat /\ keys[k].rotated <= Grace + Latency + 1
      /\ keys[k].status \in SigningKeyStatus
      /\ h.seen = "revoked" => keys[k].status # "active"
      /\ h.age \in Nat /\ h.age <= Latency
  BY HandlerRecord, RowTypes DEF KeysInv, TypeOK, SafeHandler, RevokeKey, At
<1>2. /\ row \in SigningKey
      /\ row.status = IF h.seen = "revoked" THEN keys[k].status ELSE "revoked"
      /\ row.rotated = IF h.seen = "revoked" THEN keys[k].rotated ELSE 0
      /\ row.was_revoked = TRUE /\ row.revoked = h.age /\ row.life = keys[k].life
  <2>1. h.age \in 0..(Grace + Latency) /\ 0 \in 0..(Grace + Latency + 1)
    BY <1>1, SigningKeysAssumption
  <2>2. CASE h.seen = "revoked"
    BY <1>1, <2>1, <2>2 DEF SigningKey
  <2>3. CASE h.seen # "revoked"
    BY <1>1, <2>1, <2>3 DEF SigningKey, SigningKeyStatus
  <2> QED
    BY <2>2, <2>3
<1>3. SafeKey(row)
  BY <1>1, <1>2, SigningKeysAssumption DEF SafeKey
<1> HIDE DEF row
<1>4. /\ keys' \in [DOMAIN keys -> SigningKey]
      /\ keys'[k] = row
      /\ \A j \in DOMAIN keys : j # k => keys'[j] = keys[j]
  BY <1>1, <1>2, KeyFacts DEF RevokeKey, KeysInv, row
<1>5. Benign
  BY <1>1, <1>2, <1>4 DEF Benign
<1>6. \A j \in DOMAIN keys : SafeKey(keys'[j])
  BY <1>3, <1>4 DEF KeysInv
<1> QED
  BY <1>4, <1>5, <1>6, HandlerRecord, RowStep DEF RevokeKey, Finish

\* One tick: every age grows, a token's life shrinks.
LEMMA TickStep ==
    ASSUME KeysInv, Tick
    PROVE  KeysInv'
<1> DEFINE Row(k) == [keys[k] EXCEPT
                        !.rotated = IF keys[k].status = "rotating_out"
                                      THEN Older(@, Grace + 1) ELSE @,
                        !.revoked = IF keys[k].was_revoked
                                      THEN Older(@, Grace + Latency) ELSE @,
                        !.life = IF @ > 0 THEN @ - 1 ELSE 0]
           Aged(w) == [handler[w] EXCEPT !.age = @ + 1]
<1>1. ASSUME NEW k \in DOMAIN keys
      PROVE  /\ Row(k) \in SigningKey
             /\ Row(k).status = keys[k].status /\ Row(k).was_revoked = keys[k].was_revoked
             /\ Row(k).rotated = (IF keys[k].status = "rotating_out"
                                    THEN Older(keys[k].rotated, Grace + 1)
                                    ELSE keys[k].rotated)
             /\ Row(k).revoked = (IF keys[k].was_revoked
                                    THEN Older(keys[k].revoked, Grace + Latency)
                                    ELSE keys[k].revoked)
             /\ Row(k).life = (IF keys[k].life > 0 THEN keys[k].life - 1 ELSE 0)
  <2>1. /\ keys[k] \in SigningKey
        /\ keys[k].rotated \in 0..(Grace + Latency + 1) /\ keys[k].revoked \in 0..(Grace + Latency)
        /\ keys[k].life \in 0..TokenTTL
    BY RowTypes, SigningKeysAssumption DEF KeysInv, TypeOK, SigningKey
  <2>2. /\ Older(keys[k].rotated, Grace + 1) \in 0..(Grace + Latency + 1)
        /\ Older(keys[k].revoked, Grace + Latency) \in 0..(Grace + Latency)
        /\ (IF keys[k].life > 0 THEN keys[k].life - 1 ELSE 0) \in 0..TokenTTL
    BY <2>1, SigningKeysAssumption DEF Older
  <2> QED
    BY <2>1, <2>2 DEF SigningKey
<1> HIDE DEF Row
<1>2. /\ keys' \in [DOMAIN keys -> SigningKey]
      /\ \A k \in DOMAIN keys : keys'[k] = Row(k)
  BY <1>1 DEF Tick, Row
<1>3. ASSUME NEW k \in DOMAIN keys PROVE SafeKey(keys'[k])
  <2>1. /\ keys[k].rotated \in Nat /\ keys[k].revoked \in Nat /\ keys[k].life \in Nat
        /\ keys[k].revoked <= Grace + Latency /\ SafeKey(keys[k])
    BY RowTypes DEF KeysInv, TypeOK
  <2> QED
    BY <1>1, <1>2, <2>1, SigningKeysAssumption DEF SafeKey, Older
<1>4. ASSUME NEW w \in Workers, handler[w].pc # "idle"
      PROVE  /\ Aged(w) \in Handler /\ handler'[w] = Aged(w)
             /\ handler'[w].age = handler[w].age + 1
             /\ handler'[w].pc = handler[w].pc /\ handler'[w].key = handler[w].key
             /\ handler'[w].loaded = handler[w].loaded /\ handler'[w].seen = handler[w].seen
  <2>1. handler[w] \in Handler /\ handler[w].age \in Nat /\ handler[w].age < Latency
    BY <1>4, HandlerRecord DEF Tick, At
  <2>2. handler[w].age + 1 \in 0..Latency
    BY <2>1, SigningKeysAssumption
  <2> QED
    BY <1>4, <2>1, <2>2 DEF Tick, At, Handler
<1>5. ASSUME NEW w \in Workers, handler[w].pc = "idle" PROVE handler'[w] = handler[w]
  BY <1>5 DEF Tick, At
<1>6. handler' \in [Workers -> Handler]
  <2>1. ASSUME NEW w \in Workers PROVE handler'[w] \in Handler
    BY <1>4, <1>5, HandlerRecord
  <2> QED
    BY <2>1 DEF Tick
<1>7. TypeOK'
  BY <1>2, <1>6, MapIsSequence DEF KeysInv, TypeOK
<1>8. ASSUME NEW w \in Workers PROVE SafeHandler(handler[w])'
  <2>1. handler'[w] \in Handler
    BY <1>6
  <2>2. CASE handler[w].pc = "idle"
    BY <1>5, <2>1, <2>2 DEF SafeHandler
  <2>3. CASE handler[w].pc # "idle"
    <3>1. /\ SafeHandler(handler[w]) /\ handler[w].age \in Nat
          /\ DOMAIN keys' = DOMAIN keys
      BY <1>2, HandlerRecord
    <3>2. \A k \in DOMAIN keys : keys[k].rotated \in Nat /\ keys[k].revoked \in Nat
      BY RowTypes DEF KeysInv, TypeOK
    <3>3. handler[w].pc = "sign" /\ keys'[handler[w].key].status = "rotating_out"
             => keys'[handler[w].key].rotated <= handler[w].age + 1 + Latency
      BY <1>1, <1>2, <3>1, <3>2, SigningKeysAssumption DEF SafeHandler, Older
    <3>4. ASSUME handler[w].pc = "retire", NEW k \in handler[w].loaded
          PROVE  /\ k \in DOMAIN keys'
                 /\ keys'[k].was_revoked => keys'[k].revoked <= handler[w].age + 1 + Latency
      BY <1>1, <1>2, <3>1, <3>2, <3>4, SigningKeysAssumption DEF SafeHandler, Older
    <3>5. handler[w].pc = "revoke" /\ handler[w].seen = "revoked"
             => keys'[handler[w].key].status # "active"
      BY <1>1, <1>2, <3>1 DEF SafeHandler
    <3>6. handler[w].pc \in {"sign", "revoke"} => handler[w].key \in DOMAIN keys'
      BY <3>1 DEF SafeHandler
    <3> QED
      BY <1>4, <2>1, <2>3, <3>3, <3>4, <3>5, <3>6 DEF SafeHandler
  <2> QED
    BY <2>2, <2>3
<1>9. DOMAIN keys' = DOMAIN keys
  BY <1>2
<1> QED
  BY <1>3, <1>7, <1>8, <1>9 DEF KeysInv

LEMMA InvStep == KeysInv /\ [Next]_vars => KeysInv'
<1> SUFFICES ASSUME KeysInv, [Next]_vars PROVE KeysInv'
  OBVIOUS
<1>1. ASSUME NEW w \in Workers, Step(w) PROVE KeysInv'
  BY <1>1, CreateStep, BeginStep, SignStep, RetireStep, RevokeStep DEF Step
<1>2. CASE UNCHANGED vars
  BY <1>2 DEF vars, KeysInv, TypeOK, SafeHandler
<1> QED
  BY <1>1, <1>2, TickStep DEF Next

-------------------------------------------------------------------------------
(* Theorems.                                                               *)

\* The inductive invariant holds in every reachable state.
THEOREM Invariance == Spec => []KeysInv
<1> QED
  BY InitSafe, InvStep, PTL DEF Spec

\* Every variable keeps its type: in particular a handler never writes past the rows
\* that exist.
THEOREM TypeCorrectness == Spec => []TypeOK
<1>1. KeysInv => TypeOK
  BY DEF KeysInv
<1> QED
  BY <1>1, Invariance, PTL

\* Rotation strands no young token, for every lifetime, grace window and latency: as
\* long as nobody revokes its key, a token is accepted by decode_token and its key is in
\* the JWKS until it expires, or is as old as the grace window less two latencies.
THEOREM YoungTokens == Spec => []YoungTokensVerify
<1>1. KeysInv => YoungTokensVerify
  <2> SUFFICES ASSUME KeysInv, NEW k \in DOMAIN keys, keys[k].status # "revoked",
                      keys[k].life > 0, TokenAge(k) + 2 * Latency < Grace
               PROVE  Accepted(k) /\ Published(k)
    BY DEF YoungTokensVerify
  <2>1. /\ keys[k].status \in SigningKeyStatus /\ SafeKey(keys[k])
        /\ keys[k].rotated \in Nat /\ keys[k].life \in Nat
    BY RowTypes DEF KeysInv, TypeOK
  <2> QED
    BY <2>1, SigningKeysAssumption DEF SafeKey, SigningKeyStatus, Accepted, Published, TokenAge
<1> QED
  BY <1>1, Invariance, PTL

\* What crypto.py means, for the lifetimes that get it: when the longest lifetime of a
\* token and two latencies fit in the grace window, rotation strands no token at all.
THEOREM GraceCoversTokens ==
    ASSUME 2 * Latency + TokenTTL <= Grace
    PROVE  Spec => []UnexpiredTokensVerify
<1>1. KeysInv /\ YoungTokensVerify => UnexpiredTokensVerify
  <2> SUFFICES ASSUME KeysInv, YoungTokensVerify, NEW k \in DOMAIN keys,
                      keys[k].status # "revoked", keys[k].life > 0
               PROVE  Accepted(k) /\ Published(k)
    BY DEF UnexpiredTokensVerify
  <2>1. keys[k].life \in Nat
    BY RowTypes DEF KeysInv, TypeOK
  <2>2. TokenAge(k) + 2 * Latency < Grace
    BY <2>1, SigningKeysAssumption DEF TokenAge
  <2> QED
    BY <2>2 DEF YoungTokensVerify
<1> QED
  BY <1>1, Invariance, YoungTokens, PTL

\* A revoked key that a concurrent rotation brought back is refused for good one
\* grace window and one request after its revocation.
THEOREM RevocationSticks == Spec => []RevokedKeyDies
<1>1. KeysInv => RevokedKeyDies
  <2> SUFFICES ASSUME KeysInv, NEW k \in DOMAIN keys,
                      keys[k].was_revoked, keys[k].revoked = Grace + Latency
               PROVE  ~Accepted(k)
    BY DEF RevokedKeyDies
  <2>1. SafeKey(keys[k]) /\ keys[k].rotated \in Nat
    BY RowTypes DEF KeysInv, TypeOK
  <2> QED
    BY <2>1, SigningKeysAssumption DEF SafeKey, Accepted
<1> QED
  BY <1>1, Invariance, PTL

-------------------------------------------------------------------------------
(* How many keys can be active at once.                                    *)

\* The handlers that will still insert a key, and the active keys that a set X of
\* them would spare if its members retired what they loaded right now.
Creating == {w \in Workers : handler[w].pc \in {"create", "retire"}}
Spared(X) == {k \in Active : \A w \in X : k \notin handler[w].loaded}

\* The invariant on the number of keys: whichever of the pending creations happen
\* first, the keys they spare and the keys they add are no more than the workers.
Room ==
    \A X \in SUBSET Creating :
        Cardinality(Spared(X)) + Cardinality(X) <= Cardinality(Workers)

RoomInv ==
    /\ KeysInv
    /\ \A w \in Workers : handler[w].pc # "retire" => handler[w].loaded = {}
    /\ Room

LEMMA FiniteFacts ==
    ASSUME TypeOK
    PROVE  /\ IsFiniteSet(Active)
           /\ \A X \in SUBSET Creating : /\ IsFiniteSet(X) /\ Cardinality(X) \in Nat
                                         /\ Cardinality(X) <= Cardinality(Workers)
           /\ \A X : IsFiniteSet(Spared(X)) /\ Cardinality(Spared(X)) \in Nat
           /\ Cardinality(Workers) \in Nat
<1>1. IsFiniteSet(DOMAIN keys)
  BY KeyFacts, FS_Interval
<1>2. IsFiniteSet(Active)
  BY <1>1, FS_Subset DEF Active
<1>3. ASSUME NEW X PROVE IsFiniteSet(Spared(X)) /\ Cardinality(Spared(X)) \in Nat
  <2>1. Spared(X) \in SUBSET Active
    BY DEF Spared
  <2> QED
    BY <1>2, <2>1, FS_Subset, FS_CardinalityType
<1>4. ASSUME NEW X \in SUBSET Creating
      PROVE  /\ IsFiniteSet(X) /\ Cardinality(X) \in Nat
             /\ Cardinality(X) <= Cardinality(Workers)
  <2>1. X \in SUBSET Workers
    BY DEF Creating
  <2> QED
    BY <2>1, FS_Subset, FS_CardinalityType, SigningKeysAssumption
<1> QED
  BY <1>2, <1>3, <1>4, FS_CardinalityType, SigningKeysAssumption

\* A step after which no set of creators spares more than it did before.
LEMMA RoomShrinks ==
    ASSUME RoomInv, \A X \in SUBSET Creating' : X \subseteq Creating /\ Spared(X)' \subseteq Spared(X)
    PROVE  Room'
<1> SUFFICES ASSUME NEW X \in SUBSET Creating'
             PROVE  Cardinality(Spared(X)') + Cardinality(X) <= Cardinality(Workers)
  BY DEF Room
<1>1. X \in SUBSET Creating /\ Spared(X)' \in SUBSET Spared(X)
  OBVIOUS
<1>2. Cardinality(Spared(X)) + Cardinality(X) <= Cardinality(Workers)
  BY <1>1 DEF RoomInv, Room
<1>3. /\ Cardinality(Spared(X)') <= Cardinality(Spared(X))
      /\ Cardinality(Spared(X)') \in Nat
  BY <1>1, FiniteFacts, FS_Subset, FS_CardinalityType DEF RoomInv, KeysInv
<1>4. Cardinality(Spared(X)) \in Nat /\ Cardinality(X) \in Nat /\ Cardinality(Workers) \in Nat
  BY <1>1, FiniteFacts DEF RoomInv, KeysInv
<1> QED
  BY <1>2, <1>3, <1>4

\* A handler becomes a creator holding every active key: a set it belongs to spares
\* nothing.
LEMMA RoomEnter ==
    ASSUME RoomInv, NEW w \in Workers, UNCHANGED keys, OthersWait(w),
           Active \subseteq handler'[w].loaded
    PROVE  Room'
<1> SUFFICES ASSUME NEW X \in SUBSET Creating'
             PROVE  Cardinality(Spared(X)') + Cardinality(X) <= Cardinality(Workers)
  BY DEF Room
<1>1. Active' = Active
  BY DEF Active
<1>2. CASE w \in X
  <2>1. Spared(X)' = {}
    BY <1>1, <1>2 DEF Spared
  <2>2. X \in SUBSET Workers
    BY DEF Creating
  <2>3. /\ Cardinality(X) \in Nat /\ Cardinality(X) <= Cardinality(Workers)
        /\ Cardinality(Workers) \in Nat
    BY <2>2, FS_Subset, FS_CardinalityType, SigningKeysAssumption
  <2> QED
    BY <2>1, <2>3, FS_EmptySet
<1>3. CASE w \notin X
  <2>1. \A v \in X : v \in Workers /\ handler'[v] = handler[v]
    BY <1>3 DEF OthersWait, Creating
  <2>2. X \in SUBSET Creating
    BY <2>1 DEF Creating
  <2>3. Spared(X)' = Spared(X)
    BY <1>1, <2>1 DEF Spared
  <2> QED
    BY <2>2, <2>3 DEF RoomInv, Room
<1> QED
  BY <1>2, <1>3

\* The pending creation happens: one key more, one creator less.
LEMMA RoomCreate ==
    ASSUME RoomInv, NEW w \in Workers, CreateKey(w)
    PROVE  Room'
<1> SUFFICES ASSUME NEW X \in SUBSET Creating'
             PROVE  Cardinality(Spared(X)') + Cardinality(X) <= Cardinality(Workers)
  BY DEF Room
<1> DEFINE n == Len(keys) + 1
           Y == X \cup {w}
<1>1. /\ DOMAIN keys' = DOMAIN keys \cup {n}
      /\ \A k \in DOMAIN keys : keys'[k] = keys[k]
  BY NewKeyType, CreateAppends DEF CreateKey, NewKey, RoomInv, KeysInv
<1>2. /\ handler[w].pc = "create" /\ handler[w].loaded = {} /\ OthersWait(w)
      /\ handler'[w].pc \in {"sign", "idle"}
  <2>1. handler[w].pc = "create" /\ handler[w].loaded = {}
    BY DEF CreateKey, At, RoomInv
  <2>2. handler \in [Workers -> Handler] /\ handler[w] \in Handler
    BY DEF RoomInv, KeysInv, TypeOK
  <2>3. CASE handler' = [handler EXCEPT ![w].pc = "sign", ![w].key = Len(keys) + 1]
    BY <2>1, <2>2, <2>3 DEF OthersWait, Handler
  <2>4. CASE Finish(w)
    BY <2>1, <2>2, <2>4 DEF OthersWait, Finish, Idle
  <2> QED
    BY <2>1, <2>3, <2>4 DEF CreateKey
<1>3. w \notin X /\ \A v \in X : v \in Workers /\ v # w /\ handler'[v] = handler[v]
  BY <1>2 DEF Creating, OthersWait
<1>4. Y \in SUBSET Creating /\ X \in SUBSET Creating
  BY <1>2, <1>3 DEF Creating
<1>5. Spared(X)' \subseteq Spared(Y) \cup {n}
  <2>1. Active' \subseteq Active \cup {n}
    BY <1>1 DEF Active
  <2> QED
    BY <1>2, <1>3, <2>1 DEF Spared
<1>6. Cardinality(Spared(Y)) + Cardinality(Y) <= Cardinality(Workers)
  BY <1>4 DEF RoomInv, Room
<1>7. Cardinality(Y) = Cardinality(X) + 1 /\ Cardinality(X) \in Nat
  BY <1>3, <1>4, FiniteFacts, FS_AddElement DEF RoomInv, KeysInv
<1>8. /\ IsFiniteSet(Spared(Y)) /\ Cardinality(Spared(Y)) \in Nat
      /\ Cardinality(Workers) \in Nat
  BY FiniteFacts DEF RoomInv, KeysInv
<1>9. /\ IsFiniteSet(Spared(Y) \cup {n})
      /\ Cardinality(Spared(Y) \cup {n}) <= Cardinality(Spared(Y)) + 1
  <2>1. /\ IsFiniteSet(Spared(Y) \cup {n})
        /\ Cardinality(Spared(Y) \cup {n})
             = IF n \in Spared(Y) THEN Cardinality(Spared(Y)) ELSE Cardinality(Spared(Y)) + 1
    BY <1>8, FS_AddElement
  <2> QED
    BY <1>8, <2>1
<1>10. /\ Cardinality(Spared(X)') <= Cardinality(Spared(Y) \cup {n})
       /\ Cardinality(Spared(X)') \in Nat /\ Cardinality(Spared(Y) \cup {n}) \in Nat
  BY <1>5, <1>9, FS_Subset, FS_CardinalityType
<1> QED
  BY <1>6, <1>7, <1>8, <1>9, <1>10

\* A step that activates no key and makes no creator.
LEMMA RoomQuiet ==
    ASSUME RoomInv, Active' \subseteq Active,
           \A w \in Workers : handler'[w].pc \in {"create", "retire"}
               => /\ handler[w].pc \in {"create", "retire"}
                  /\ handler'[w].loaded = handler[w].loaded
    PROVE  Room'
<1>1. \A X \in SUBSET Creating' : X \subseteq Creating /\ Spared(X)' \subseteq Spared(X)
  BY DEF Creating, Spared
<1> QED
  BY <1>1, RoomShrinks

LEMMA RoomRetire ==
    ASSUME RoomInv, NEW w \in Workers, RetireKeys(w)
    PROVE  Room'
<1>1. \A k \in DOMAIN keys' : /\ k \in DOMAIN keys
                              /\ k \in handler[w].loaded => keys'[k].status = "rotating_out"
                              /\ k \notin handler[w].loaded => keys'[k] = keys[k]
  <2>1. \A k \in DOMAIN keys : keys[k] \in SigningKey
    BY KeyFacts DEF RoomInv, KeysInv
  <2> QED
    BY <2>1 DEF RetireKeys, SigningKey
<1>2. Active' = Active \ handler[w].loaded
  <2>1. DOMAIN keys' = DOMAIN keys
    BY DEF RetireKeys
  <2> QED
    BY <1>1, <2>1 DEF Active
<1>3. /\ handler[w].pc = "retire" /\ handler \in [Workers -> Handler]
      /\ handler'[w].pc = "create" /\ OthersWait(w)
  <2>1. handler \in [Workers -> Handler] /\ handler[w] \in Handler
    BY DEF RoomInv, KeysInv, TypeOK
  <2> QED
    BY <2>1 DEF RetireKeys, At, OthersWait, Handler
<1>4. \A X \in SUBSET Creating' : X \subseteq Creating /\ Spared(X)' \subseteq Spared(X)
  BY <1>2, <1>3 DEF Creating, Spared, OthersWait
<1> QED
  BY <1>4, RoomShrinks

LEMMA RoomStep == RoomInv /\ [Next]_vars => RoomInv'
<1> SUFFICES ASSUME RoomInv, [Next]_vars PROVE RoomInv'
  OBVIOUS
<1>1. KeysInv'
  BY InvStep DEF RoomInv
<1>2. /\ handler \in [Workers -> Handler] /\ \A w \in Workers : handler[w] \in Handler
      /\ \A w \in Workers : handler[w].pc # "retire" => handler[w].loaded = {}
      /\ \A k \in DOMAIN keys : keys[k] \in SigningKey
  BY KeyFacts DEF RoomInv, KeysInv, TypeOK
<1>3. \A w \in Workers : handler'[w].pc # "retire" => handler'[w].loaded = {}
  <2>1. ASSUME NEW w \in Workers, Step(w)
        PROVE  \A v \in Workers : handler'[v].pc # "retire" => handler'[v].loaded = {}
    <3>1. CASE MintBegin(w) \/ StartupBegin(w) \/ RotateBegin(w)
                \/ \E k \in KeyIds : RevokeBegin(w, k)
      BY <1>2, <3>1 DEF MintBegin, StartupBegin, RotateBegin, RevokeBegin, Start
    <3>2. CASE Sign(w) \/ RevokeKey(w) \/ Abandon(w)
      BY <1>2, <3>2 DEF Sign, RevokeKey, Abandon, Finish, Idle
    <3>3. CASE RetireKeys(w)
      BY <1>2, <3>3 DEF RetireKeys, Handler
    <3>4. CASE CreateKey(w)
      <4>1. CASE handler' = [handler EXCEPT ![w].pc = "sign", ![w].key = Len(keys) + 1]
        BY <1>2, <3>4, <4>1 DEF CreateKey, At, Handler
      <4>2. CASE Finish(w)
        BY <1>2, <4>2 DEF Finish, Idle
      <4> QED
        BY <3>4, <4>1, <4>2 DEF CreateKey
    <3> QED
      BY <2>1, <3>1, <3>2, <3>3, <3>4 DEF Step
  <2>2. CASE Tick
    BY <1>2, <2>2 DEF Tick, Handler
  <2> QED
    BY <1>2, <2>1, <2>2 DEF Next, vars
<1>4. Room'
  <2>1. ASSUME NEW w \in Workers, MintBegin(w) \/ StartupBegin(w) \/ RotateBegin(w)
        PROVE  Room'
    <3>1. CASE Active \subseteq handler'[w].loaded
      <4>1. UNCHANGED keys /\ OthersWait(w)
        BY <1>2, <2>1 DEF MintBegin, StartupBegin, RotateBegin, Start, OthersWait
      <4> QED
        BY <3>1, <4>1, RoomEnter
    <3>2. CASE ~(Active \subseteq handler'[w].loaded)
      <4>1. Active # {}
        BY <3>2
      <4>2. MintBegin(w)
        <5>1. ~StartupBegin(w)
          BY <4>1 DEF StartupBegin
        <5>2. RotateBegin(w) => handler'[w].loaded = Active
          BY <1>2 DEF RotateBegin, Start
        <5> QED
          BY <2>1, <3>2, <5>1, <5>2
      <4>3. \E k \in Active : Start(w, "mint", "sign", k, {}, "active")
        BY <4>1, <4>2 DEF MintBegin
      <4>4. /\ handler'[w].pc = "sign" /\ OthersWait(w)
        BY <1>2, <4>3 DEF Start, OthersWait
      <4>5. Active' = Active
        BY <4>2 DEF MintBegin, Active
      <4> QED
        BY <4>4, <4>5, RoomQuiet DEF OthersWait
    <3> QED
      BY <3>1, <3>2
  <2>2. ASSUME NEW w \in Workers, (\E k \in KeyIds : RevokeBegin(w, k)) \/ Abandon(w)
        PROVE  Room'
    <3>1. Active' = Active
      BY <2>2 DEF RevokeBegin, Abandon, Active
    <3>2. handler'[w].pc \in {"revoke", "idle"} /\ OthersWait(w)
      BY <1>2, <2>2 DEF RevokeBegin, Abandon, Start, Finish, Idle, OthersWait
    <3> QED
      BY <3>1, <3>2, RoomQuiet DEF OthersWait
  <2>3. ASSUME NEW w \in Workers, Sign(w) \/ RevokeKey(w)
        PROVE  Room'
    <3>1. Active' \subseteq Active
      <4> SUFFICES ASSUME NEW k \in DOMAIN keys, keys'[k].status = "active"
                   PROVE  keys[k].status = "active"
        BY <2>3 DEF Sign, RevokeKey, Active
      <4>1. keys[k] \in SigningKey
        BY <1>2
      <4> QED
        BY <2>3, <4>1 DEF Sign, RevokeKey, SigningKey
    <3>2. handler'[w].pc = "idle" /\ OthersWait(w)
      BY <1>2, <2>3 DEF Sign, RevokeKey, Finish, Idle, OthersWait
    <3> QED
      BY <3>1, <3>2, RoomQuiet DEF OthersWait
  <2>4. CASE Tick
    <3>1. Active' \subseteq Active
      BY <1>2, <2>4 DEF Tick, Active, SigningKey
    <3>2. \A w \in Workers : handler'[w].pc = handler[w].pc /\ handler'[w].loaded = handler[w].loaded
      BY <1>2, <2>4 DEF Tick, Handler
    <3> QED
      BY <3>1, <3>2, RoomQuiet
  <2>5. CASE UNCHANGED vars
    BY <2>5, RoomQuiet DEF vars, Active
  <2> QED
    BY <2>1, <2>2, <2>3, <2>4, <2>5, RoomCreate, RoomRetire DEF Next, Step, RoomInv
<1> QED
  BY <1>1, <1>3, <1>4 DEF RoomInv

LEMMA RoomInit == Init => RoomInv
<1> SUFFICES ASSUME Init PROVE RoomInv
  OBVIOUS
<1>1. KeysInv
  BY InitSafe
<1>2. Active = {} /\ Creating = {}
  BY DEF Init, Active, Creating, Idle
<1>3. Spared({}) = {}
  BY <1>2 DEF Spared
<1>4. Cardinality({}) = 0 /\ Cardinality(Workers) \in Nat
  BY FS_EmptySet, FS_CardinalityType, SigningKeysAssumption
<1>5. Room
  BY <1>2, <1>3, <1>4 DEF Room
<1> QED
  BY <1>1, <1>5 DEF RoomInv, Init, Idle

\* However rotations, first requests and starting replicas interleave, there are
\* never more active keys than handlers in flight.
THEOREM FewActiveKeys == Spec => []ActiveKeysBounded
<1>1. RoomInv => ActiveKeysBounded
  <2> SUFFICES ASSUME RoomInv PROVE ActiveKeysBounded
    OBVIOUS
  <2>1. Spared({}) = Active
    BY DEF Spared
  <2>2. Cardinality(Spared({})) + Cardinality({}) <= Cardinality(Workers)
    BY DEF RoomInv, Room
  <2>3. Cardinality({}) = 0 /\ Cardinality(Active) \in Nat
    BY <2>1, FS_EmptySet, FiniteFacts DEF RoomInv, KeysInv
  <2> QED
    BY <2>1, <2>2, <2>3 DEF ActiveKeysBounded
<1> QED
  BY <1>1, RoomInit, RoomStep, PTL DEF Spec

\* No handler makes a retired or revoked key active again.
THEOREM ActivationIsFinal == Spec => NoReactivation
<1>1. KeysInv /\ [Next]_vars
        => [\A k \in DOMAIN keys :
              keys[k].status # "active" => keys'[k].status # "active"]_vars
  <2> SUFFICES ASSUME KeysInv, Next, NEW k \in DOMAIN keys, keys[k].status # "active"
               PROVE  keys'[k].status # "active"
    OBVIOUS
  <2>1. keys[k] \in SigningKey
    BY KeyFacts DEF KeysInv
  <2>2. ASSUME NEW w \in Workers, CreateKey(w) PROVE keys'[k].status # "active"
    BY <2>2, NewKeyType, CreateAppends DEF CreateKey, NewKey, KeysInv
  <2>3. ASSUME NEW w \in Workers, Step(w), ~CreateKey(w) PROVE keys'[k].status # "active"
    <3>1. CASE RetireKeys(w)
      BY <2>1, <3>1 DEF RetireKeys, SigningKey
    <3>2. CASE RevokeKey(w)
      BY <2>1, <3>2 DEF RevokeKey, SigningKey
    <3>3. CASE Sign(w)
      BY <2>1, <3>3 DEF Sign, SigningKey
    <3>4. CASE UNCHANGED keys
      BY <3>4
    <3> QED
      BY <2>3, <3>1, <3>2, <3>3, <3>4
         DEF Step, MintBegin, StartupBegin, RotateBegin, RevokeBegin, Abandon
  <2>4. CASE Tick
    BY <2>1, <2>4 DEF Tick, SigningKey
  <2> QED
    BY <2>2, <2>3, <2>4 DEF Next
<1> QED
  BY <1>1, Invariance, PTL DEF Spec, NoReactivation

-------------------------------------------------------------------------------
(* Revocation, when no rotation is in its way.                             *)

\* No rotation holds a key that is revoked.
HoldsNoRevoked(h) == h.pc = "retire" => \A k \in h.loaded : keys[k].status # "revoked"

RevocationInv ==
    /\ KeysInv
    /\ \A w \in Workers : HoldsNoRevoked(handler[w])

\* What a step may do to the rows of revoked keys.
LEMMA RevokedRowStays ==
    ASSUME RevocationInv, [Next]_vars,
           NEW k \in DOMAIN keys, keys[k].status = "revoked"
    PROVE  keys'[k].status = "revoked"
<1>1. keys[k] \in SigningKey
  BY KeyFacts DEF RevocationInv, KeysInv
<1>2. ASSUME NEW w \in Workers, CreateKey(w) PROVE keys'[k].status = "revoked"
  BY <1>2, NewKeyType, CreateAppends DEF CreateKey, NewKey, RevocationInv, KeysInv
<1>3. ASSUME NEW w \in Workers, RetireKeys(w) PROVE keys'[k].status = "revoked"
  <2>1. k \notin handler[w].loaded
    BY <1>3 DEF RevocationInv, HoldsNoRevoked, RetireKeys, At
  <2> QED
    BY <1>3, <2>1 DEF RetireKeys
<1>4. ASSUME NEW w \in Workers, RevokeKey(w) \/ Sign(w) PROVE keys'[k].status = "revoked"
  BY <1>1, <1>4 DEF RevokeKey, Sign, SigningKey
<1>5. CASE Tick
  BY <1>1, <1>5 DEF Tick, SigningKey
<1>6. CASE UNCHANGED keys
  BY <1>6
<1> QED
  BY <1>2, <1>3, <1>4, <1>5, <1>6
     DEF Next, Step, vars, MintBegin, StartupBegin, RotateBegin, RevokeBegin, Abandon

\* A key can only become revoked by the COMMIT of revoke_key, and not a new one.
LEMMA RevokedBy ==
    ASSUME KeysInv, [Next]_vars,
           NEW k \in DOMAIN keys, keys[k].status # "revoked", keys'[k].status = "revoked"
    PROVE  \E v \in Workers : RevokeKey(v) /\ handler[v].key = k
<1>1. keys[k] \in SigningKey
  BY KeyFacts DEF KeysInv
<1>2. ASSUME NEW w \in Workers, CreateKey(w) PROVE FALSE
  BY <1>2, NewKeyType, CreateAppends DEF CreateKey, NewKey, KeysInv
<1>3. ASSUME NEW w \in Workers, RetireKeys(w) \/ Sign(w) PROVE FALSE
  <2>1. CASE RetireKeys(w)
    BY <1>1, <2>1 DEF RetireKeys, SigningKey
  <2>2. CASE Sign(w)
    <3>1. keys'[k] = keys[k] \/ keys'[k] = [keys[k] EXCEPT !.life = TokenTTL]
      BY <2>2 DEF Sign
    <3> QED
      BY <1>1, <3>1 DEF SigningKey
  <2> QED
    BY <1>3, <2>1, <2>2
<1>4. ASSUME NEW w \in Workers, RevokeKey(w), handler[w].key # k PROVE FALSE
  BY <1>1, <1>4 DEF RevokeKey, SigningKey
<1>5. CASE Tick
  BY <1>1, <1>5 DEF Tick, SigningKey
<1>6. CASE UNCHANGED keys
  BY <1>6
<1> QED
  BY <1>2, <1>3, <1>4, <1>5, <1>6
     DEF Next, Step, vars, MintBegin, StartupBegin, RotateBegin, RevokeBegin, Abandon

LEMMA RevocationStep ==
    RevocationInv /\ RevocationsApart /\ [Next]_vars => RevocationInv'
<1> SUFFICES ASSUME RevocationInv, RevocationsApart, [Next]_vars
             PROVE  RevocationInv'
  OBVIOUS
<1>1. KeysInv'
  BY InvStep DEF RevocationInv
<1>2. ASSUME NEW w \in Workers PROVE HoldsNoRevoked(handler[w])'
  <2> SUFFICES ASSUME handler'[w].pc = "retire", NEW k \in handler'[w].loaded,
                      keys'[k].status = "revoked"
               PROVE  FALSE
    BY DEF HoldsNoRevoked
  <2>1. \/ UNCHANGED keys /\ handler'[w].loaded = Active
        \/ handler[w].pc = "retire" /\ handler'[w].loaded = handler[w].loaded
    <3>1. handler \in [Workers -> Handler] /\ handler[w] \in Handler
      BY DEF RevocationInv, KeysInv, TypeOK
    <3>2. ASSUME NEW v \in Workers, v # w, Step(v)
          PROVE  handler'[w] = handler[w]
      BY <3>1, <3>2 DEF Step, MintBegin, StartupBegin, CreateKey, Sign, RotateBegin, RetireKeys,
         RevokeBegin, RevokeKey, Abandon, Start, Finish
    <3>3. CASE MintBegin(w) \/ StartupBegin(w) \/ \E j \in KeyIds : RevokeBegin(w, j)
      BY <3>1, <3>3 DEF MintBegin, StartupBegin, RevokeBegin, Start
    <3>4. CASE Sign(w) \/ RevokeKey(w) \/ Abandon(w) \/ CreateKey(w)
      <4>1. CASE Finish(w)
        BY <3>1, <4>1 DEF Finish, Idle
      <4>2. CASE handler' = [handler EXCEPT ![w].pc = "sign", ![w].key = Len(keys) + 1]
        BY <3>1, <4>2 DEF Handler
      <4> QED
        BY <3>4, <4>1, <4>2 DEF Sign, RevokeKey, Abandon, CreateKey
    <3>5. CASE RetireKeys(w)
      BY <3>1, <3>5 DEF RetireKeys, Handler
    <3>6. CASE RotateBegin(w)
      BY <3>1, <3>6 DEF RotateBegin, Start
    <3>7. CASE Tick
      BY <3>1, <3>7 DEF Tick, Handler
    <3>8. CASE UNCHANGED vars
      BY <3>8 DEF vars
    <3> QED
      BY <3>2, <3>3, <3>4, <3>5, <3>6, <3>7, <3>8 DEF Next, Step
  <2>2. CASE UNCHANGED keys /\ handler'[w].loaded = Active
    BY <2>2 DEF Active
  <2>3. CASE handler[w].pc = "retire" /\ handler'[w].loaded = handler[w].loaded
    <3>1. k \in DOMAIN keys /\ keys[k].status # "revoked"
      BY <2>3 DEF RevocationInv, KeysInv, SafeHandler, HoldsNoRevoked
    <3>2. PICK v \in Workers : RevokeKey(v) /\ handler[v].key = k
      BY <3>1, RevokedBy DEF RevocationInv
    <3> QED
      BY <2>3, <3>2 DEF RevocationsApart, RevokeKey, At
  <2> QED
    BY <2>1, <2>2, <2>3
<1> QED
  BY <1>1, <1>2 DEF RevocationInv

\* What the documentation says of a revoked kid is true as long as nobody revokes a key
\* that a rotation is retiring: the status is final, for any number of handlers.
THEOREM RevocationHolds == Spec /\ []RevocationsApart => RevokedStaysRevoked
<1>1. Init => RevocationInv
  BY InitSafe DEF Init, RevocationInv, HoldsNoRevoked, Idle
<1>2. RevocationInv /\ [Next]_vars
        => [\A k \in DOMAIN keys :
              keys[k].status = "revoked" => keys'[k].status = "revoked"]_vars
  BY RevokedRowStays
<1> QED
  BY <1>1, <1>2, RevocationStep, PTL DEF Spec, RevokedStaysRevoked

===============================================================================
