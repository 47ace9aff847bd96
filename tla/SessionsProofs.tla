---------------------------- MODULE SessionsProofs ----------------------------
(***************************************************************************)
(* Proofs about module Sessions, for any set of users and workers and any  *)
(* value of the settings and of the bounds.                                *)
(***************************************************************************)
EXTENDS Sessions, SequenceTheorems, FiniteSetTheorems, TLAPS

-------------------------------------------------------------------------------
(* The inductive invariant: TypeOK alone is not inductive, because a commit *)
(* writes the rows a handler loaded some steps before.                      *)

SafeHandler(h) ==
    /\ h \in Handler
    /\ HandlerConsistent(h)
    /\ SweepCovers(h)
    /\ BlacklistedBeforeSweep(h)

SessionsInv ==
    /\ TypeOK
    /\ \A w \in Workers : SafeHandler(handler[w])
    /\ ParentRetired

-------------------------------------------------------------------------------
(* What the tables and the handlers hold.                                  *)

LEMMA TokenFacts ==
    ASSUME TypeOK
    PROVE  /\ DOMAIN tokens = 1..Len(tokens)
           /\ Len(tokens) \in 0..MaxTokens
           /\ DOMAIN tokens \subseteq TokenIds
           /\ \A t \in DOMAIN tokens : /\ tokens[t].user \in Users
                                       /\ tokens[t].parent \in 0..MaxTokens
                                       /\ t \in 0..MaxTokens
<1>1. \A t \in DOMAIN tokens : tokens[t] \in Token
  BY DEF TypeOK
<1>2. /\ DOMAIN tokens = 1..Len(tokens)
      /\ Len(tokens) \in 0..MaxTokens
  BY SessionsAssumption DEF TypeOK
<1> QED
  BY <1>1, <1>2, SessionsAssumption DEF Token, TokenIds

LEMMA IdleIsSafe == TypeOK => SafeHandler(Idle)
<1>1. Idle \in Handler
  BY SessionsAssumption DEF Idle, Handler, Points
<1> QED
  BY <1>1, TokenFacts DEF SafeHandler, HandlerConsistent, SweepCovers,
                          BlacklistedBeforeSweep, Idle

\* No step takes a row away, changes its owner or clears revoked.
Grows ==
    /\ revoked \subseteq revoked'
    /\ blacklist \subseteq blacklist'
    /\ Len(tokens) <= Len(tokens')
    /\ DOMAIN tokens \subseteq DOMAIN tokens'
    /\ \A t \in DOMAIN tokens : tokens'[t] = tokens[t]

LEMMA AppendGrows ==
    ASSUME TypeOK, NEW x, tokens' = Append(tokens, x)
    PROVE  /\ Len(tokens') = Len(tokens) + 1
           /\ DOMAIN tokens' = DOMAIN tokens \cup {Len(tokens) + 1}
           /\ Len(tokens) + 1 \notin DOMAIN tokens
           /\ \A t \in DOMAIN tokens : tokens'[t] = tokens[t]
           /\ tokens'[Len(tokens) + 1] = x
<1> DEFINE n == Len(tokens)
<1>1. tokens \in Seq(Token) /\ n \in Nat /\ DOMAIN tokens = 1..n
  BY TokenFacts DEF TypeOK
<1>2. /\ DOMAIN tokens' = 1..(n + 1)
      /\ Len(tokens') = n + 1
      /\ \A i \in 1..n : tokens'[i] = tokens[i]
      /\ tokens'[n + 1] = x
  BY <1>1
<1> QED
  BY <1>1, <1>2

\* The row a handler commits, and the record of a handler that stamped it.
LEMMA RowFacts ==
    ASSUME NEW h
    PROVE  /\ Row(h).user = h.user /\ Row(h).parent = h.token
           /\ Row(h).password = (h.op \in ByPassword) /\ Row(h).created = h.created
BY DEF Row

LEMMA StampMoves ==
    ASSUME TypeOK, NEW w \in Workers, StampToken(w)
    PROVE  \E k \in Handler :
              /\ handler' = [handler EXCEPT ![w] = k]
              /\ k.pc = "commit" /\ k.created = now
              /\ k.op = handler[w].op /\ k.user = handler[w].user /\ k.token = handler[w].token
              /\ k.loaded = handler[w].loaded /\ k.since = handler[w].since
<1>1. PICK k : k = [handler[w] EXCEPT !.pc = "commit", !.created = now]
  OBVIOUS
<1>2. handler \in [Workers -> Handler] /\ now \in 0..MaxNow
  BY DEF TypeOK
<1>3. handler' = [handler EXCEPT ![w] = k]
  BY <1>1, <1>2 DEF StampToken
<1>4. k \in Handler
  BY <1>1, <1>2 DEF Handler, Points
<1> QED
  BY <1>1, <1>2, <1>3, <1>4 DEF Handler

LEMMA NextGrows ==
    ASSUME TypeOK, [Next]_vars
    PROVE  Grows
<1>1. ASSUME NEW w \in Workers, Issue(w) PROVE Grows
  BY <1>1, AppendGrows, TokenFacts DEF Issue, Grows
<1>2. CASE UNCHANGED tokens /\ revoked \subseteq revoked' /\ blacklist \subseteq blacklist'
  BY <1>2, TokenFacts DEF Grows
<1>3. ASSUME NEW w \in Workers, Begin(w) PROVE UNCHANGED <<tokens, revoked, blacklist>>
  BY <1>3 DEF Begin, RegisterBegin, LoginBegin, SsoBegin, DeprovisionBegin,
              PatchBegin, RefreshBegin, LogoutBegin, RevokeTokenBegin
<1>4. ASSUME NEW w \in Workers, Step(w), ~Issue(w)
      PROVE  UNCHANGED tokens /\ revoked \subseteq revoked' /\ blacklist \subseteq blacklist'
  BY <1>4 DEF Step, InsertUser, CountSessions, EvictSessions, StampToken, RotateToken, ReloadUser,
              BlacklistToken, SweepRead, SweepCommit, SetActive, Revoke
<1>5. ASSUME NEW w \in Workers, Abandon(w) PROVE UNCHANGED <<tokens, revoked, blacklist>>
  BY <1>5 DEF Abandon
<1>6. CASE Tick
  BY <1>2, <1>6 DEF Tick
<1>7. CASE UNCHANGED vars
  BY <1>2, <1>7 DEF vars
<1> QED
  BY <1>1, <1>2, <1>3, <1>4, <1>5, <1>6, <1>7 DEF Next

\* The part of TypeOK that is about the tables.
TablesOK ==
    /\ account \in [Users -> {"absent", "active", "inactive"}]
    /\ tokens \in Seq(Token)
    /\ Len(tokens) <= MaxTokens
    /\ revoked \subseteq DOMAIN tokens
    /\ blacklist \subseteq DOMAIN tokens
    /\ now \in 0..MaxNow

LEMMA TablesStep ==
    ASSUME SessionsInv, [Next]_vars
    PROVE  TablesOK'
<1> USE DEF SessionsInv, TablesOK, TypeOK
<1>1. ASSUME NEW w \in Workers, Begin(w) PROVE TablesOK'
  BY <1>1 DEF Begin, RegisterBegin, LoginBegin, SsoBegin, DeprovisionBegin,
              PatchBegin, RefreshBegin, LogoutBegin, RevokeTokenBegin
<1>2. ASSUME NEW w \in Workers, Issue(w) PROVE TablesOK'
  <2> DEFINE x == Row(handler[w])
  <2>1. x \in Token
    BY RowFacts DEF SafeHandler, Handler, Token, Row, ByPassword
  <2>2. tokens' = Append(tokens, x) /\ Len(tokens) < MaxTokens
    BY <1>2 DEF Issue
  <2>3. tokens' \in Seq(Token)
    BY <2>1, <2>2
  <2>4. Len(tokens') <= MaxTokens /\ DOMAIN tokens \subseteq DOMAIN tokens'
    BY <2>2, AppendGrows, TokenFacts, SessionsAssumption
  <2> QED
    BY <1>2, <2>3, <2>4 DEF Issue
<1>3. ASSUME NEW w \in Workers, Step(w), ~Issue(w) PROVE TablesOK'
  <2>1. handler[w].loaded \subseteq DOMAIN tokens
    BY DEF SafeHandler, HandlerConsistent
  <2>2. handler[w].token # 0 => handler[w].token \in DOMAIN tokens
    BY DEF SafeHandler, HandlerConsistent
  <2>3. handler[w].pc \in {"rotate", "blacklist"} => handler[w].token # 0
    BY DEF SafeHandler, HandlerConsistent
  <2>4. CASE InsertUser(w)
    BY <2>4 DEF InsertUser
  <2>5. CASE CountSessions(w)
    BY <2>5 DEF CountSessions
  <2>6. CASE EvictSessions(w)
    BY <2>6, <2>1 DEF EvictSessions, Revoke
  <2>7. CASE RotateToken(w)
    BY <2>7, <2>2, <2>3 DEF RotateToken, Revoke, At
  <2>8. CASE ReloadUser(w)
    BY <2>8 DEF ReloadUser
  <2>9. CASE BlacklistToken(w)
    BY <2>9, <2>2, <2>3 DEF BlacklistToken, At
  <2>10. CASE SweepRead(w)
    BY <2>10 DEF SweepRead
  <2>11. CASE SweepCommit(w)
    BY <2>11, <2>1 DEF SweepCommit, Revoke
  <2>12. CASE SetActive(w)
    BY <2>12 DEF SetActive, Target
  <2>13. CASE StampToken(w)
    BY <2>13 DEF StampToken
  <2> QED
    BY <1>3, <2>4, <2>5, <2>6, <2>7, <2>8, <2>9, <2>10, <2>11, <2>12, <2>13 DEF Step
<1>4. ASSUME NEW w \in Workers, Abandon(w) PROVE TablesOK'
  BY <1>4 DEF Abandon
<1>5. CASE Tick
  BY <1>5, SessionsAssumption DEF Tick
<1>6. CASE UNCHANGED vars
  BY <1>6 DEF vars
<1> QED
  BY <1>1, <1>2, <1>3, <1>4, <1>5, <1>6 DEF Next

LEMMA NextTables ==
    ASSUME SessionsInv, [Next]_vars
    PROVE  /\ DOMAIN tokens' = 1..Len(tokens')
           /\ Len(tokens') \in 0..MaxTokens
           /\ DOMAIN tokens' \subseteq TokenIds
           /\ \A t \in DOMAIN tokens' : t \notin DOMAIN tokens => t > Len(tokens)
<1>1. tokens' \in Seq(Token) /\ Len(tokens') <= MaxTokens
  BY TablesStep DEF TablesOK
<1>2. /\ DOMAIN tokens' = 1..Len(tokens')
      /\ Len(tokens') \in 0..MaxTokens
  BY <1>1, SessionsAssumption
<1> QED
  BY <1>2, TokenFacts, SessionsAssumption DEF SessionsInv, TokenIds

\* A handler that is left alone stays safe.
LEMMA SafeIsStable ==
    ASSUME SessionsInv, [Next]_vars, NEW h, SafeHandler(h)
    PROVE  SafeHandler(h)'
<1>1. Grows
  BY NextGrows DEF SessionsInv
<1>2. HandlerConsistent(h)'
  <2>1. h.since <= Len(tokens')
    BY <1>1, NextTables, TokenFacts, SessionsAssumption
       DEF SafeHandler, HandlerConsistent, Handler, Grows, SessionsInv
  <2> QED
    BY <1>1, <2>1 DEF SafeHandler, HandlerConsistent, Grows
<1>3. SweepCovers(h)'
  <2> SUFFICES ASSUME h.pc = "sweep_commit", NEW t \in DOMAIN tokens',
                      tokens'[t].user = h.user, t \notin revoked', t <= h.since
               PROVE  t \in h.loaded
    BY DEF SweepCovers, Unrevoked
  <2>1. h.since \in Nat /\ h.since <= Len(tokens) /\ Len(tokens) \in Nat /\ t \in Nat
    BY NextTables, TokenFacts, SessionsAssumption
       DEF SafeHandler, HandlerConsistent, Handler, SessionsInv
  <2>2. t \in DOMAIN tokens
    BY <2>1, NextTables
  <2> QED
    BY <1>1, <2>2 DEF SafeHandler, SweepCovers, Unrevoked, Grows
<1> QED
  BY <1>1, <1>2, <1>3 DEF SafeHandler, BlacklistedBeforeSweep, Grows

-------------------------------------------------------------------------------
(* Every step leaves every handler safe.                                   *)

LEMMA OneHandler ==
    ASSUME SessionsInv, [Next]_vars, NEW w \in Workers, NEW h,
           handler' = [handler EXCEPT ![w] = h], SafeHandler(h)'
    PROVE  /\ handler' \in [Workers -> Handler]
           /\ \A v \in Workers : SafeHandler(handler[v])'
<1>1. ASSUME NEW v \in Workers PROVE SafeHandler(handler[v])'
  <2>1. CASE v = w
    <3>1. handler'[v] = h
      BY <2>1 DEF SessionsInv, TypeOK
    <3> QED
      BY <3>1 DEF SafeHandler, HandlerConsistent, SweepCovers, BlacklistedBeforeSweep, Unrevoked
  <2>2. CASE v # w
    <3> DEFINE g == handler[v]
    <3>1. handler'[v] = g
      BY <2>2 DEF SessionsInv, TypeOK
    <3>2. SafeHandler(g)
      BY DEF SessionsInv
    <3>3. PICK k : k = g
      OBVIOUS
    <3>4. SafeHandler(k)'
      BY <3>2, <3>3, SafeIsStable
    <3> QED
      BY <3>1, <3>3, <3>4
         DEF SafeHandler, HandlerConsistent, SweepCovers, BlacklistedBeforeSweep, Unrevoked
  <2> QED
    BY <2>1, <2>2
<1>2. handler' \in [Workers -> Handler]
  BY DEF SafeHandler, SessionsInv, TypeOK
<1> QED
  BY <1>1, <1>2

LEMMA FinishIsSafe ==
    ASSUME SessionsInv, [Next]_vars, NEW w \in Workers, Finish(w)
    PROVE  /\ handler' \in [Workers -> Handler]
           /\ \A v \in Workers : SafeHandler(handler[v])'
<1>1. SafeHandler(Idle)
  BY IdleIsSafe DEF SessionsInv
<1>2. PICK k : k = Idle
  OBVIOUS
<1>3. SafeHandler(k)'
  BY <1>1, <1>2, SafeIsStable
<1> QED
  BY <1>2, <1>3, OneHandler DEF Finish

LEMMA StartIsSafe ==
    ASSUME SessionsInv, [Next]_vars, NEW w \in Workers, NEW op \in Operations,
           NEW point \in {"insert", "count", "issue", "rotate", "blacklist", "set_active", "sweep"},
           NEW u \in Users, NEW t \in 0..MaxTokens, Start(w, op, point, u, t),
           t = 0 \/ (t \in DOMAIN tokens /\ tokens[t].user = u /\ point \in {"rotate", "blacklist"}),
           point \in {"rotate", "blacklist"} => t # 0,
           ~(op = "logout" /\ point = "sweep")
    PROVE  /\ handler' \in [Workers -> Handler]
           /\ \A v \in Workers : SafeHandler(handler[v])'
<1> DEFINE h == [op |-> op, pc |-> point, user |-> u, token |-> t, loaded |-> {},
                 created |-> 0, since |-> IF op \in Sweeping THEN Len(tokens) ELSE 0]
<1>1. h \in Handler
  BY TokenFacts, SessionsAssumption DEF SessionsInv, Handler, Points
<1>2. SafeHandler(h)
  BY <1>1, TokenFacts, SessionsAssumption
     DEF SessionsInv, SafeHandler, HandlerConsistent, SweepCovers, BlacklistedBeforeSweep
<1>3. PICK k : k = h
  OBVIOUS
<1>4. SafeHandler(k)'
  BY <1>2, <1>3, SafeIsStable
<1> QED
  BY <1>3, <1>4, OneHandler DEF Start

LEMMA BeginIsSafe ==
    ASSUME SessionsInv, [Next]_vars, NEW w \in Workers, Begin(w)
    PROVE  /\ handler' \in [Workers -> Handler]
           /\ \A v \in Workers : SafeHandler(handler[v])'
<1> DEFINE Goal == /\ handler' \in [Workers -> Handler]
                   /\ \A v \in Workers : SafeHandler(handler[v])'
<1>a. 0 \in 0..MaxTokens
  BY SessionsAssumption
<1>b. \A t \in DOMAIN tokens : tokens[t].user \in Users /\ t \in 0..MaxTokens /\ t # 0
  BY TokenFacts DEF SessionsInv
<1>1. ASSUME NEW u \in Users, RegisterBegin(w, u) PROVE Goal
  BY <1>1, <1>a, StartIsSafe DEF RegisterBegin, Operations
<1>2. ASSUME NEW u \in Users, LoginBegin(w, u) PROVE Goal
  BY <1>2, <1>a, StartIsSafe DEF LoginBegin, Operations
<1>3. ASSUME NEW u \in Users, SsoBegin(w, u) PROVE Goal
  BY <1>3, <1>a, StartIsSafe DEF SsoBegin, Operations
<1>4. ASSUME NEW u \in Users, DeprovisionBegin(w, u) PROVE Goal
  BY <1>4, <1>a, StartIsSafe DEF DeprovisionBegin, Operations
<1>5. ASSUME NEW u \in Users, NEW op \in {"activate", "deactivate"}, PatchBegin(w, u, op)
      PROVE  Goal
  BY <1>5, <1>a, StartIsSafe DEF PatchBegin, Operations
<1>6. ASSUME NEW t \in TokenIds, RefreshBegin(w, t) PROVE Goal
  BY <1>6, <1>b, StartIsSafe DEF RefreshBegin, Operations
<1>7. ASSUME NEW a \in TokenIds, LogoutBegin(w, a) PROVE Goal
  BY <1>7, <1>b, StartIsSafe DEF LogoutBegin, Authenticates, Operations
<1>8. ASSUME NEW caller \in TokenIds, NEW a \in TokenIds, RevokeTokenBegin(w, caller, a)
      PROVE  Goal
  BY <1>8, <1>b, StartIsSafe DEF RevokeTokenBegin, Operations
<1> QED
  BY <1>1, <1>2, <1>3, <1>4, <1>5, <1>6, <1>7, <1>8 DEF Begin

\* Goto and its variants: the record written is safe in the next state.
LEMMA StepIsSafe ==
    ASSUME SessionsInv, [Next]_vars, NEW w \in Workers, Step(w)
    PROVE  /\ handler' \in [Workers -> Handler]
           /\ \A v \in Workers : SafeHandler(handler[v])'
<1> DEFINE Goal == /\ handler' \in [Workers -> Handler]
                   /\ \A v \in Workers : SafeHandler(handler[v])'
           g == handler[w]
<1>a. SafeHandler(g) /\ g \in Handler /\ handler \in [Workers -> Handler]
  BY DEF SessionsInv, SafeHandler, TypeOK
<1>b. ASSUME NEW h, h \in Handler, SafeHandler(h)', handler' = [handler EXCEPT ![w] = h]
      PROVE  Goal
  BY <1>b, OneHandler
<1>c. \* Moving on, with the same locals, to a point where nothing more is asked.
      ASSUME NEW point \in Points, Goto(w, point),
             [g EXCEPT !.pc = point] \in Handler => SafeHandler([g EXCEPT !.pc = point])
      PROVE  Goal
  <2>1. [g EXCEPT !.pc = point] \in Handler
    BY <1>a DEF Handler
  <2>2. handler' = [handler EXCEPT ![w] = [g EXCEPT !.pc = point]]
    BY <1>a, <1>c DEF Goto
  <2>3. PICK k : k = [g EXCEPT !.pc = point]
    OBVIOUS
  <2>4. SafeHandler(k)'
    BY <1>c, <2>1, <2>3, SafeIsStable
  <2> QED
    BY <1>b, <2>1, <2>2, <2>3, <2>4
<1>d. \* Only a handler that presented no token counts sessions.
      ASSUME NEW point \in {"count", "issue"}, Goto(w, point), g.token = 0
      PROVE  Goal
  <2>1. ASSUME [g EXCEPT !.pc = point] \in Handler PROVE SafeHandler([g EXCEPT !.pc = point])
    BY <1>a, <1>d, <2>1
       DEF Handler, SafeHandler, HandlerConsistent, SweepCovers, BlacklistedBeforeSweep
  <2> QED
    BY <1>c, <1>d, <2>1 DEF Points
<1>1. CASE InsertUser(w)
  <2>1. g.token = 0
    BY <1>1, <1>a DEF InsertUser, At, SafeHandler, HandlerConsistent
  <2>2. CASE Finish(w)
    BY <2>2, FinishIsSafe
  <2>3. CASE Goto(w, "count")
    BY <2>1, <2>3, <1>d
  <2>4. CASE Goto(w, "issue")
    BY <2>1, <2>4, <1>d
  <2> QED
    BY <1>1, <2>2, <2>3, <2>4 DEF InsertUser
<1>2. CASE CountSessions(w)
  <2> DEFINE Counted(point, S) ==
               [g EXCEPT !.pc = point, !.loaded = S, !.since = Len(tokens)]
  <2>1. ASSUME NEW point \in {"issue", "evict"}, NEW S \in SUBSET DOMAIN tokens,
               \A t \in S : tokens[t].user = g.user,
               handler' = [handler EXCEPT ![w] = Counted(point, S)]
        PROVE  Goal
    <3>1. S \subseteq TokenIds /\ Len(tokens) \in 0..MaxTokens
      BY <2>1, TokenFacts DEF SessionsInv
    <3>2. Counted(point, S) \in Handler
      BY <1>a, <2>1, <3>1 DEF Handler, Points
    <3>3. PICK k : k = Counted(point, S)
      OBVIOUS
    <3>4. g.token = 0
      BY <1>2, <1>a DEF CountSessions, At, SafeHandler, HandlerConsistent
    <3>5. /\ k.pc = point /\ k.loaded = S /\ k.since = Len(tokens)
          /\ k.token = 0 /\ k.user = g.user /\ k \in Handler
      BY <1>a, <3>2, <3>3, <3>4 DEF Handler
    <3>6. SafeHandler(k)
      BY <2>1, <3>1, <3>5
         DEF SafeHandler, HandlerConsistent, SweepCovers, BlacklistedBeforeSweep
    <3>7. SafeHandler(k)'
      BY <3>6, SafeIsStable
    <3> QED
      BY <1>b, <2>1, <3>3, <3>5, <3>7
  <2>2. CASE handler' = [handler EXCEPT ![w].pc = "issue", ![w].since = Len(tokens)]
    <3>1. handler' = [handler EXCEPT ![w] = Counted("issue", g.loaded)]
      BY <1>a, <2>2 DEF Handler
    <3>2. g.loaded \in SUBSET DOMAIN tokens /\ \A t \in g.loaded : tokens[t].user = g.user
      BY <1>a DEF SafeHandler, HandlerConsistent
    <3> QED
      BY <2>1, <3>1, <3>2
  <2>3. ASSUME NEW surplus \in SUBSET Unrevoked(g.user),
               handler' = [handler EXCEPT ![w].pc = "evict", ![w].loaded = surplus,
                                          ![w].since = Len(tokens)]
        PROVE  Goal
    <3>1. handler' = [handler EXCEPT ![w] = Counted("evict", surplus)]
      BY <1>a, <2>3 DEF Handler
    <3>2. surplus \in SUBSET DOMAIN tokens /\ \A t \in surplus : tokens[t].user = g.user
      BY <2>3 DEF Unrevoked
    <3> QED
      BY <2>1, <3>1, <3>2
  <2> QED
    BY <1>2, <2>2, <2>3 DEF CountSessions
<1>3. CASE EvictSessions(w)
  <2> DEFINE h == [g EXCEPT !.pc = "issue", !.loaded = {}]
  <2>1. h \in Handler
    BY <1>a DEF Handler, Points
  <2>2. SafeHandler(h)
    BY <1>3, <1>a, <2>1
       DEF EvictSessions, At, Handler, SafeHandler, HandlerConsistent, SweepCovers,
           BlacklistedBeforeSweep
  <2>3. PICK k : k = h
    OBVIOUS
  <2>4. SafeHandler(k)'
    BY <2>2, <2>3, SafeIsStable
  <2>5. handler' = [handler EXCEPT ![w] = h]
    BY <1>3, <1>a DEF EvictSessions
  <2> QED
    BY <1>b, <2>1, <2>3, <2>4, <2>5
<1>4. CASE Issue(w)
  BY <1>4, FinishIsSafe DEF Issue
<1>5. CASE RotateToken(w)
  <2> DEFINE h == [g EXCEPT !.pc = "reload"]
  <2>1. h \in Handler
    BY <1>a DEF Handler, Points
  <2>2. handler' = [handler EXCEPT ![w] = h]
    BY <1>5, <1>a DEF RotateToken, Goto
  <2>3. PICK k : k = g
    OBVIOUS
  <2>4. SafeHandler(k)'
    BY <1>a, <2>3, SafeIsStable
  <2>5. PICK l : l = h
    OBVIOUS
  <2>6. g.token \in revoked' /\ g.pc = "rotate" /\ g.token # 0
    BY <1>5, <1>a DEF RotateToken, Revoke, At, SafeHandler, HandlerConsistent
  <2>7. SafeHandler(l)'
    BY <1>a, <2>1, <2>3, <2>4, <2>5, <2>6
       DEF Handler, SafeHandler, HandlerConsistent, SweepCovers, BlacklistedBeforeSweep, Unrevoked
  <2> QED
    BY <1>b, <2>1, <2>2, <2>5, <2>7
<1>6. CASE ReloadUser(w)
  <2>1. g.pc = "reload"
    BY <1>6 DEF ReloadUser, At
  <2>2. ASSUME [g EXCEPT !.pc = "issue"] \in Handler PROVE SafeHandler([g EXCEPT !.pc = "issue"])
    BY <1>a, <2>1, <2>2
       DEF Handler, SafeHandler, HandlerConsistent, SweepCovers, BlacklistedBeforeSweep
  <2>3. CASE Goto(w, "issue")
    BY <1>c, <2>2, <2>3 DEF Points
  <2>4. CASE Finish(w)
    BY <2>4, FinishIsSafe
  <2> QED
    BY <1>6, <2>3, <2>4 DEF ReloadUser
<1>7. CASE BlacklistToken(w)
  <2>1. CASE Finish(w)
    BY <2>1, FinishIsSafe
  <2>2. CASE Goto(w, "sweep")
    <3> DEFINE h == [g EXCEPT !.pc = "sweep"]
    <3>1. h \in Handler
      BY <1>a DEF Handler, Points
    <3>2. handler' = [handler EXCEPT ![w] = h]
      BY <2>2, <1>a DEF Goto
    <3>3. PICK k : k = g
      OBVIOUS
    <3>4. SafeHandler(k)'
      BY <1>a, <3>3, SafeIsStable
    <3>5. PICK l : l = h
      OBVIOUS
    <3>6. g.token \in blacklist'
      BY <1>7 DEF BlacklistToken
    <3>7. SafeHandler(l)'
      BY <1>a, <3>1, <3>3, <3>4, <3>5, <3>6
         DEF Handler, SafeHandler, HandlerConsistent, SweepCovers, BlacklistedBeforeSweep, Unrevoked
    <3> QED
      BY <1>b, <3>1, <3>2, <3>5, <3>7
  <2> QED
    BY <1>7, <2>1, <2>2 DEF BlacklistToken
<1>8. CASE SweepRead(w)
  <2> DEFINE S == Unrevoked(g.user)
             h == [g EXCEPT !.pc = "sweep_commit", !.loaded = S]
  <2>1. S \subseteq TokenIds /\ S \subseteq {t \in DOMAIN tokens : tokens[t].user = g.user}
    BY TokenFacts DEF Unrevoked, SessionsInv
  <2>2. h \in Handler
    BY <1>a, <2>1 DEF Handler, Points
  <2>3. SafeHandler(h)
    BY <1>8, <1>a, <2>1, <2>2
       DEF SweepRead, At, Handler, SafeHandler, HandlerConsistent, SweepCovers,
           BlacklistedBeforeSweep
  <2>4. PICK k : k = h
    OBVIOUS
  <2>5. SafeHandler(k)'
    BY <2>3, <2>4, SafeIsStable
  <2>6. handler' = [handler EXCEPT ![w] = h]
    BY <1>8, <1>a DEF SweepRead
  <2> QED
    BY <1>b, <2>2, <2>4, <2>5, <2>6
<1>9. CASE SweepCommit(w)
  BY <1>9, FinishIsSafe DEF SweepCommit
<1>10. CASE SetActive(w)
  <2>1. CASE Finish(w)
    BY <2>1, FinishIsSafe
  <2>2. CASE Goto(w, "sweep") /\ g.op = "deprovision"
    <3>1. ASSUME [g EXCEPT !.pc = "sweep"] \in Handler PROVE SafeHandler([g EXCEPT !.pc = "sweep"])
      BY <1>a, <2>2, <3>1
         DEF Handler, SafeHandler, HandlerConsistent, SweepCovers, BlacklistedBeforeSweep
    <3> QED
      BY <1>c, <2>2, <3>1 DEF Points
  <2> QED
    BY <1>10, <2>1, <2>2 DEF SetActive
<1>11. CASE StampToken(w)
  <2>1. PICK k \in Handler :
           /\ handler' = [handler EXCEPT ![w] = k]
           /\ k.pc = "commit"
           /\ k.op = g.op /\ k.user = g.user /\ k.token = g.token
           /\ k.loaded = g.loaded /\ k.since = g.since
    BY <1>11, StampMoves DEF SessionsInv
  <2>2. SafeHandler(k)
    BY <1>11, <1>a, <2>1
       DEF StampToken, At, SafeHandler, HandlerConsistent, SweepCovers, BlacklistedBeforeSweep
  <2>3. SafeHandler(k)'
    BY <2>2, SafeIsStable
  <2> QED
    BY <1>b, <2>1, <2>3
<1> QED
  BY <1>1, <1>2, <1>3, <1>4, <1>5, <1>6, <1>7, <1>8, <1>9, <1>10, <1>11 DEF Step

-------------------------------------------------------------------------------
(* The invariant.                                                          *)

LEMMA ParentStep ==
    ASSUME SessionsInv, [Next]_vars
    PROVE  ParentRetired'
<1>1. Grows
  BY NextGrows DEF SessionsInv
<1>2. ASSUME NEW w \in Workers, Issue(w) PROVE ParentRetired'
  <2> DEFINE g == handler[w]
             n == Len(tokens) + 1
  <2>1. g.token # 0 => g.token \in revoked
    BY <1>2 DEF Issue, At, SessionsInv, SafeHandler, HandlerConsistent
  <2>2. /\ DOMAIN tokens' = DOMAIN tokens \cup {n}
        /\ \A t \in DOMAIN tokens : tokens'[t] = tokens[t]
        /\ tokens'[n] = Row(g)
    BY <1>2, AppendGrows DEF Issue, SessionsInv
  <2>3. tokens'[n].parent = g.token
    BY <2>2, RowFacts
  <2> QED
    BY <1>1, <2>1, <2>2, <2>3 DEF ParentRetired, SessionsInv, Grows
<1>3. CASE UNCHANGED tokens
  BY <1>1, <1>3 DEF ParentRetired, SessionsInv, Grows
<1>4. ASSUME NEW w \in Workers, ~Issue(w), Begin(w) \/ Step(w) \/ Abandon(w)
      PROVE  UNCHANGED tokens
  BY <1>4 DEF Begin, RegisterBegin, LoginBegin, SsoBegin, DeprovisionBegin, PatchBegin,
              RefreshBegin, LogoutBegin, RevokeTokenBegin, Abandon,
              Step, InsertUser, CountSessions, EvictSessions, StampToken, RotateToken, ReloadUser,
              BlacklistToken, SweepRead, SweepCommit, SetActive
<1> QED
  BY <1>2, <1>3, <1>4 DEF Next, Tick, vars

LEMMA InvInit == Init => SessionsInv
<1> SUFFICES ASSUME Init PROVE SessionsInv
  OBVIOUS
<1>1. Idle \in Handler
  BY SessionsAssumption DEF Idle, Handler, Points
<1>2. tokens = <<>> /\ DOMAIN tokens = {} /\ Len(tokens) = 0 /\ tokens \in Seq(Token)
  BY DEF Init
<1>3. TypeOK
  BY <1>1, <1>2, SessionsAssumption DEF Init, TypeOK
<1>4. \A w \in Workers : handler[w] = Idle
  BY DEF Init
<1> QED
  BY <1>2, <1>3, <1>4, IdleIsSafe DEF SessionsInv, ParentRetired

LEMMA InvStep == SessionsInv /\ [Next]_vars => SessionsInv'
<1> SUFFICES ASSUME SessionsInv, [Next]_vars PROVE SessionsInv'
  OBVIOUS
<1>1. TablesOK' /\ ParentRetired'
  BY TablesStep, ParentStep
<1>2. /\ handler' \in [Workers -> Handler]
      /\ \A v \in Workers : SafeHandler(handler[v])'
  <2>1. ASSUME NEW w \in Workers, Begin(w) \/ Step(w) \/ Abandon(w)
        PROVE  /\ handler' \in [Workers -> Handler]
               /\ \A v \in Workers : SafeHandler(handler[v])'
    BY <2>1, BeginIsSafe, StepIsSafe, FinishIsSafe DEF Abandon
  <2>2. ASSUME UNCHANGED handler, NEW v \in Workers PROVE SafeHandler(handler[v])'
    <3>1. PICK k : k = handler[v]
      OBVIOUS
    <3>2. SafeHandler(k)'
      BY <3>1, SafeIsStable DEF SessionsInv
    <3> QED
      BY <2>2, <3>1, <3>2
         DEF SafeHandler, HandlerConsistent, SweepCovers, BlacklistedBeforeSweep, Unrevoked
  <2>3. UNCHANGED handler => handler' \in [Workers -> Handler]
    BY DEF SessionsInv, TypeOK
  <2> QED
    BY <2>1, <2>2, <2>3 DEF Next, Tick, vars
<1>3. TypeOK'
  BY <1>1, <1>2 DEF TablesOK, TypeOK
<1> QED
  BY <1>1, <1>2, <1>3 DEF SessionsInv

\* The inductive invariant holds in every reachable state of the session store.
THEOREM Invariance == Spec => []SessionsInv
<1> QED
  BY InvInit, InvStep, PTL DEF Spec

\* Every variable keeps its type: in particular no step revokes or blacklists a
\* token that was never stored.
THEOREM TypeCorrectness == Spec => []TypeOK
<1>1. SessionsInv => TypeOK
  BY DEF SessionsInv
<1> QED
  BY <1>1, Invariance, PTL

\* A refresh token and the one it was exchanged for are never both live, however
\* many refreshes race on one token (refresh_token commits the revocation before
\* it stores the replacement).
THEOREM RotationSafety == Spec => []ParentRetired
<1>1. SessionsInv => ParentRetired
  BY DEF SessionsInv
<1> QED
  BY <1>1, Invariance, PTL

\* revoke_user_tokens misses no session that existed when its request was
\* authenticated, whatever is issued or rotated while it runs, and a logout that gets
\* there has its own access token blacklisted.
THEOREM SweepSafety == Spec => []SweepCoversEarlierSessions
<1>1. SessionsInv => SweepCoversEarlierSessions
  BY DEF SessionsInv, SafeHandler, SweepCoversEarlierSessions
<1> QED
  BY <1>1, Invariance, PTL

-------------------------------------------------------------------------------
(* The handlers implement SessionLifecycle.                                *)

LEMMA AppendIsFunction ==
    ASSUME NEW R, NEW n \in Nat, NEW s \in [1..n -> R], NEW x \in R
    PROVE  Append(s, x) = [i \in 1..(n + 1) |-> IF i = n + 1 THEN x ELSE s[i]]
<1>1. s \in Seq(R) /\ Len(s) = n
  OBVIOUS
<1>2. /\ Append(s, x) \in Seq(R)
      /\ Len(Append(s, x)) = n + 1
      /\ \A i \in 1..n : Append(s, x)[i] = s[i]
      /\ Append(s, x)[n + 1] = x
  BY <1>1
<1> DEFINE f == [i \in 1..(n + 1) |-> IF i = n + 1 THEN x ELSE s[i]]
<1>3. \A i \in 1..(n + 1) : f[i] \in R /\ f[i] = Append(s, x)[i]
  <2> TAKE i \in 1..(n + 1)
  <2>1. i = n + 1 \/ i \in 1..n
    OBVIOUS
  <2> QED
    BY <1>2, <2>1
<1>4. f \in Seq(R) /\ Len(f) = n + 1
  BY <1>3
<1> HIDE DEF f
<1>5. Append(s, x) = f
  BY <1>2, <1>3, <1>4, SeqEqual
<1> QED
  BY <1>5 DEF f

\* The refinement mapping, as values.
OwnedMap == [t \in DOMAIN tokens |-> tokens[t].user]
PredecessorMap == [t \in DOMAIN tokens |-> tokens[t].parent]

LEMMA IssueRefines ==
    ASSUME SessionsInv, NEW w \in Workers, Issue(w)
    PROVE  Lifecycle!Open(handler[w].user, handler[w].token)
<1> DEFINE g == handler[w]
           n == Len(tokens)
           x == Row(g)
<1>1. /\ n \in Nat /\ DOMAIN tokens = 1..n /\ n < MaxTokens
      /\ \A t \in 1..n : tokens[t].user \in Users /\ tokens[t].parent \in 0..MaxTokens
      /\ g.user \in Users /\ g.token \in 0..MaxTokens
  BY TokenFacts, SessionsAssumption DEF SessionsInv, SafeHandler, Handler, Issue
<1>2. /\ tokens' = Append(tokens, x)
      /\ DOMAIN tokens' = 1..(n + 1)
      /\ \A t \in 1..n : tokens'[t] = tokens[t]
      /\ tokens'[n + 1].user = g.user
      /\ tokens'[n + 1].parent = g.token
      /\ UNCHANGED revoked
  BY <1>1, AppendGrows, RowFacts DEF SessionsInv, Issue
<1>3. OwnedMap' = Append(OwnedMap, g.user)
  <2>1. OwnedMap \in [1..n -> Users]
    BY <1>1 DEF OwnedMap
  <2>2. Append(OwnedMap, g.user)
          = [i \in 1..(n + 1) |-> IF i = n + 1 THEN g.user ELSE OwnedMap[i]]
    BY <1>1, <2>1, AppendIsFunction
  <2>3. OwnedMap' = [i \in 1..(n + 1) |-> tokens'[i].user]
    BY <1>2 DEF OwnedMap
  <2>4. \A i \in 1..(n + 1) :
           tokens'[i].user = IF i = n + 1 THEN g.user ELSE OwnedMap[i]
    BY <1>1, <1>2 DEF OwnedMap
  <2> QED
    BY <2>2, <2>3, <2>4
<1>4. PredecessorMap' = Append(PredecessorMap, g.token)
  <2>1. PredecessorMap \in [1..n -> 0..MaxTokens]
    BY <1>1 DEF PredecessorMap
  <2>2. Append(PredecessorMap, g.token)
          = [i \in 1..(n + 1) |-> IF i = n + 1 THEN g.token ELSE PredecessorMap[i]]
    BY <1>1, <2>1, AppendIsFunction
  <2>3. PredecessorMap' = [i \in 1..(n + 1) |-> tokens'[i].parent]
    BY <1>2 DEF PredecessorMap
  <2>4. \A i \in 1..(n + 1) :
           tokens'[i].parent = IF i = n + 1 THEN g.token ELSE PredecessorMap[i]
    BY <1>1, <1>2 DEF PredecessorMap
  <2> QED
    BY <2>2, <2>3, <2>4
<1>5. Len(OwnedMap) < MaxTokens
  <2>1. OwnedMap \in [1..n -> Users]
    BY <1>1 DEF OwnedMap
  <2>2. Len(OwnedMap) = n
    BY <1>1, <2>1
  <2> QED
    BY <1>1, <2>2
<1>6. g.token # 0 => g.token \in revoked /\ OwnedMap[g.token] = g.user
  BY DEF Issue, At, SessionsInv, SafeHandler, HandlerConsistent, OwnedMap
<1> QED
  BY <1>2, <1>3, <1>4, <1>5, <1>6 DEF Lifecycle!Open, OwnedMap, PredecessorMap

LEMMA RevokeRefines ==
    ASSUME SessionsInv, NEW w \in Workers, NEW S, UNCHANGED tokens, Revoke(S),
           S \subseteq {t \in DOMAIN tokens : tokens[t].user = handler[w].user}
    PROVE  Lifecycle!Next
<1>1. S \in SUBSET (1..MaxTokens) /\ handler[w].user \in Users
  BY TokenFacts DEF SessionsInv, SafeHandler, Handler, TokenIds
<1>2. Lifecycle!Retire(handler[w].user, S)
  BY DEF Lifecycle!Retire, Revoke
<1> QED
  BY <1>1, <1>2 DEF Lifecycle!Next

LEMMA StepRefines ==
    SessionsInv /\ [Next]_vars => [Lifecycle!Next]_(Lifecycle!lifecycleVars)
<1> SUFFICES ASSUME SessionsInv, [Next]_vars
             PROVE  [Lifecycle!Next]_(Lifecycle!lifecycleVars)
  OBVIOUS
<1>1. ASSUME NEW w \in Workers, Issue(w) PROVE Lifecycle!Next
  <2>1. handler[w].user \in Users /\ handler[w].token \in 0..MaxTokens
    BY DEF SessionsInv, SafeHandler, Handler
  <2>2. Lifecycle!Open(handler[w].user, handler[w].token)
    BY <1>1, IssueRefines
  <2> QED
    BY <2>1, <2>2 DEF Lifecycle!Next, Lifecycle!Open
<1>2. ASSUME NEW w \in Workers, EvictSessions(w) \/ SweepCommit(w) PROVE Lifecycle!Next
  BY <1>2, RevokeRefines
     DEF EvictSessions, SweepCommit, SessionsInv, SafeHandler, HandlerConsistent
<1>3. ASSUME NEW w \in Workers, RotateToken(w) PROVE Lifecycle!Next
  <2>1. {handler[w].token} \subseteq {t \in DOMAIN tokens : tokens[t].user = handler[w].user}
    BY <1>3 DEF RotateToken, At, SessionsInv, SafeHandler, HandlerConsistent
  <2> QED
    BY <1>3, <2>1, RevokeRefines DEF RotateToken
<1>4. ASSUME UNCHANGED <<tokens, revoked>> PROVE UNCHANGED Lifecycle!lifecycleVars
  BY <1>4 DEF Lifecycle!lifecycleVars
<1>5. ASSUME NEW w \in Workers, Begin(w) \/ Step(w) \/ Abandon(w),
             ~Issue(w), ~EvictSessions(w), ~SweepCommit(w), ~RotateToken(w)
      PROVE  UNCHANGED <<tokens, revoked>>
  BY <1>5 DEF Begin, RegisterBegin, LoginBegin, SsoBegin, DeprovisionBegin, PatchBegin,
              RefreshBegin, LogoutBegin, RevokeTokenBegin, Abandon,
              Step, InsertUser, CountSessions, StampToken, ReloadUser, BlacklistToken,
              SweepRead, SetActive
<1> QED
  BY <1>1, <1>2, <1>3, <1>4, <1>5 DEF Next, Tick, vars

LEMMA InitRefines == Init => Lifecycle!Init
<1> SUFFICES ASSUME Init PROVE Lifecycle!Init
  OBVIOUS
<1>1. DOMAIN tokens = {}
  BY DEF Init
<1>2. OwnedMap = <<>> /\ PredecessorMap = <<>>
  BY <1>1 DEF OwnedMap, PredecessorMap
<1> QED
  BY <1>2 DEF Init, Lifecycle!Init, OwnedMap, PredecessorMap

\* Whatever the interleaving of the handlers, a refresh token lives the life that
\* SessionLifecycle promises: retired once and for good, never moved to another
\* user, replaced only after it was retired.
THEOREM Refinement == Spec => ImplementsLifecycle
<1> QED
  BY InitRefines, StepRefines, Invariance, PTL DEF Spec, ImplementsLifecycle, Lifecycle!Spec

-------------------------------------------------------------------------------
(* The session limit: a second invariant, over handlers that hold a count.  *)

\* A handler that never counted has since = 0, so that it counted no session.
RoomMade(h) ==
    /\ h.pc \in {"insert", "count", "rotate", "reload"} => h.since = 0
    /\ MaxSessions > 0 =>
          /\ h.pc = "evict" => Cardinality(CountedSessions(h) \ h.loaded) < MaxSessions
          /\ h.pc \in {"issue", "commit"} => Cardinality(CountedSessions(h)) < MaxSessions

\* What an eviction gives up was counted, and is the oldest of what was counted.
OldestFirst(h) ==
    h.pc = "evict" =>
        \A old \in h.loaded :
            /\ old <= h.since
            /\ \A young \in CountedSessions(h) \ h.loaded :
                  tokens[old].created <= tokens[young].created

LimitSafe(h) == RoomMade(h) /\ OldestFirst(h)

LimitInv ==
    /\ SessionsInv
    /\ \A w \in Workers : LimitSafe(handler[w])

LEMMA CountedFinite ==
    ASSUME TypeOK, NEW h
    PROVE  /\ IsFiniteSet(Unrevoked(h.user)) /\ Cardinality(Unrevoked(h.user)) \in Nat
           /\ IsFiniteSet(CountedSessions(h)) /\ Cardinality(CountedSessions(h)) \in Nat
           /\ CountedSessions(h) \subseteq Unrevoked(h.user)
<1>1. IsFiniteSet(1..Len(tokens))
  BY TokenFacts, FS_Interval, SessionsAssumption
<1>2. Unrevoked(h.user) \subseteq 1..Len(tokens)
  BY TokenFacts DEF Unrevoked
<1>3. IsFiniteSet(Unrevoked(h.user))
  BY <1>1, <1>2, FS_Subset
<1>4. CountedSessions(h) \subseteq Unrevoked(h.user)
  BY DEF CountedSessions
<1>5. IsFiniteSet(CountedSessions(h))
  BY <1>3, <1>4, FS_Subset
<1> QED
  BY <1>3, <1>4, <1>5, FS_CardinalityType

\* What was counted only shrinks.
LEMMA CountedShrinks ==
    ASSUME SessionsInv, [Next]_vars, NEW h, h.since \in Nat, h.since <= Len(tokens)
    PROVE  CountedSessions(h)' \subseteq CountedSessions(h)
<1>1. Grows
  BY NextGrows DEF SessionsInv
<1> SUFFICES ASSUME NEW t \in DOMAIN tokens', tokens'[t].user = h.user,
                    t \notin revoked', t <= h.since
             PROVE  t \in CountedSessions(h)
  BY DEF CountedSessions, Unrevoked
<1>2. Len(tokens) \in Nat /\ t \in Nat
  BY NextTables, TokenFacts, SessionsAssumption DEF SessionsInv
<1>3. t \in DOMAIN tokens
  BY <1>2, NextTables
<1> QED
  BY <1>1, <1>3 DEF CountedSessions, Unrevoked, Grows

LEMMA SmallerStillBelow ==
    ASSUME NEW A, NEW B, A \subseteq B, IsFiniteSet(B), NEW m \in Nat, Cardinality(B) < m
    PROVE  Cardinality(A) < m
<1>1. IsFiniteSet(A) /\ Cardinality(A) <= Cardinality(B)
  BY FS_Subset
<1>2. Cardinality(A) \in Nat /\ Cardinality(B) \in Nat
  BY <1>1, FS_CardinalityType
<1> QED
  BY <1>1, <1>2

\* A handler that is left alone keeps what it counted.
LEMMA LimitIsStable ==
    ASSUME LimitInv, [Next]_vars, NEW h, SafeHandler(h), LimitSafe(h)
    PROVE  LimitSafe(h)'
<1>1. h.since \in Nat /\ h.since <= Len(tokens)
  BY SessionsAssumption DEF SafeHandler, HandlerConsistent, Handler
<1>2. CountedSessions(h)' \subseteq CountedSessions(h)
  BY <1>1, CountedShrinks DEF LimitInv
<1>3. IsFiniteSet(CountedSessions(h))
  BY CountedFinite DEF LimitInv, SessionsInv
<1>4. RoomMade(h)'
  <2>1. ASSUME MaxSessions > 0, h.pc \in {"issue", "commit"}
        PROVE  Cardinality(CountedSessions(h)') < MaxSessions
    <3>1. Cardinality(CountedSessions(h)) < MaxSessions
      BY <2>1 DEF LimitSafe, RoomMade
    <3> QED
      BY <1>2, <1>3, <3>1, SmallerStillBelow, SessionsAssumption
  <2>2. ASSUME MaxSessions > 0, h.pc = "evict"
        PROVE  Cardinality(CountedSessions(h)' \ h.loaded) < MaxSessions
    <3>1. Cardinality(CountedSessions(h) \ h.loaded) < MaxSessions
      BY <2>2 DEF LimitSafe, RoomMade
    <3>2. CountedSessions(h)' \ h.loaded \subseteq CountedSessions(h) \ h.loaded
      BY <1>2
    <3>3. IsFiniteSet(CountedSessions(h) \ h.loaded)
      BY <1>3, FS_Subset
    <3> QED
      BY <3>1, <3>2, <3>3, SmallerStillBelow, SessionsAssumption
  <2> QED
    BY <2>1, <2>2 DEF LimitSafe, RoomMade
<1>5. OldestFirst(h)'
  <2> SUFFICES ASSUME h.pc = "evict", NEW old \in h.loaded
               PROVE  /\ old <= h.since
                      /\ \A young \in CountedSessions(h)' \ h.loaded :
                            tokens'[old].created <= tokens'[young].created
    BY DEF OldestFirst
  <2>1. Grows
    BY NextGrows DEF LimitInv, SessionsInv
  <2>2. old \in DOMAIN tokens /\ \A young \in CountedSessions(h) : young \in DOMAIN tokens
    BY DEF SafeHandler, HandlerConsistent, CountedSessions, Unrevoked
  <2> QED
    BY <1>2, <2>1, <2>2 DEF LimitSafe, OldestFirst, Grows
<1> QED
  BY <1>4, <1>5 DEF LimitSafe

LEMMA OneLimit ==
    ASSUME LimitInv, [Next]_vars, NEW w \in Workers, NEW h,
           handler' = [handler EXCEPT ![w] = h], LimitSafe(h)'
    PROVE  \A v \in Workers : LimitSafe(handler[v])'
<1> TAKE v \in Workers
<1>a. handler \in [Workers -> Handler]
  BY DEF LimitInv, SessionsInv, TypeOK
<1>1. CASE v = w
  <2>1. handler'[v] = h
    BY <1>1, <1>a
  <2> QED
    BY <2>1 DEF LimitSafe, RoomMade, OldestFirst, CountedSessions, Unrevoked
<1>2. CASE v # w
  <2>1. PICK k : k = handler[v]
    OBVIOUS
  <2>2. handler'[v] = k
    BY <1>2, <1>a, <2>1
  <2>3. LimitSafe(k)'
    BY <2>1, LimitIsStable DEF LimitInv, SessionsInv
  <2> QED
    BY <2>2, <2>3 DEF LimitSafe, RoomMade, OldestFirst, CountedSessions, Unrevoked
<1> QED
  BY <1>1, <1>2

\* A record at a point where nothing was counted, or where nothing is asked of it.
LEMMA UncountedIsSafe ==
    ASSUME LimitInv, [Next]_vars, NEW h, h.pc # "evict",
           h.pc \in {"insert", "count", "rotate", "reload", "issue", "commit"} => h.since = 0
    PROVE  LimitSafe(h)'
<1>1. ASSUME h.since = 0 PROVE CountedSessions(h)' = {}
  <2>1. \A t \in DOMAIN tokens' : ~(t <= 0)
    BY NextTables DEF LimitInv
  <2> QED
    BY <1>1, <2>1 DEF CountedSessions, Unrevoked
<1>2. MaxSessions > 0 /\ h.pc \in {"issue", "commit"} => Cardinality(CountedSessions(h)') < MaxSessions
  <2>1. Cardinality({}) = 0
    BY FS_EmptySet
  <2> QED
    BY <1>1, <2>1, SessionsAssumption
<1> QED
  BY <1>2 DEF LimitSafe, RoomMade, OldestFirst

LEMMA BeginLimit ==
    ASSUME LimitInv, [Next]_vars, NEW w \in Workers, Begin(w)
    PROVE  \A v \in Workers : LimitSafe(handler[v])'
<1>1. ASSUME NEW op, NEW point, NEW u, NEW t, Start(w, op, point, u, t), point # "evict",
             point \in {"insert", "count", "rotate", "reload", "issue", "commit"} => op \notin Sweeping
      PROVE  \A v \in Workers : LimitSafe(handler[v])'
  <2>1. PICK k : k = [op |-> op, pc |-> point, user |-> u, token |-> t, loaded |-> {},
                      created |-> 0, since |-> IF op \in Sweeping THEN Len(tokens) ELSE 0]
    OBVIOUS
  <2>2. k.pc = point /\ (op \notin Sweeping => k.since = 0)
    BY <2>1
  <2>3. LimitSafe(k)'
    BY <1>1, <2>2, UncountedIsSafe
  <2> QED
    BY <1>1, <2>1, <2>3, OneLimit DEF Start
<1>2. ASSUME NEW u \in Users,
             RegisterBegin(w, u) \/ LoginBegin(w, u) \/ SsoBegin(w, u) \/ DeprovisionBegin(w, u)
      PROVE  \A v \in Workers : LimitSafe(handler[v])'
  BY <1>1, <1>2 DEF RegisterBegin, LoginBegin, SsoBegin, DeprovisionBegin, Sweeping
<1>3. ASSUME NEW u \in Users, NEW op \in {"activate", "deactivate"}, PatchBegin(w, u, op)
      PROVE  \A v \in Workers : LimitSafe(handler[v])'
  BY <1>1, <1>3 DEF PatchBegin
<1>4. ASSUME NEW t \in TokenIds, RefreshBegin(w, t) \/ LogoutBegin(w, t)
      PROVE  \A v \in Workers : LimitSafe(handler[v])'
  BY <1>1, <1>4 DEF RefreshBegin, LogoutBegin, Sweeping
<1>5. ASSUME NEW c \in TokenIds, NEW a \in TokenIds, RevokeTokenBegin(w, c, a)
      PROVE  \A v \in Workers : LimitSafe(handler[v])'
  BY <1>1, <1>5 DEF RevokeTokenBegin
<1> QED
  BY <1>2, <1>3, <1>4, <1>5 DEF Begin

\* The SELECT of enforce_session_limit.
LEMMA CountLimit ==
    ASSUME LimitInv, [Next]_vars, NEW w \in Workers, CountSessions(w)
    PROVE  \A v \in Workers : LimitSafe(handler[v])'
<1> DEFINE g == handler[w]
           A == Unrevoked(g.user)
<1>a. g \in Handler /\ handler \in [Workers -> Handler]
  BY DEF LimitInv, SessionsInv, TypeOK
<1>b. UNCHANGED <<tokens, revoked>> /\ Len(tokens) \in Nat
  <2>1. Len(tokens) \in Nat
    BY TokenFacts, SessionsAssumption DEF LimitInv, SessionsInv
  <2> QED
    BY <2>1 DEF CountSessions
<1>c. IsFiniteSet(A) /\ Cardinality(A) \in Nat
  BY CountedFinite DEF LimitInv, SessionsInv
<1>d. A \subseteq 1..Len(tokens)
  BY TokenFacts DEF LimitInv, SessionsInv, Unrevoked
<1>1. CASE /\ Cardinality(A) < MaxSessions \/ A = {}
           /\ handler' = [handler EXCEPT ![w].pc = "issue", ![w].since = Len(tokens)]
  <2>1. PICK k : k = [g EXCEPT !.pc = "issue", !.since = Len(tokens)]
    OBVIOUS
  <2>2. k.pc = "issue" /\ k.user = g.user /\ k.since = Len(tokens)
    BY <1>a, <2>1 DEF Handler
  <2>3. CountedSessions(k)' = A
    BY <1>b, <1>d, <2>2 DEF CountedSessions, Unrevoked
  <2>4. MaxSessions > 0 => Cardinality(CountedSessions(k)') < MaxSessions
    <3>1. A = {} => Cardinality(A) = 0
      BY FS_EmptySet
    <3> QED
      BY <1>1, <2>3, <3>1, SessionsAssumption
  <2>5. LimitSafe(k)'
    BY <2>2, <2>4 DEF LimitSafe, RoomMade, OldestFirst
  <2>6. handler' = [handler EXCEPT ![w] = k]
    BY <1>1, <1>a, <2>1
  <2> QED
    BY <2>5, <2>6, OneLimit
<1>2. ASSUME NEW surplus \in SUBSET A, A # {}, Cardinality(A) >= MaxSessions, IsSurplus(surplus, A),
             handler' = [handler EXCEPT ![w].pc = "evict", ![w].loaded = surplus,
                                        ![w].since = Len(tokens)]
      PROVE  \A v \in Workers : LimitSafe(handler[v])'
  <2>1. PICK k : k = [g EXCEPT !.pc = "evict", !.loaded = surplus, !.since = Len(tokens)]
    OBVIOUS
  <2>2. k.pc = "evict" /\ k.user = g.user /\ k.since = Len(tokens) /\ k.loaded = surplus
    BY <1>a, <2>1 DEF Handler
  <2>3. CountedSessions(k)' = A /\ Unrevoked(k.user)' = A
    BY <1>b, <1>d, <2>2 DEF CountedSessions, Unrevoked
  <2>4. MaxSessions > 0 => Cardinality(CountedSessions(k)' \ surplus) < MaxSessions
    BY <1>2, <2>3, SessionsAssumption DEF IsSurplus, Survivors
  <2>5. OldestFirst(k)'
    BY <1>2, <1>b, <1>d, <2>2, <2>3 DEF OldestFirst, IsSurplus
  <2>6. LimitSafe(k)'
    BY <2>2, <2>4, <2>5 DEF LimitSafe, RoomMade
  <2>7. handler' = [handler EXCEPT ![w] = k]
    BY <1>2, <1>a, <2>1
  <2> QED
    BY <2>6, <2>7, OneLimit
<1> QED
  BY <1>1, <1>2 DEF CountSessions

\* The COMMIT of enforce_session_limit.
LEMMA EvictLimit ==
    ASSUME LimitInv, [Next]_vars, NEW w \in Workers, EvictSessions(w)
    PROVE  \A v \in Workers : LimitSafe(handler[v])'
<1> DEFINE g == handler[w]
<1>a. g \in Handler /\ handler \in [Workers -> Handler] /\ LimitSafe(g) /\ g.pc = "evict"
  BY DEF LimitInv, SessionsInv, TypeOK, EvictSessions, At
<1>1. PICK k : k = [g EXCEPT !.pc = "issue", !.loaded = {}]
  OBVIOUS
<1>2. k.pc = "issue" /\ k.user = g.user /\ k.since = g.since
  BY <1>a, <1>1 DEF Handler
<1>3. tokens' = tokens /\ revoked' = revoked \cup g.loaded
  BY DEF EvictSessions, Revoke
<1>4. CountedSessions(k)' = CountedSessions(g) \ g.loaded
  BY <1>2, <1>3 DEF CountedSessions, Unrevoked
<1>5. LimitSafe(k)'
  BY <1>a, <1>2, <1>4 DEF LimitSafe, RoomMade, OldestFirst
<1>6. handler' = [handler EXCEPT ![w] = k]
  BY <1>a, <1>1 DEF EvictSessions
<1> QED
  BY <1>5, <1>6, OneLimit

LEMMA FinishLimit ==
    ASSUME LimitInv, [Next]_vars, NEW w \in Workers, Finish(w)
    PROVE  \A v \in Workers : LimitSafe(handler[v])'
<1>1. PICK k : k = Idle
  OBVIOUS
<1>2. LimitSafe(k)'
  BY <1>1, UncountedIsSafe DEF Idle
<1> QED
  BY <1>1, <1>2, OneLimit DEF Finish

LEMMA StepLimit ==
    ASSUME LimitInv, [Next]_vars, NEW w \in Workers, Step(w)
    PROVE  \A v \in Workers : LimitSafe(handler[v])'
<1> DEFINE Goal == \A v \in Workers : LimitSafe(handler[v])'
           g == handler[w]
<1>a. g \in Handler /\ handler \in [Workers -> Handler] /\ LimitSafe(g)
  BY DEF LimitInv, SessionsInv, TypeOK
<1>b. ASSUME NEW point, Goto(w, point), point # "evict",
             point \in {"insert", "count", "rotate", "reload", "issue", "commit"} => g.since = 0
      PROVE  Goal
  <2>1. PICK k : k = [g EXCEPT !.pc = point]
    OBVIOUS
  <2>2. k.pc = point /\ k.since = g.since
    BY <1>a, <2>1 DEF Handler
  <2>3. LimitSafe(k)'
    BY <1>b, <2>2, UncountedIsSafe
  <2>4. handler' = [handler EXCEPT ![w] = k]
    BY <1>a, <1>b, <2>1 DEF Goto
  <2> QED
    BY <2>3, <2>4, OneLimit
<1>c. g.pc \in {"insert", "count", "rotate", "reload"} => g.since = 0
  BY <1>a DEF LimitSafe, RoomMade
<1>1. CASE InsertUser(w)
  BY <1>1, <1>b, <1>c, FinishLimit DEF InsertUser, At
<1>2. CASE RotateToken(w)
  BY <1>2, <1>b, <1>c DEF RotateToken, At
<1>3. CASE ReloadUser(w)
  BY <1>3, <1>b, <1>c, FinishLimit DEF ReloadUser, At
<1>4. CASE BlacklistToken(w)
  BY <1>4, <1>b, FinishLimit DEF BlacklistToken
<1>5. CASE SetActive(w)
  BY <1>5, <1>b, FinishLimit DEF SetActive
<1>6. CASE Issue(w) \/ SweepCommit(w)
  BY <1>6, FinishLimit DEF Issue, SweepCommit
<1>7. CASE SweepRead(w)
  <2>1. PICK k : k = [g EXCEPT !.pc = "sweep_commit", !.loaded = Unrevoked(g.user)]
    OBVIOUS
  <2>2. k.pc = "sweep_commit"
    BY <1>a, <2>1 DEF Handler
  <2>3. LimitSafe(k)'
    BY <2>2, UncountedIsSafe
  <2>4. handler' = [handler EXCEPT ![w] = k]
    BY <1>7, <1>a, <2>1 DEF SweepRead
  <2> QED
    BY <2>3, <2>4, OneLimit
<1>8. CASE StampToken(w)
  <2>1. PICK k \in Handler :
           /\ handler' = [handler EXCEPT ![w] = k]
           /\ k.pc = "commit" /\ k.user = g.user /\ k.since = g.since
    BY <1>8, StampMoves DEF LimitInv, SessionsInv
  <2>2. CountedSessions(k)' = CountedSessions(g) /\ g.pc = "issue"
    BY <1>8, <2>1 DEF StampToken, At, CountedSessions, Unrevoked
  <2>3. LimitSafe(k)'
    BY <1>a, <2>1, <2>2 DEF LimitSafe, RoomMade, OldestFirst
  <2> QED
    BY <2>1, <2>3, OneLimit
<1> QED
  BY <1>1, <1>2, <1>3, <1>4, <1>5, <1>6, <1>7, <1>8, CountLimit, EvictLimit DEF Step

LEMMA LimitInit == Init => LimitInv
<1> SUFFICES ASSUME Init PROVE LimitInv
  OBVIOUS
<1>1. DOMAIN tokens = {} /\ SessionsInv
  BY InvInit DEF Init
<1>2. LimitSafe(Idle)
  BY DEF LimitSafe, RoomMade, OldestFirst, Idle
<1> QED
  BY <1>1, <1>2 DEF Init, LimitInv

LEMMA LimitStep == LimitInv /\ [Next]_vars => LimitInv'
<1> SUFFICES ASSUME LimitInv, [Next]_vars PROVE LimitInv'
  OBVIOUS
<1>1. SessionsInv'
  BY InvStep DEF LimitInv
<1>2. \A v \in Workers : LimitSafe(handler[v])'
  <2>1. ASSUME NEW w \in Workers, Begin(w) \/ Step(w) \/ Abandon(w)
        PROVE  \A v \in Workers : LimitSafe(handler[v])'
    BY <2>1, BeginLimit, StepLimit, FinishLimit DEF Abandon
  <2>2. ASSUME UNCHANGED handler, NEW v \in Workers PROVE LimitSafe(handler[v])'
    <3>1. PICK k : k = handler[v]
      OBVIOUS
    <3>2. LimitSafe(k)'
      BY <3>1, LimitIsStable DEF LimitInv, SessionsInv
    <3> QED
      BY <2>2, <3>1, <3>2 DEF LimitSafe, RoomMade, OldestFirst, CountedSessions, Unrevoked
  <2> QED
    BY <2>1, <2>2 DEF Next, Tick, vars
<1> QED
  BY <1>1, <1>2 DEF LimitInv

-------------------------------------------------------------------------------
(* In which order sessions are given up.                                   *)

\* The tokens that were stamped before t and committed after it, and the handlers that
\* will commit such a token.
Overtakers(t) == {s \in DOMAIN tokens : /\ s > t /\ tokens[s].user = tokens[t].user
                                        /\ tokens[s].created < tokens[t].created}
Overtaking(t) == {w \in Stamped(tokens[t].user) : handler[w].created < tokens[t].created}

StampsPast ==
    /\ \A t \in DOMAIN tokens : tokens[t].created <= now
    /\ \A w \in Workers : At(w, "commit") => handler[w].created <= now

OvertakeInv(k) ==
    /\ SessionsInv
    /\ StampsPast
    /\ \A t \in DOMAIN tokens :
          Cardinality(Overtakers(t)) + Cardinality(Overtaking(t)) < k

LEMMA StampTypes ==
    ASSUME TypeOK
    PROVE  /\ now \in Nat
           /\ \A t \in DOMAIN tokens : tokens[t].created \in Nat
           /\ \A w \in Workers : handler[w].created \in Nat
<1>1. \A t \in DOMAIN tokens : tokens[t] \in Token
  BY DEF TypeOK
<1>2. \A w \in Workers : handler[w] \in Handler
  BY DEF TypeOK
<1> QED
  BY <1>1, <1>2, SessionsAssumption DEF TypeOK, Token, Handler

LEMMA OvertakeFinite ==
    ASSUME TypeOK, NEW t
    PROVE  /\ IsFiniteSet(Overtakers(t)) /\ Cardinality(Overtakers(t)) \in Nat
           /\ IsFiniteSet(Overtaking(t)) /\ Cardinality(Overtaking(t)) \in Nat
<1>1. IsFiniteSet(1..Len(tokens)) /\ Overtakers(t) \subseteq 1..Len(tokens)
  BY TokenFacts, FS_Interval, SessionsAssumption DEF Overtakers
<1>2. Overtaking(t) \subseteq Workers
  BY DEF Overtaking, Stamped
<1> QED
  BY <1>1, <1>2, SessionsAssumption, FS_Subset, FS_CardinalityType

\* The records that the steps of a handler leave behind.
LEMMA GotoMoves ==
    ASSUME TypeOK, NEW w \in Workers, NEW point, Goto(w, point)
    PROVE  \E k : /\ handler' = [handler EXCEPT ![w] = k] /\ k.pc = point
                  /\ k.op = handler[w].op /\ k.user = handler[w].user
                  /\ k.since = handler[w].since
<1>1. PICK k : k = [handler[w] EXCEPT !.pc = point]
  OBVIOUS
<1>2. handler \in [Workers -> Handler] /\ handler[w] \in Handler
  BY DEF TypeOK
<1>3. handler' = [handler EXCEPT ![w] = k]
  BY <1>1, <1>2 DEF Goto
<1>4. /\ k.pc = point /\ k.op = handler[w].op /\ k.user = handler[w].user
      /\ k.since = handler[w].since
  BY <1>1, <1>2 DEF Handler
<1> QED
  BY <1>3, <1>4

LEMMA CountMoves ==
    ASSUME TypeOK, NEW w \in Workers, CountSessions(w)
    PROVE  \E k : /\ handler' = [handler EXCEPT ![w] = k] /\ k.pc \in {"issue", "evict"}
                  /\ k.op = handler[w].op /\ k.user = handler[w].user
                  /\ k.since = Len(tokens)
                  /\ k.pc = "issue" => \/ Cardinality(Unrevoked(k.user)) < MaxSessions
                                       \/ Unrevoked(k.user) = {}
<1> DEFINE g == handler[w]
<1>a. handler \in [Workers -> Handler] /\ g \in Handler
  BY DEF TypeOK
<1>1. CASE /\ Cardinality(Unrevoked(g.user)) < MaxSessions \/ Unrevoked(g.user) = {}
           /\ handler' = [handler EXCEPT ![w].pc = "issue", ![w].since = Len(tokens)]
  <2>1. PICK k : k = [g EXCEPT !.pc = "issue", !.since = Len(tokens)]
    OBVIOUS
  <2>2. handler' = [handler EXCEPT ![w] = k]
    BY <1>1, <1>a, <2>1
  <2>3. k.pc = "issue" /\ k.op = g.op /\ k.user = g.user /\ k.since = Len(tokens)
    BY <1>a, <2>1 DEF Handler
  <2> QED
    BY <1>1, <2>2, <2>3
<1>2. ASSUME NEW S, handler' = [handler EXCEPT ![w].pc = "evict", ![w].loaded = S,
                                               ![w].since = Len(tokens)]
      PROVE  \E k : /\ handler' = [handler EXCEPT ![w] = k] /\ k.pc = "evict"
                    /\ k.op = g.op /\ k.user = g.user /\ k.since = Len(tokens)
  <2>1. PICK k : k = [g EXCEPT !.pc = "evict", !.loaded = S, !.since = Len(tokens)]
    OBVIOUS
  <2>2. handler' = [handler EXCEPT ![w] = k]
    BY <1>2, <1>a, <2>1
  <2>3. k.pc = "evict" /\ k.op = g.op /\ k.user = g.user /\ k.since = Len(tokens)
    BY <1>a, <2>1 DEF Handler
  <2> QED
    BY <2>2, <2>3
<1> QED
  BY <1>1, <1>2 DEF CountSessions

LEMMA EvictMoves ==
    ASSUME TypeOK, NEW w \in Workers, EvictSessions(w)
    PROVE  \E k : /\ handler' = [handler EXCEPT ![w] = k] /\ k.pc = "issue"
                  /\ k.op = handler[w].op /\ k.user = handler[w].user
                  /\ k.since = handler[w].since
<1>1. PICK k : k = [handler[w] EXCEPT !.pc = "issue", !.loaded = {}]
  OBVIOUS
<1>2. handler \in [Workers -> Handler] /\ handler[w] \in Handler
  BY DEF TypeOK
<1>3. handler' = [handler EXCEPT ![w] = k]
  BY <1>1, <1>2 DEF EvictSessions
<1>4. /\ k.pc = "issue" /\ k.op = handler[w].op /\ k.user = handler[w].user
      /\ k.since = handler[w].since
  BY <1>1, <1>2 DEF Handler
<1> QED
  BY <1>3, <1>4

LEMMA SweepMoves ==
    ASSUME TypeOK, NEW w \in Workers, SweepRead(w)
    PROVE  \E k : /\ handler' = [handler EXCEPT ![w] = k] /\ k.pc = "sweep_commit"
                  /\ k.op = handler[w].op
<1>1. PICK S : S = Unrevoked(handler[w].user)
  OBVIOUS
<1>2. PICK k : k = [handler[w] EXCEPT !.pc = "sweep_commit", !.loaded = S]
  OBVIOUS
<1>3. handler \in [Workers -> Handler] /\ handler[w] \in Handler
  BY DEF TypeOK
<1>4. handler' = [handler EXCEPT ![w] = k]
  BY <1>1, <1>2, <1>3 DEF SweepRead
<1>5. k.pc = "sweep_commit" /\ k.op = handler[w].op
  BY <1>2, <1>3 DEF Handler
<1> QED
  BY <1>4, <1>5

\* At "commit" in the next state is who was, unchanged, or who stamps in this step.
LEMMA WhoCommits ==
    ASSUME SessionsInv, [Next]_vars, NEW v \in Workers, handler'[v].pc = "commit"
    PROVE  \/ handler[v].pc = "commit" /\ handler'[v] = handler[v] /\ ~Issue(v)
           \/ StampToken(v) /\ handler'[v].created = now /\ UNCHANGED <<tokens, now>>
<1>a. handler \in [Workers -> Handler] /\ TypeOK
  BY DEF SessionsInv, TypeOK
<1> DEFINE Same == handler[v].pc = "commit" /\ handler'[v] = handler[v] /\ ~Issue(v)
<1>b. handler'[v] # Idle
  BY DEF Idle
<1>1. ASSUME handler'[v] = handler[v] PROVE Same
  <2>1. ASSUME Issue(v) PROVE FALSE
    BY <1>a, <1>b, <2>1 DEF Issue, Finish
  <2> QED
    BY <1>1, <2>1
<1>2. ASSUME NEW w \in Workers, Finish(w) PROVE Same
  <2>1. v # w
    BY <1>a, <1>b, <1>2 DEF Finish
  <2> QED
    BY <1>a, <1>1, <1>2, <2>1 DEF Finish
<1>3. ASSUME NEW w \in Workers, NEW k, handler' = [handler EXCEPT ![w] = k], k.pc # "commit"
      PROVE  Same
  <2>1. handler'[v] = IF v = w THEN k ELSE handler[v]
    BY <1>a, <1>3
  <2> QED
    BY <1>1, <1>3, <2>1
<1>4. ASSUME NEW w \in Workers, NEW point, Goto(w, point), point # "commit" PROVE Same
  <2>1. PICK k : k = [handler[w] EXCEPT !.pc = point]
    OBVIOUS
  <2>2. k.pc # "commit" /\ handler' = [handler EXCEPT ![w] = k]
    BY <1>a, <1>4, <2>1 DEF Goto, Handler
  <2> QED
    BY <1>3, <2>2
<1>5. ASSUME NEW w \in Workers, NEW op, NEW point, NEW u, NEW t, Start(w, op, point, u, t),
             point # "commit"
      PROVE  Same
  <2>1. PICK k : k = [op |-> op, pc |-> point, user |-> u, token |-> t, loaded |-> {},
                      created |-> 0, since |-> IF op \in Sweeping THEN Len(tokens) ELSE 0]
    OBVIOUS
  <2>2. k.pc = point /\ handler' = [handler EXCEPT ![w] = k]
    BY <1>5, <2>1 DEF Start
  <2> QED
    BY <1>3, <1>5, <2>2
<1>6. ASSUME NEW w \in Workers, CountSessions(w) \/ EvictSessions(w) \/ SweepRead(w) PROVE Same
  <2>1. \E k : handler' = [handler EXCEPT ![w] = k] /\ k.pc # "commit"
    <3>1. CASE EvictSessions(w)
      BY <1>a, <3>1, EvictMoves
    <3>2. CASE SweepRead(w)
      BY <1>a, <3>2, SweepMoves
    <3>3. CASE CountSessions(w)
      BY <1>a, <3>3, CountMoves
    <3> QED
      BY <1>6, <3>1, <3>2, <3>3
  <2> QED
    BY <1>3, <2>1
<1>7. ASSUME NEW w \in Workers, StampToken(w)
      PROVE  Same \/ (StampToken(v) /\ handler'[v].created = now /\ UNCHANGED <<tokens, now>>)
  <2>1. PICK k \in Handler : handler' = [handler EXCEPT ![w] = k] /\ k.created = now
    BY <1>7, <1>a, StampMoves
  <2>2. CASE v = w
    BY <1>7, <1>a, <2>1, <2>2 DEF StampToken
  <2>3. CASE v # w
    BY <1>1, <1>a, <2>1, <2>3
  <2> QED
    BY <2>2, <2>3
<1>8. ASSUME NEW w \in Workers, Step(w), ~StampToken(w) PROVE Same
  BY <1>2, <1>4, <1>6, <1>8 DEF Step, InsertUser, Issue, RotateToken, ReloadUser,
     BlacklistToken, SweepCommit, SetActive
<1>9. ASSUME NEW w \in Workers, Begin(w) PROVE Same
  BY <1>5, <1>9 DEF Begin, RegisterBegin, LoginBegin, SsoBegin, DeprovisionBegin, PatchBegin,
     RefreshBegin, LogoutBegin, RevokeTokenBegin
<1>10. CASE UNCHANGED handler
  BY <1>1, <1>10
<1> QED
  BY <1>2, <1>7, <1>8, <1>9, <1>10 DEF Next, Abandon, Tick, vars

LEMMA OvertakeStep ==
    ASSUME NEW k \in Nat
    PROVE  OvertakeInv(k) /\ StampedWithin(k) /\ [Next]_vars => OvertakeInv(k)'
<1> SUFFICES ASSUME OvertakeInv(k), StampedWithin(k), [Next]_vars
             PROVE  OvertakeInv(k)'
  OBVIOUS
<1>a. /\ SessionsInv /\ SessionsInv' /\ TypeOK /\ TypeOK' /\ Grows
      /\ \A w \in Workers : handler[w].user \in Users
  BY InvStep, NextGrows DEF OvertakeInv, SessionsInv, TypeOK, Handler
<1>b. now' \in Nat /\ now <= now' /\ now \in Nat
  <2>1. now' = now \/ now' = now + 1
    BY DEF Next, Begin, RegisterBegin, LoginBegin, SsoBegin, DeprovisionBegin, PatchBegin,
           RefreshBegin, LogoutBegin, RevokeTokenBegin, Abandon, Step, InsertUser,
           CountSessions, EvictSessions, StampToken, Issue, RotateToken, ReloadUser,
           BlacklistToken, SweepRead, SweepCommit, SetActive, Tick, vars
  <2> QED
    BY <1>a, <2>1, StampTypes
<1>c. ASSUME NEW w \in Workers, Issue(w)
      PROVE  /\ DOMAIN tokens' = DOMAIN tokens \cup {Len(tokens) + 1}
             /\ Len(tokens) + 1 \notin DOMAIN tokens
             /\ tokens'[Len(tokens) + 1].user = handler[w].user
             /\ tokens'[Len(tokens) + 1].created = handler[w].created
             /\ handler[w].pc = "commit" /\ handler'[w].pc = "idle"
  BY <1>a, <1>c, AppendGrows, RowFacts DEF Issue, At, Finish, Idle, TypeOK
<1>d. (\A w \in Workers : ~Issue(w)) => UNCHANGED tokens
  BY DEF Next, Begin, RegisterBegin, LoginBegin, SsoBegin, DeprovisionBegin, PatchBegin,
         RefreshBegin, LogoutBegin, RevokeTokenBegin, Abandon, Step, InsertUser,
         CountSessions, EvictSessions, StampToken, RotateToken, ReloadUser,
         BlacklistToken, SweepRead, SweepCommit, SetActive, Tick, vars
<1>1. StampsPast'
  <2>1. ASSUME NEW t \in DOMAIN tokens' PROVE tokens'[t].created <= now'
    <3>1. CASE t \in DOMAIN tokens
      <4>1. tokens'[t] = tokens[t] /\ tokens[t].created <= now /\ tokens[t].created \in Nat
        BY <1>a, <3>1, StampTypes DEF Grows, OvertakeInv, StampsPast
      <4> QED
        BY <1>b, <4>1
    <3>2. CASE t \notin DOMAIN tokens
      <4>1. PICK w \in Workers : Issue(w)
        BY <1>d, <2>1, <3>2
      <4>2. tokens'[t].created = handler[w].created
        BY <1>c, <2>1, <3>2, <4>1
      <4>3. handler[w].created <= now /\ handler[w].created \in Nat
        BY <1>a, <4>1, StampTypes DEF OvertakeInv, StampsPast, Issue
      <4> QED
        BY <1>b, <4>2, <4>3
    <3> QED
      BY <3>1, <3>2
  <2>2. ASSUME NEW w \in Workers, handler'[w].pc = "commit" PROVE handler'[w].created <= now'
    <3>1. CASE handler[w].pc = "commit" /\ handler'[w] = handler[w]
      <4>1. handler[w].created <= now /\ handler[w].created \in Nat
        BY <1>a, <3>1, StampTypes DEF OvertakeInv, StampsPast, At
      <4> QED
        BY <1>b, <3>1, <4>1
    <3>2. CASE handler'[w].created = now
      BY <1>b, <3>2
    <3> QED
      BY <1>a, <2>2, <3>1, <3>2, WhoCommits
  <2> QED
    BY <2>1, <2>2 DEF StampsPast, At
<1>2. ASSUME NEW t \in DOMAIN tokens
      PROVE  Cardinality(Overtakers(t)') + Cardinality(Overtaking(t)') < k
  <2>1. /\ IsFiniteSet(Overtakers(t)) /\ Cardinality(Overtakers(t)) \in Nat
        /\ IsFiniteSet(Overtaking(t)) /\ Cardinality(Overtaking(t)) \in Nat
        /\ Cardinality(Overtakers(t)) + Cardinality(Overtaking(t)) < k
    BY <1>a, OvertakeFinite DEF OvertakeInv
  <2>2. tokens'[t] = tokens[t] /\ tokens[t].created <= now /\ tokens[t].created \in Nat
    BY <1>a, StampTypes DEF Grows, OvertakeInv, StampsPast
  <2>3. Overtaking(t)' \subseteq {v \in Overtaking(t) : ~Issue(v)}
    <3> SUFFICES ASSUME NEW v \in Workers, handler'[v].pc = "commit",
                        handler'[v].user = tokens[t].user,
                        handler'[v].created < tokens[t].created
                 PROVE  v \in Overtaking(t) /\ ~Issue(v)
      BY <2>2 DEF Overtaking, Stamped, At
    <3>1. CASE handler[v].pc = "commit" /\ handler'[v] = handler[v] /\ ~Issue(v)
      BY <3>1 DEF Overtaking, Stamped, At
    <3>2. CASE handler'[v].created = now
      BY <1>b, <2>2, <3>2
    <3> QED
      BY <1>a, <3>1, <3>2, WhoCommits
  <2>4. ASSUME NEW w \in Workers, Issue(w), w \in Overtaking(t)
        PROVE  Cardinality(Overtakers(t)') + Cardinality(Overtaking(t)') < k
    <3> DEFINE n == Len(tokens) + 1
    <3>1. Overtakers(t)' \subseteq Overtakers(t) \cup {n}
      BY <1>a, <1>c, <2>2, <2>4 DEF Overtakers, Grows
    <3>2. Overtaking(t)' \subseteq Overtaking(t) \ {w}
      BY <2>3, <2>4
    <3>0. n \notin Overtakers(t)
      BY <1>c, <2>4 DEF Overtakers
    <3>3. /\ IsFiniteSet(Overtakers(t) \cup {n})
          /\ Cardinality(Overtakers(t) \cup {n}) = Cardinality(Overtakers(t)) + 1
      BY <2>1, <3>0, FS_AddElement
    <3>4. /\ IsFiniteSet(Overtaking(t) \ {w})
          /\ Cardinality(Overtaking(t) \ {w}) = Cardinality(Overtaking(t)) - 1
      BY <2>1, <2>4, FS_RemoveElement
    <3>5. /\ IsFiniteSet(Overtakers(t)')
          /\ Cardinality(Overtakers(t)') <= Cardinality(Overtakers(t) \cup {n})
          /\ IsFiniteSet(Overtaking(t)')
          /\ Cardinality(Overtaking(t)') <= Cardinality(Overtaking(t) \ {w})
      BY <3>1, <3>2, <3>3, <3>4, FS_Subset
    <3>6. /\ Cardinality(Overtakers(t)') \in Nat /\ Cardinality(Overtaking(t)') \in Nat
          /\ Cardinality(Overtakers(t) \cup {n}) \in Nat
          /\ Cardinality(Overtaking(t) \ {w}) \in Nat
      BY <3>3, <3>4, <3>5, FS_CardinalityType
    <3> QED
      BY <2>1, <3>3, <3>4, <3>5, <3>6
  <2>5. CASE \A w \in Workers : Issue(w) => w \notin Overtaking(t)
    <3>1. Overtakers(t)' \subseteq Overtakers(t)
      <4> SUFFICES ASSUME NEW s \in DOMAIN tokens', s > t, tokens'[s].user = tokens[t].user,
                          tokens'[s].created < tokens[t].created
                   PROVE  s \in Overtakers(t)
        BY <2>2 DEF Overtakers
      <4>1. CASE s \in DOMAIN tokens
        BY <1>a, <4>1 DEF Overtakers, Grows
      <4>2. CASE s \notin DOMAIN tokens
        <5>1. PICK w \in Workers : Issue(w)
          BY <1>d, <4>2
        <5>2. /\ handler[w].user = tokens[t].user /\ handler[w].created < tokens[t].created
              /\ handler[w].pc = "commit"
          BY <1>c, <4>2, <5>1
        <5> QED
          BY <2>5, <5>1, <5>2 DEF Overtaking, Stamped, At
      <4> QED
        BY <4>1, <4>2
    <3>2. Overtaking(t)' \subseteq Overtaking(t)
      BY <2>3
    <3>3. /\ IsFiniteSet(Overtakers(t)')
          /\ Cardinality(Overtakers(t)') <= Cardinality(Overtakers(t))
          /\ IsFiniteSet(Overtaking(t)')
          /\ Cardinality(Overtaking(t)') <= Cardinality(Overtaking(t))
      BY <2>1, <3>1, <3>2, FS_Subset
    <3>4. Cardinality(Overtakers(t)') \in Nat /\ Cardinality(Overtaking(t)') \in Nat
      BY <3>3, FS_CardinalityType
    <3> QED
      BY <2>1, <3>3, <3>4
  <2> QED
    BY <2>4, <2>5
<1>3. ASSUME NEW w \in Workers, Issue(w), NEW t \in DOMAIN tokens', t \notin DOMAIN tokens
      PROVE  Cardinality(Overtakers(t)') + Cardinality(Overtaking(t)') < k
  <2>1. t = Len(tokens) + 1 /\ tokens'[t].user = handler[w].user /\ w \in Stamped(handler[w].user)
    BY <1>c, <1>3 DEF Stamped, At
  <2>2. Overtakers(t)' = {}
    <3>1. Len(tokens) \in Nat /\ DOMAIN tokens = 1..Len(tokens)
      BY <1>a, TokenFacts
    <3>2. \A s \in DOMAIN tokens' : ~(s > t)
      BY <1>c, <1>3, <2>1, <3>1
    <3> QED
      BY <3>2 DEF Overtakers
  <2>3. Overtaking(t)' \subseteq Stamped(handler[w].user) \ {w}
    <3> SUFFICES ASSUME NEW v \in Workers, handler'[v].pc = "commit",
                        handler'[v].user = handler[w].user
                 PROVE  v \in Stamped(handler[w].user) /\ v # w
      BY <2>1 DEF Overtaking, Stamped, At
    <3>1. v # w
      BY <1>c, <1>3
    <3>2. ~UNCHANGED tokens
      BY <1>3
    <3> QED
      BY <1>a, <3>1, <3>2, WhoCommits DEF Stamped, At
  <2>4. /\ IsFiniteSet(Stamped(handler[w].user))
        /\ Cardinality(Stamped(handler[w].user)) \in Nat
        /\ Cardinality(Stamped(handler[w].user)) <= k
    <3>1. Stamped(handler[w].user) \subseteq Workers
      BY DEF Stamped
    <3>2. Cardinality(Stamped(handler[w].user)) <= k
      BY <1>a DEF StampedWithin
    <3> QED
      BY <3>1, <3>2, SessionsAssumption, FS_Subset, FS_CardinalityType
  <2>5. /\ IsFiniteSet(Stamped(handler[w].user) \ {w})
        /\ Cardinality(Stamped(handler[w].user) \ {w}) = Cardinality(Stamped(handler[w].user)) - 1
    BY <2>1, <2>4, FS_RemoveElement
  <2>6. /\ IsFiniteSet(Overtaking(t)')
        /\ Cardinality(Overtaking(t)') <= Cardinality(Stamped(handler[w].user) \ {w})
    BY <2>3, <2>5, FS_Subset
  <2>7. Cardinality(Overtaking(t)') \in Nat /\ Cardinality(Overtakers(t)') = 0
    BY <2>2, <2>6, FS_CardinalityType, FS_EmptySet
  <2> QED
    BY <2>4, <2>5, <2>6, <2>7
<1>4. ASSUME NEW t \in DOMAIN tokens'
      PROVE  Cardinality(Overtakers(t)') + Cardinality(Overtaking(t)') < k
  BY <1>d, <1>2, <1>3, <1>4
<1> QED
  BY <1>a, <1>1, <1>4 DEF OvertakeInv

LEMMA OvertakeInit ==
    ASSUME NEW k \in Nat
    PROVE  Init => OvertakeInv(k)
<1> SUFFICES ASSUME Init PROVE OvertakeInv(k)
  OBVIOUS
<1>1. SessionsInv /\ DOMAIN tokens = {}
  BY InvInit DEF Init
<1>2. \A w \in Workers : ~At(w, "commit")
  BY DEF Init, Idle, At
<1> QED
  BY <1>1, <1>2 DEF OvertakeInv, StampsPast

\* What an eviction spares although it is older than a session that it gives up was
\* committed after the count, so it overtook that session.
LEMMA SparedOvertook ==
    ASSUME LimitInv, NEW w \in Workers, At(w, "evict"), NEW t \in handler[w].loaded
    PROVE  /\ \A old \in SparedOlder(handler[w], t) : old > handler[w].since
           /\ SparedOlder(handler[w], t) \subseteq Overtakers(t)
           /\ t \in DOMAIN tokens
<1> DEFINE h == handler[w]
<1>1. /\ LimitSafe(h) /\ TypeOK /\ h.since \in Nat
      /\ t \in DOMAIN tokens /\ tokens[t].user = h.user /\ t \in Nat
  <2>1. /\ LimitSafe(h) /\ TypeOK
        /\ t \in DOMAIN tokens /\ tokens[t].user = h.user /\ h \in Handler
    BY DEF LimitInv, SessionsInv, SafeHandler, HandlerConsistent, TypeOK
  <2>2. h.since \in Nat
    BY <2>1, SessionsAssumption DEF Handler
  <2>3. t \in Nat
    BY <2>1, TokenFacts, SessionsAssumption
  <2> QED
    BY <2>1, <2>2, <2>3
<1>2. t <= h.since
  BY <1>1 DEF LimitSafe, OldestFirst, At
<1>3. ASSUME NEW old \in SparedOlder(h, t)
      PROVE  old > h.since /\ old \in Overtakers(t)
  <2>1. /\ old \in DOMAIN tokens /\ old \in Unrevoked(h.user) /\ old \notin h.loaded
        /\ tokens[old].user = h.user /\ tokens[old].created < tokens[t].created
    BY <1>3 DEF SparedOlder, Unrevoked
  <2>2. old \in Nat /\ tokens[old].created \in Nat /\ tokens[t].created \in Nat
    BY <1>1, <2>1, TokenFacts, StampTypes, SessionsAssumption
  <2>3. old \in CountedSessions(h) => tokens[t].created <= tokens[old].created
    BY <1>1, <2>1 DEF LimitSafe, OldestFirst, At
  <2>4. ~(old <= h.since)
    BY <2>1, <2>2, <2>3 DEF CountedSessions
  <2>5. old > h.since /\ old > t
    BY <1>1, <1>2, <2>2, <2>4
  <2> QED
    BY <1>1, <2>1, <2>5 DEF Overtakers
<1> QED
  BY <1>1, <1>3

LEMMA SparedFewer ==
    ASSUME NEW k \in Nat
    PROVE  LimitInv /\ OvertakeInv(k) => SparedWithin(k)
<1> SUFFICES ASSUME LimitInv, OvertakeInv(k), NEW w \in Workers, At(w, "evict"),
                    NEW t \in handler[w].loaded
             PROVE  Cardinality(SparedOlder(handler[w], t)) < k
  BY DEF SparedWithin
<1>1. TypeOK /\ t \in DOMAIN tokens /\ SparedOlder(handler[w], t) \subseteq Overtakers(t)
  BY SparedOvertook DEF LimitInv, SessionsInv
<1>2. /\ IsFiniteSet(Overtakers(t)) /\ Cardinality(Overtakers(t)) \in Nat
      /\ Cardinality(Overtaking(t)) \in Nat
      /\ Cardinality(Overtakers(t)) + Cardinality(Overtaking(t)) < k
  BY <1>1, OvertakeFinite DEF OvertakeInv
<1>3. Cardinality(Overtakers(t)) < k
  BY <1>2
<1> QED
  BY <1>1, <1>2, <1>3, SmallerStillBelow

\* docs/configuration.md: the oldest tokens are revoked when the limit is exceeded.  As long
\* as no more than k tokens of one user are between their stamp and their commit at once,
\* an eviction spares fewer than k that are older than one it gives up: with k = 1 it is
\* what the document says.
THEOREM EvictionsByOverlap ==
    ASSUME NEW k \in Nat
    PROVE  Spec /\ []StampedWithin(k) => []SparedWithin(k)
<1>1. Init => LimitInv /\ OvertakeInv(k)
  BY LimitInit, OvertakeInit
<1>2. OvertakeInv(k) /\ StampedWithin(k) /\ [Next]_vars => OvertakeInv(k)'
  BY OvertakeStep
<1>3. LimitInv /\ OvertakeInv(k) => SparedWithin(k)
  BY SparedFewer
<1> QED
  BY <1>1, <1>2, <1>3, LimitStep, PTL DEF Spec

\* With no assumption on who overlaps, fewer tokens than there are handlers are spared
\* although they are older, and each of them was committed after the count
\* (enforce_session_limit and store_refresh_token).
THEOREM EvictionOrder == Spec => []EvictsInOrder
<1> DEFINE k == Cardinality(Workers)
<1>1. k \in Nat
  BY SessionsAssumption, FS_CardinalityType
<1>2. Init => LimitInv /\ OvertakeInv(k)
  BY <1>1, LimitInit, OvertakeInit
<1>3. StampedWithin(k)
  <2>1. \A u : Stamped(u) \subseteq Workers
    BY DEF Stamped
  <2> QED
    BY <2>1, SessionsAssumption, FS_Subset DEF StampedWithin
<1>4. LimitInv /\ SparedWithin(k) => EvictsInOrder
  <2> SUFFICES ASSUME LimitInv, SparedWithin(k), NEW w \in Workers, At(w, "evict"),
                      NEW t \in handler[w].loaded
               PROVE  /\ \A old \in SparedOlder(handler[w], t) : old > handler[w].since
                      /\ Cardinality(SparedOlder(handler[w], t)) < Cardinality(Workers)
    BY DEF EvictsInOrder
  <2> QED
    BY SparedOvertook DEF SparedWithin
<1>5. OvertakeInv(k) /\ [Next]_vars => OvertakeInv(k)'
  BY <1>1, <1>3, OvertakeStep
<1>6. LimitInv /\ OvertakeInv(k) => EvictsInOrder
  BY <1>1, <1>4, SparedFewer
<1> HIDE DEF k
<1> QED
  BY <1>2, <1>5, <1>6, LimitStep, PTL DEF Spec

\* A password sign-in that is about to store its token left, of the sessions it
\* counted, fewer than max_concurrent_sessions.
THEOREM LimitEnforced == Spec => []LimitHoldsForCounted
<1>1. LimitInv => LimitHoldsForCounted
  BY DEF LimitInv, LimitSafe, RoomMade, LimitHoldsForCounted, At
<1> QED
  BY <1>1, LimitInit, LimitStep, PTL DEF Spec

-------------------------------------------------------------------------------
(* By how much password sign-ins overrun the limit.                        *)

\* The password sign-ins of u that counted at most the first s tokens.
Early(u, s) ==
    {w \in Workers : /\ handler[w].pc \in {"evict", "issue", "commit"}
                     /\ handler[w].op \in ByPassword
                     /\ handler[w].user = u
                     /\ handler[w].since <= s}

\* After the latest count that has left its trace (s): fewer sessions than the limit are
\* from before it, nobody who will store counted later, and what was stored since came
\* from handlers of which each has stored once.
FewBefore(u, s) == Cardinality({t \in PasswordSessions(u) : t <= s}) < MaxSessions
CountedBy(u, s) == \A w \in Storing(u) : handler[w].since <= s
FewAfter(u, s) ==
    \A r \in Nat : r >= s =>
        Cardinality({t \in PasswordSessions(u) : t > r}) + Cardinality(Early(u, r))
            <= Cardinality(Workers)

\* The handlers that enforce the limit come to "issue" by no other way.
PasswordPoints(h) ==
    /\ h.op \in ByPassword => h.pc \in {"insert", "count", "evict", "issue", "commit"}
    /\ h.pc = "insert" => h.op # "login"

OverrunInv ==
    /\ LimitInv
    /\ \A w \in Workers : PasswordPoints(handler[w])
    /\ \A u \in Users : \E s \in 0..Len(tokens) :
          FewBefore(u, s) /\ CountedBy(u, s) /\ FewAfter(u, s)

LEMMA PasswordFinite ==
    ASSUME TypeOK, NEW u, NEW T, T \subseteq PasswordSessions(u)
    PROVE  IsFiniteSet(T) /\ Cardinality(T) \in Nat
<1>1. IsFiniteSet(1..Len(tokens)) /\ T \subseteq 1..Len(tokens)
  BY TokenFacts, FS_Interval, SessionsAssumption DEF PasswordSessions, Unrevoked
<1> QED
  BY <1>1, FS_Subset, FS_CardinalityType

LEMMA EarlyFinite ==
    ASSUME NEW u, NEW s
    PROVE  /\ IsFiniteSet(Early(u, s)) /\ Cardinality(Early(u, s)) \in Nat
           /\ Cardinality(Workers) \in Nat
           /\ Cardinality(Early(u, s)) <= Cardinality(Workers)
<1>1. Early(u, s) \subseteq Workers
  BY DEF Early
<1> QED
  BY <1>1, SessionsAssumption, FS_Subset, FS_CardinalityType

\* Two sets that shrink.
LEMMA SumShrinks ==
    ASSUME NEW A, NEW B, NEW C, NEW D, A \subseteq C, B \subseteq D,
           IsFiniteSet(C), IsFiniteSet(D)
    PROVE  /\ Cardinality(A) + Cardinality(B) <= Cardinality(C) + Cardinality(D)
           /\ Cardinality(A) \in Nat /\ Cardinality(B) \in Nat
<1>1. /\ IsFiniteSet(A) /\ Cardinality(A) <= Cardinality(C)
      /\ IsFiniteSet(B) /\ Cardinality(B) <= Cardinality(D)
  BY FS_Subset
<1>2. /\ Cardinality(A) \in Nat /\ Cardinality(B) \in Nat
      /\ Cardinality(C) \in Nat /\ Cardinality(D) \in Nat
  BY <1>1, FS_CardinalityType
<1> QED
  BY <1>1, <1>2

\* Only the commit of a token adds to the sessions.
LEMMA PasswordShrinks ==
    ASSUME TypeOK, [Next]_vars, UNCHANGED tokens, NEW u
    PROVE  PasswordSessions(u)' \subseteq PasswordSessions(u)
<1>1. Grows
  BY NextGrows
<1> QED
  BY <1>1 DEF PasswordSessions, Unrevoked, Grows

\* A step of one handler that stores nothing and does not count.
LEMMA OverrunMove ==
    ASSUME LimitInv, [Next]_vars, UNCHANGED tokens, NEW w \in Workers, NEW k,
           handler' = [handler EXCEPT ![w] = k],
           k.op \in ByPassword /\ k.pc \in {"evict", "issue", "commit"} =>
               /\ handler[w].op \in ByPassword
               /\ handler[w].pc \in {"evict", "issue", "commit"}
               /\ handler[w].user = k.user /\ handler[w].since = k.since,
           NEW u, NEW s \in Nat, FewAfter(u, s)
    PROVE  FewAfter(u, s)'
<1>a. handler \in [Workers -> Handler] /\ TypeOK
  BY DEF LimitInv, SessionsInv, TypeOK
<1>1. \A v \in Workers : handler'[v] = IF v = w THEN k ELSE handler[v]
  BY <1>a
<1>2. ASSUME NEW r \in Nat, r >= s
      PROVE  Cardinality({t \in PasswordSessions(u)' : t > r}) + Cardinality(Early(u, r)')
                <= Cardinality(Workers)
  <2> DEFINE C == {t \in PasswordSessions(u) : t > r}
             A == {t \in PasswordSessions(u)' : t > r}
  <2>1. A \subseteq C
    BY <1>a, PasswordShrinks
  <2>2. Early(u, r)' \subseteq Early(u, r)
    BY <1>1 DEF Early
  <2>3. IsFiniteSet(C) /\ Cardinality(C) \in Nat
    BY <1>a, PasswordFinite
  <2>4. IsFiniteSet(Early(u, r)) /\ Cardinality(Early(u, r)) \in Nat /\ Cardinality(Workers) \in Nat
    BY EarlyFinite
  <2>5. Cardinality(C) + Cardinality(Early(u, r)) <= Cardinality(Workers)
    BY <1>2 DEF FewAfter
  <2> HIDE DEF A, C
  <2>6. /\ Cardinality(A) + Cardinality(Early(u, r)') <= Cardinality(C) + Cardinality(Early(u, r))
        /\ Cardinality(A) \in Nat /\ Cardinality(Early(u, r)') \in Nat
    BY <2>1, <2>2, <2>3, <2>4, SumShrinks
  <2>7. Cardinality(A) + Cardinality(Early(u, r)') <= Cardinality(Workers)
    BY <2>3, <2>4, <2>5, <2>6
  <2> QED
    BY <2>7 DEF A
<1> QED
  BY <1>2 DEF FewAfter

\* The sessions from before s only shrink.
LEMMA BeforeShrinks ==
    ASSUME LimitInv, [Next]_vars, NEW u, NEW s \in 0..Len(tokens), FewBefore(u, s)
    PROVE  FewBefore(u, s)'
<1> DEFINE A == {t \in PasswordSessions(u)' : t <= s}
           B == {t \in PasswordSessions(u) : t <= s}
<1>1. Grows /\ TypeOK
  BY NextGrows DEF LimitInv, SessionsInv
<1>2. \A t \in DOMAIN tokens' : t <= s => t \in DOMAIN tokens
  <2>1. Len(tokens) \in Nat /\ \A t \in DOMAIN tokens' : t \in Nat
    BY <1>1, NextTables, TokenFacts, SessionsAssumption DEF LimitInv
  <2> QED
    BY <2>1, NextTables DEF LimitInv
<1>3. A \subseteq B
  BY <1>1, <1>2 DEF PasswordSessions, Unrevoked, Grows
<1>4. IsFiniteSet(B) /\ Cardinality(B) < MaxSessions
  BY <1>1, PasswordFinite DEF FewBefore
<1>5. Cardinality(A) < MaxSessions
  BY <1>3, <1>4, SmallerStillBelow, SessionsAssumption
<1> QED
  BY <1>5 DEF FewBefore

\* What a handler that has just enforced the limit left of the sessions it counted.
LEMMA BeforeCount ==
    ASSUME LimitInv, [Next]_vars, LimitInv', MaxSessions > 0, NEW w \in Workers, NEW u, NEW s,
           handler'[w].pc = "issue", handler'[w].user = u, handler'[w].since = s
    PROVE  FewBefore(u, s)'
<1> DEFINE A == {t \in PasswordSessions(u)' : t <= s}
           C == {t \in Unrevoked(u)' : t <= s}
<1>1. Cardinality(C) < MaxSessions
  BY DEF LimitInv, LimitSafe, RoomMade, CountedSessions
<1>2. A \subseteq C
  BY DEF PasswordSessions
<1>3. IsFiniteSet(C)
  <2>1. DOMAIN tokens' = 1..Len(tokens') /\ Len(tokens') \in Nat
    BY NextTables, SessionsAssumption DEF LimitInv
  <2>2. C \subseteq 1..Len(tokens')
    BY <2>1 DEF Unrevoked
  <2>3. IsFiniteSet(1..Len(tokens'))
    BY <2>1, FS_Interval
  <2> HIDE DEF C
  <2> QED
    BY <2>2, <2>3, FS_Subset
<1>4. Cardinality(A) < MaxSessions
  BY <1>1, <1>2, <1>3, SmallerStillBelow, SessionsAssumption
<1> QED
  BY <1>4 DEF FewBefore

\* At the end of the table nothing was stored since.
LEMMA AfterLast ==
    ASSUME LimitInv, [Next]_vars, NEW u, NEW s \in Nat, s >= Len(tokens')
    PROVE  FewAfter(u, s)'
<1> SUFFICES ASSUME NEW r \in Nat, r >= s
             PROVE  Cardinality({t \in PasswordSessions(u)' : t > r}) + Cardinality(Early(u, r)')
                       <= Cardinality(Workers)
  BY DEF FewAfter
<1>1. \A t \in DOMAIN tokens' : ~(t > r)
  BY NextTables, SessionsAssumption DEF LimitInv
<1>2. {t \in PasswordSessions(u)' : t > r} = {}
  BY <1>1 DEF PasswordSessions, Unrevoked
<1>3. Cardinality({t \in PasswordSessions(u)' : t > r}) = 0
  BY <1>2, FS_EmptySet
<1>4. Early(u, r)' \subseteq Workers
  BY DEF Early
<1>5. Cardinality(Early(u, r)') <= Cardinality(Workers) /\ Cardinality(Early(u, r)') \in Nat
  BY <1>4, SessionsAssumption, FS_Subset, FS_CardinalityType
<1> QED
  BY <1>3, <1>5

\* A handler that commits the token of a password sign-in stood for it before.
LEMMA OverrunIssue ==
    ASSUME LimitInv, [Next]_vars, NEW w \in Workers, Issue(w), NEW u, NEW s \in Nat,
           CountedBy(u, s), FewAfter(u, s)
    PROVE  FewAfter(u, s)' /\ CountedBy(u, s)'
<1> DEFINE g == handler[w]
           n == Len(tokens) + 1
<1>a. handler \in [Workers -> Handler] /\ TypeOK /\ g \in Handler
  BY DEF LimitInv, SessionsInv, TypeOK
<1>1. /\ DOMAIN tokens' = DOMAIN tokens \cup {n} /\ n \notin DOMAIN tokens
      /\ \A t \in DOMAIN tokens : tokens'[t] = tokens[t]
      /\ tokens'[n].user = g.user /\ tokens'[n].password = (g.op \in ByPassword)
      /\ revoked' = revoked /\ g.pc = "commit"
  BY <1>a, AppendGrows, RowFacts DEF Issue, At
<1>2. PICK k : k = Idle
  OBVIOUS
<1>3. (\A v \in Workers : handler'[v] = IF v = w THEN k ELSE handler[v]) /\ k.pc = "idle"
  BY <1>a, <1>2 DEF Issue, Finish, Idle
<1>4. CountedBy(u, s)'
  BY <1>3 DEF CountedBy, Storing, At
<1>5. ASSUME NEW r \in Nat, r >= s
      PROVE  Cardinality({t \in PasswordSessions(u)' : t > r}) + Cardinality(Early(u, r)')
                <= Cardinality(Workers)
  <2> DEFINE C == {t \in PasswordSessions(u) : t > r}
             A == {t \in PasswordSessions(u)' : t > r}
  <2>1. Early(u, r)' = Early(u, r) \ {w}
    BY <1>3 DEF Early
  <2>2. IsFiniteSet(C) /\ Cardinality(C) \in Nat
    BY <1>a, PasswordFinite
  <2>3. IsFiniteSet(Early(u, r)) /\ Cardinality(Early(u, r)) \in Nat /\ Cardinality(Workers) \in Nat
    BY EarlyFinite
  <2>4. Cardinality(C) + Cardinality(Early(u, r)) <= Cardinality(Workers)
    BY <1>5 DEF FewAfter
  <2>5. CASE g.op \in ByPassword /\ g.user = u
    <3>1. w \in Storing(u)
      BY <1>1, <2>5 DEF Storing, At
    <3>2. g.since <= s /\ g.since \in Nat
      BY <1>a, <3>1, SessionsAssumption DEF CountedBy, Handler
    <3>3. w \in Early(u, r)
      BY <1>1, <1>5, <2>5, <3>2 DEF Early
    <3>4. A \subseteq C \cup {n}
      BY <1>1 DEF PasswordSessions, Unrevoked
    <3>5. n \notin C
      BY <1>1 DEF PasswordSessions, Unrevoked
    <3> HIDE DEF A, C, n
    <3>6. IsFiniteSet(C \cup {n}) /\ Cardinality(C \cup {n}) = Cardinality(C) + 1
      BY <2>2, <3>5, FS_AddElement
    <3>7. /\ IsFiniteSet(Early(u, r) \ {w})
          /\ Cardinality(Early(u, r) \ {w}) = Cardinality(Early(u, r)) - 1
      BY <2>3, <3>3, FS_RemoveElement
    <3>8. /\ Cardinality(A) + Cardinality(Early(u, r)')
               <= Cardinality(C \cup {n}) + Cardinality(Early(u, r) \ {w})
          /\ Cardinality(A) \in Nat /\ Cardinality(Early(u, r)') \in Nat
      BY <2>1, <3>4, <3>6, <3>7, SumShrinks
    <3>9. Cardinality(A) + Cardinality(Early(u, r)') <= Cardinality(Workers)
      BY <2>2, <2>3, <2>4, <3>6, <3>7, <3>8
    <3> QED
      BY <3>9 DEF A
  <2>6. CASE ~(g.op \in ByPassword /\ g.user = u)
    <3>1. A \subseteq C
      BY <1>1, <2>6 DEF PasswordSessions, Unrevoked
    <3> HIDE DEF A, C
    <3>2. /\ Cardinality(A) + Cardinality(Early(u, r)') <= Cardinality(C) + Cardinality(Early(u, r))
          /\ Cardinality(A) \in Nat /\ Cardinality(Early(u, r)') \in Nat
      BY <2>1, <2>2, <2>3, <3>1, SumShrinks
    <3>3. Cardinality(A) + Cardinality(Early(u, r)') <= Cardinality(Workers)
      BY <2>2, <2>3, <2>4, <3>2
    <3> QED
      BY <3>3 DEF A
  <2> QED
    BY <2>5, <2>6
<1> QED
  BY <1>4, <1>5 DEF FewAfter

\* For one user: a step keeps the mark, or puts it where the handler that moves counted.
LEMMA OverrunOne ==
    ASSUME OverrunInv, MaxSessions > 0, [Next]_vars, LimitInv', NEW u \in Users
    PROVE  \E s \in 0..Len(tokens') : (FewBefore(u, s) /\ CountedBy(u, s) /\ FewAfter(u, s))'
<1> DEFINE Goal == \E s \in 0..Len(tokens') :
                      (FewBefore(u, s) /\ CountedBy(u, s) /\ FewAfter(u, s))'
<1>a. /\ LimitInv /\ SessionsInv /\ TypeOK /\ TypeOK' /\ handler \in [Workers -> Handler]
      /\ Len(tokens) \in Nat /\ Len(tokens') \in Nat /\ Len(tokens) <= Len(tokens')
  <2>1. LimitInv /\ SessionsInv /\ TypeOK /\ TypeOK' /\ handler \in [Workers -> Handler]
    BY DEF OverrunInv, LimitInv, SessionsInv, TypeOK
  <2> QED
    BY <2>1, NextGrows, NextTables, TokenFacts, SessionsAssumption DEF Grows
<1>b. PICK s \in 0..Len(tokens) : FewBefore(u, s) /\ CountedBy(u, s) /\ FewAfter(u, s)
  BY DEF OverrunInv
<1>c. FewBefore(u, s)' /\ s \in 0..Len(tokens') /\ s \in Nat
  BY <1>a, <1>b, BeforeShrinks
<1>1. \* A handler that does not come to "issue" by counting or evicting.
      ASSUME NEW w \in Workers, NEW k, handler' = [handler EXCEPT ![w] = k], UNCHANGED tokens,
             \/ k.pc \notin {"evict", "issue", "commit"}
             \/ k.op \notin ByPassword
             \/ /\ k.pc = "commit" /\ handler[w].pc = "issue" /\ k.op = handler[w].op
                /\ k.user = handler[w].user /\ k.since = handler[w].since
      PROVE  Goal
  <2>1. FewAfter(u, s)'
    BY <1>1, <1>a, <1>b, <1>c, OverrunMove
  <2>2. \A v \in Workers : handler'[v] = IF v = w THEN k ELSE handler[v]
    BY <1>1, <1>a
  <2>3. CountedBy(u, s)'
    BY <1>1, <1>b, <2>2 DEF CountedBy, Storing, At
  <2> QED
    BY <1>c, <2>1, <2>3
<1>2. ASSUME NEW w \in Workers, Issue(w) PROVE Goal
  BY <1>2, <1>a, <1>b, <1>c, OverrunIssue
<1>3. ASSUME NEW w \in Workers, CountSessions(w) PROVE Goal
  <2> DEFINE g == handler[w]
  <2>1. PICK k : /\ handler' = [handler EXCEPT ![w] = k] /\ k.pc \in {"issue", "evict"}
                 /\ k.op = g.op /\ k.user = g.user /\ k.since = Len(tokens)
    BY <1>3, <1>a, CountMoves
  <2>2. UNCHANGED tokens /\ g.pc = "count"
    BY <1>3 DEF CountSessions, At
  <2>3. \A v \in Workers : handler'[v] = IF v = w THEN k ELSE handler[v]
    BY <1>a, <2>1
  <2>4. \A v \in Workers : handler'[v].since \in Nat /\ handler'[v].since <= Len(tokens')
    <3>1. \A v \in Workers : SafeHandler(handler[v])'
      BY DEF LimitInv, SessionsInv
    <3> QED
      BY <3>1, SessionsAssumption DEF SafeHandler, HandlerConsistent, Handler
  <2>5. CASE k.pc = "issue" /\ k.user = u
    <3>1. PICK l : l = Len(tokens')
      OBVIOUS
    <3>2. handler'[w] = k /\ k.since = l /\ l \in Nat /\ l >= Len(tokens') /\ l \in 0..Len(tokens')
      BY <1>a, <2>1, <2>2, <2>3, <3>1
    <3>3. FewBefore(u, l)'
      BY <1>a, <2>5, <3>2, BeforeCount
    <3>4. FewAfter(u, l)'
      BY <1>a, <3>2, AfterLast
    <3>5. CountedBy(u, l)'
      BY <2>4, <3>1 DEF CountedBy, Storing
    <3> QED
      BY <3>2, <3>3, <3>4, <3>5
  <2>6. CASE ~(k.pc = "issue" /\ k.user = u)
    <3>1. CountedBy(u, s)'
      BY <1>b, <2>1, <2>3, <2>6 DEF CountedBy, Storing, At
    <3>2. FewAfter(u, s)'
      <4> SUFFICES ASSUME NEW r \in Nat, r >= s
                   PROVE  Cardinality({t \in PasswordSessions(u)' : t > r})
                            + Cardinality(Early(u, r)') <= Cardinality(Workers)
        BY DEF FewAfter
      <4>1. CASE r >= Len(tokens')
        <5>1. FewAfter(u, r)'
          BY <1>a, <4>1, AfterLast
        <5> QED
          BY <5>1 DEF FewAfter
      <4>2. CASE ~(r >= Len(tokens'))
        <5>1. PasswordSessions(u)' = PasswordSessions(u)
          BY <1>3 DEF CountSessions, PasswordSessions, Unrevoked
        <5>2. k.since = Len(tokens') /\ ~(Len(tokens') <= r)
          BY <1>a, <2>1, <2>2, <4>2
        <5>3. Early(u, r)' = Early(u, r)
          BY <2>2, <2>3, <5>2 DEF Early
        <5> QED
          BY <1>b, <5>1, <5>3 DEF FewAfter
      <4> QED
        BY <4>1, <4>2
    <3> QED
      BY <1>c, <3>1, <3>2
  <2> QED
    BY <2>1, <2>5, <2>6
<1>4. ASSUME NEW w \in Workers, EvictSessions(w) PROVE Goal
  <2> DEFINE g == handler[w]
  <2>1. PICK k : /\ handler' = [handler EXCEPT ![w] = k] /\ k.pc = "issue"
                 /\ k.op = g.op /\ k.user = g.user /\ k.since = g.since
    BY <1>4, <1>a, EvictMoves
  <2>2. UNCHANGED tokens /\ g.pc = "evict"
    BY <1>4 DEF EvictSessions, At
  <2>3. \A v \in Workers : handler'[v] = IF v = w THEN k ELSE handler[v]
    BY <1>a, <2>1
  <2>4. g.since \in 0..Len(tokens')
    BY <1>a, <2>2, SessionsAssumption DEF SessionsInv, SafeHandler, HandlerConsistent, Handler
  <2>5. ASSUME NEW r \in 0..Len(tokens'), r >= s PROVE FewAfter(u, r)'
    <3>1. r \in Nat /\ FewAfter(u, r)
      BY <1>a, <1>b, <1>c, <2>5 DEF FewAfter
    <3>2. handler[w].pc \in {"evict", "issue", "commit"}
      BY <2>2
    <3> QED
      BY <1>a, <2>1, <2>2, <3>1, <3>2, OverrunMove
  <2>6. CASE g.user = u /\ ~(g.since <= s)
    <3>1. PICK l \in 0..Len(tokens') : l = g.since
      BY <2>4
    <3>2. l >= s /\ l \in Nat
      BY <1>a, <1>c, <2>6, <3>1
    <3>3. FewBefore(u, l)'
      BY <1>a, <2>1, <2>3, <2>6, <3>1, BeforeCount
    <3>4. \A v \in Workers : handler[v].since \in Nat
      BY <1>a, SessionsAssumption DEF Handler
    <3>5. CountedBy(u, l)'
      <4> SUFFICES ASSUME NEW v \in Storing(u)' PROVE handler'[v].since <= l
        BY DEF CountedBy
      <4>1. CASE v = w
        BY <2>1, <2>3, <3>1, <3>2, <4>1 DEF Storing
      <4>2. CASE v # w
        <5>1. v \in Storing(u) /\ v \in Workers /\ handler'[v] = handler[v]
          BY <2>3, <4>2 DEF Storing, At
        <5>2. handler[v].since <= s
          BY <1>b, <5>1 DEF CountedBy
        <5> QED
          BY <1>c, <3>2, <3>4, <5>1, <5>2
      <4> QED
        BY <4>1, <4>2
    <3> QED
      BY <2>5, <3>2, <3>3, <3>5
  <2>7. CASE g.user # u \/ g.since <= s
    <3>1. CountedBy(u, s)'
      BY <1>b, <2>1, <2>3, <2>7 DEF CountedBy, Storing, At
    <3>2. FewAfter(u, s)'
      BY <1>c, <2>5
    <3> QED
      BY <1>c, <3>1, <3>2
  <2> QED
    BY <2>6, <2>7
<1>5. ASSUME NEW w \in Workers, NEW point, Goto(w, point), UNCHANGED tokens,
             \/ point \notin {"evict", "issue", "commit"}
             \/ handler[w].op \notin ByPassword
      PROVE  Goal
  BY <1>1, <1>5, <1>a, GotoMoves
<1>6. ASSUME NEW w \in Workers, Finish(w), UNCHANGED tokens PROVE Goal
  <2>1. PICK k : k = Idle
    OBVIOUS
  <2> QED
    BY <1>1, <1>6, <2>1 DEF Finish, Idle
<1>7. ASSUME NEW w \in Workers, Begin(w) PROVE Goal
  <2>1. ASSUME NEW op, NEW point, NEW v, NEW t, Start(w, op, point, v, t), UNCHANGED tokens,
               point \notin {"evict", "issue", "commit"} \/ op \notin ByPassword
        PROVE  Goal
    <3>1. PICK k : k = [op |-> op, pc |-> point, user |-> v, token |-> t, loaded |-> {},
                        created |-> 0, since |-> IF op \in Sweeping THEN Len(tokens) ELSE 0]
      OBVIOUS
    <3>2. k.op = op /\ k.pc = point /\ handler' = [handler EXCEPT ![w] = k]
      BY <2>1, <3>1 DEF Start
    <3> QED
      BY <1>1, <2>1, <3>2
  <2> QED
    BY <1>7, <2>1
       DEF Begin, RegisterBegin, LoginBegin, SsoBegin, DeprovisionBegin, PatchBegin,
           RefreshBegin, LogoutBegin, RevokeTokenBegin, ByPassword
<1>8. ASSUME NEW w \in Workers, StampToken(w) PROVE Goal
  BY <1>1, <1>8, <1>a, StampMoves DEF StampToken, At
<1>9. ASSUME NEW w \in Workers, InsertUser(w) PROVE Goal
  <2>1. handler[w].op = "register" \/ handler[w].op \notin ByPassword
    BY <1>9 DEF OverrunInv, InsertUser, At, PasswordPoints, ByPassword
  <2> QED
    BY <1>5, <1>6, <1>9, <2>1 DEF InsertUser
<1>10. ASSUME NEW w \in Workers,
              RotateToken(w) \/ BlacklistToken(w) \/ SweepCommit(w) \/ SetActive(w) \/ Abandon(w)
       PROVE  Goal
  BY <1>5, <1>6, <1>10 DEF RotateToken, BlacklistToken, SweepCommit, SetActive, Abandon
<1>11. ASSUME NEW w \in Workers, ReloadUser(w) PROVE Goal
  <2>1. handler[w].op \notin ByPassword
    BY <1>11 DEF OverrunInv, ReloadUser, At, PasswordPoints
  <2> QED
    BY <1>5, <1>6, <1>11, <2>1 DEF ReloadUser
<1>12. ASSUME NEW w \in Workers, SweepRead(w) PROVE Goal
  BY <1>1, <1>12, <1>a, SweepMoves DEF SweepRead
<1>13. CASE UNCHANGED <<tokens, revoked, handler>>
  <2>1. PasswordSessions(u)' = PasswordSessions(u) /\ Storing(u)' = Storing(u)
    BY <1>13 DEF PasswordSessions, Unrevoked, Storing, At
  <2>2. \A r : Early(u, r)' = Early(u, r)
    BY <1>13 DEF Early
  <2>3. FewAfter(u, s)'
    BY <1>b, <2>1, <2>2 DEF FewAfter
  <2>4. CountedBy(u, s)'
    BY <1>13, <1>b, <2>1 DEF CountedBy
  <2> QED
    BY <1>c, <2>3, <2>4
<1> QED
  BY <1>2, <1>3, <1>4, <1>7, <1>8, <1>9, <1>10, <1>11, <1>12, <1>13 DEF Next, Step, Tick, vars

LEMMA PasswordStep ==
    ASSUME LimitInv, \A w \in Workers : PasswordPoints(handler[w]), [Next]_vars
    PROVE  \A w \in Workers : PasswordPoints(handler[w])'
<1> DEFINE Goal == \A v \in Workers : PasswordPoints(handler[v])'
<1>a. handler \in [Workers -> Handler] /\ TypeOK
  BY DEF LimitInv, SessionsInv, TypeOK
<1>1. ASSUME NEW w \in Workers, NEW k, handler' = [handler EXCEPT ![w] = k], PasswordPoints(k)
      PROVE  Goal
  <2>1. \A v \in Workers : handler'[v] = IF v = w THEN k ELSE handler[v]
    BY <1>a, <1>1
  <2> QED
    BY <1>1, <2>1 DEF PasswordPoints
<1>2. ASSUME NEW w \in Workers, NEW op, NEW point, NEW u, NEW t, Start(w, op, point, u, t),
             op \in ByPassword => point \in {"insert", "count"},
             point = "insert" => op # "login"
      PROVE  Goal
  <2>1. PICK k : k = [op |-> op, pc |-> point, user |-> u, token |-> t, loaded |-> {},
                      created |-> 0, since |-> IF op \in Sweeping THEN Len(tokens) ELSE 0]
    OBVIOUS
  <2>2. k.op = op /\ k.pc = point /\ handler' = [handler EXCEPT ![w] = k]
    BY <1>2, <2>1 DEF Start
  <2> QED
    BY <1>1, <1>2, <2>2 DEF PasswordPoints
<1>3. ASSUME NEW w \in Workers, Finish(w) PROVE Goal
  <2>1. PICK k : k = Idle
    OBVIOUS
  <2>2. PasswordPoints(k)
    BY <2>1 DEF PasswordPoints, Idle, ByPassword
  <2> QED
    BY <1>1, <1>3, <2>1, <2>2 DEF Finish
<1>4. ASSUME NEW w \in Workers, NEW point, Goto(w, point),
             handler[w].op \in ByPassword => point \in {"count", "evict", "issue", "commit"},
             point # "insert"
      PROVE  Goal
  <2>1. PICK k : handler' = [handler EXCEPT ![w] = k] /\ k.pc = point /\ k.op = handler[w].op
    BY <1>a, <1>4, GotoMoves
  <2> QED
    BY <1>1, <1>4, <2>1 DEF PasswordPoints
<1>5. ASSUME NEW w \in Workers, CountSessions(w) PROVE Goal
  <2>1. PICK k : handler' = [handler EXCEPT ![w] = k] /\ k.pc \in {"issue", "evict"}
    BY <1>a, <1>5, CountMoves
  <2> QED
    BY <1>1, <2>1 DEF PasswordPoints
<1>6. ASSUME NEW w \in Workers, EvictSessions(w) PROVE Goal
  <2>1. PICK k : handler' = [handler EXCEPT ![w] = k] /\ k.pc = "issue"
    BY <1>a, <1>6, EvictMoves
  <2> QED
    BY <1>1, <2>1 DEF PasswordPoints
<1>7. ASSUME NEW w \in Workers, StampToken(w) PROVE Goal
  <2>1. PICK k \in Handler : handler' = [handler EXCEPT ![w] = k] /\ k.pc = "commit"
    BY <1>a, <1>7, StampMoves
  <2> QED
    BY <1>1, <2>1 DEF PasswordPoints
<1>8. ASSUME NEW w \in Workers, SweepRead(w) PROVE Goal
  <2>1. PICK k : /\ handler' = [handler EXCEPT ![w] = k] /\ k.pc = "sweep_commit"
                 /\ k.op = handler[w].op
    BY <1>a, <1>8, SweepMoves
  <2>2. handler[w].op \notin ByPassword
    BY <1>8 DEF SweepRead, At, PasswordPoints
  <2> QED
    BY <1>1, <2>1, <2>2 DEF PasswordPoints
<1>9. ASSUME NEW w \in Workers, InsertUser(w) PROVE Goal
  BY <1>3, <1>4, <1>9 DEF InsertUser
<1>10. ASSUME NEW w \in Workers,
              RotateToken(w) \/ ReloadUser(w) \/ BlacklistToken(w) \/ SetActive(w)
       PROVE  Goal
  <2>1. handler[w].op \notin ByPassword
    BY <1>10 DEF RotateToken, ReloadUser, BlacklistToken, SetActive, At, PasswordPoints
  <2> QED
    BY <1>3, <1>4, <1>10, <2>1 DEF RotateToken, ReloadUser, BlacklistToken, SetActive
<1>11. ASSUME NEW w \in Workers, Issue(w) \/ SweepCommit(w) \/ Abandon(w) PROVE Goal
  BY <1>3, <1>11 DEF Issue, SweepCommit, Abandon
<1>12. ASSUME NEW w \in Workers, Begin(w) PROVE Goal
  BY <1>2, <1>12
     DEF Begin, RegisterBegin, LoginBegin, SsoBegin, DeprovisionBegin, PatchBegin,
         RefreshBegin, LogoutBegin, RevokeTokenBegin, ByPassword
<1>13. CASE UNCHANGED handler
  BY <1>13 DEF PasswordPoints
<1> QED
  BY <1>5, <1>6, <1>7, <1>8, <1>9, <1>10, <1>11, <1>12, <1>13 DEF Next, Step, Tick, vars

LEMMA OverrunStep ==
    ASSUME MaxSessions > 0
    PROVE  OverrunInv /\ [Next]_vars => OverrunInv'
<1> SUFFICES ASSUME OverrunInv, [Next]_vars PROVE OverrunInv'
  OBVIOUS
<1>1. LimitInv'
  BY LimitStep DEF OverrunInv
<1>2. \A w \in Workers : PasswordPoints(handler[w])'
  BY PasswordStep DEF OverrunInv
<1> QED
  BY <1>1, <1>2, OverrunOne DEF OverrunInv

LEMMA OverrunInit ==
    ASSUME MaxSessions > 0
    PROVE  Init => OverrunInv
<1> SUFFICES ASSUME Init PROVE OverrunInv
  OBVIOUS
<1>1. LimitInv /\ DOMAIN tokens = {} /\ Len(tokens) = 0
  BY LimitInit DEF Init
<1>2. \A w \in Workers : handler[w].pc = "idle"
  BY DEF Init, Idle
<1>3. ASSUME NEW u PROVE FewBefore(u, 0) /\ CountedBy(u, 0) /\ FewAfter(u, 0)
  <2>1. \A r : {t \in PasswordSessions(u) : t > r} = {} /\ Early(u, r) = {}
    BY <1>1, <1>2 DEF PasswordSessions, Unrevoked, Early
  <2>2. {t \in PasswordSessions(u) : t <= 0} = {} /\ Storing(u) = {}
    BY <1>1, <1>2 DEF PasswordSessions, Unrevoked, Storing, At
  <2>3. Cardinality({}) = 0 /\ Cardinality(Workers) \in Nat
    BY SessionsAssumption, FS_EmptySet, FS_CardinalityType
  <2>4. FewBefore(u, 0)
    BY <2>2, <2>3, SessionsAssumption DEF FewBefore
  <2>5. FewAfter(u, 0)
    BY <2>1, <2>3 DEF FewAfter
  <2> QED
    BY <2>2, <2>4, <2>5 DEF CountedBy
<1> QED
  BY <1>1, <1>2, <1>3 DEF OverrunInv, PasswordPoints, ByPassword, Init, Idle

\* Password sign-ins that race (enforce_session_limit counts, other handlers store before
\* this one does) leave a user with fewer tokens than the limit and the handlers in flight
\* together, those about to be stored included, however long they go on.
THEOREM OverrunBound == Spec => []OverrunBounded
<1>1. ASSUME MaxSessions > 0, OverrunInv, NEW u \in Users
      PROVE  Cardinality(PasswordSessions(u)) + Cardinality(Storing(u))
                < MaxSessions + Cardinality(Workers)
  <2>1. PICK s \in 0..Len(tokens) : FewBefore(u, s) /\ CountedBy(u, s) /\ FewAfter(u, s)
    BY <1>1 DEF OverrunInv
  <2>2. TypeOK /\ s \in Nat
    BY <1>1 DEF OverrunInv, LimitInv, SessionsInv
  <2> DEFINE A == {t \in PasswordSessions(u) : t <= s}
             B == {t \in PasswordSessions(u) : t > s}
  <2>3. Cardinality(A) < MaxSessions
    BY <2>1 DEF FewBefore
  <2>4. Cardinality(B) + Cardinality(Early(u, s)) <= Cardinality(Workers)
    BY <2>1, <2>2 DEF FewAfter
  <2>5. /\ IsFiniteSet(A) /\ Cardinality(A) \in Nat /\ IsFiniteSet(B) /\ Cardinality(B) \in Nat
        /\ IsFiniteSet(Early(u, s)) /\ Cardinality(Early(u, s)) \in Nat
        /\ Cardinality(Workers) \in Nat
    BY <2>2, PasswordFinite, EarlyFinite
  <2>6. PasswordSessions(u) = A \cup B /\ A \cap B = {}
    <3>1. \A t \in PasswordSessions(u) : t \in Nat
      BY <2>2, TokenFacts, SessionsAssumption DEF PasswordSessions, Unrevoked
    <3> QED
      BY <2>2, <3>1
  <2>7. Storing(u) \subseteq Early(u, s)
    BY <2>1 DEF CountedBy, Storing, Early, At
  <2> HIDE DEF A, B
  <2>8. Cardinality(PasswordSessions(u)) = Cardinality(A) + Cardinality(B)
    <3>1. Cardinality(A \cup B) = Cardinality(A) + Cardinality(B) - Cardinality(A \cap B)
      BY <2>5, FS_Union
    <3>2. Cardinality(A \cap B) = 0
      BY <2>6, FS_EmptySet
    <3> QED
      BY <2>5, <2>6, <3>1, <3>2
  <2>9. Cardinality(Storing(u)) <= Cardinality(Early(u, s)) /\ Cardinality(Storing(u)) \in Nat
    BY <2>5, <2>7, FS_Subset, FS_CardinalityType
  <2> QED
    BY <2>3, <2>4, <2>5, <2>8, <2>9, SessionsAssumption
<1>2. CASE MaxSessions > 0
  <2>1. OverrunInv => OverrunBounded
    BY <1>1, <1>2 DEF OverrunBounded
  <2>2. Init => OverrunInv
    BY <1>2, OverrunInit
  <2>3. OverrunInv /\ [Next]_vars => OverrunInv'
    BY <1>2, OverrunStep
  <2> QED
    BY <2>1, <2>2, <2>3, PTL DEF Spec
<1>3. CASE ~(MaxSessions > 0)
  <2>1. OverrunBounded
    BY <1>3 DEF OverrunBounded
  <2> QED
    BY <2>1, PTL
<1> QED
  BY <1>2, <1>3

\* Only an eviction and the commit of a sweep hold rows.
Unloaded(h) == h.pc \notin {"evict", "sweep_commit"} => h.loaded = {}

LoadedInv == SessionsInv /\ \A w \in Workers : Unloaded(handler[w])

LEMMA LoadedInit == Init => LoadedInv
<1> SUFFICES ASSUME Init PROVE LoadedInv
  OBVIOUS
<1>1. \A w \in Workers : Unloaded(handler[w])
  BY DEF Init, Idle, Unloaded
<1> QED
  BY <1>1, InvInit DEF LoadedInv

LEMMA LoadedStep == LoadedInv /\ [Next]_vars => LoadedInv'
<1> SUFFICES ASSUME LoadedInv, [Next]_vars PROVE LoadedInv'
  OBVIOUS
<1>1. SessionsInv'
  BY InvStep DEF LoadedInv
<1>2. handler \in [Workers -> Handler] /\ \A w \in Workers : Unloaded(handler[w])
  BY DEF LoadedInv, SessionsInv, TypeOK
<1>3. Unloaded(Idle)
  BY DEF Idle, Unloaded
<1>4. ASSUME NEW w \in Workers, Begin(w)
      PROVE  \E x : Unloaded(x) /\ handler' = [handler EXCEPT ![w] = x]
  BY <1>4 DEF Begin, RegisterBegin, SsoBegin, LoginBegin, RefreshBegin, LogoutBegin,
              RevokeTokenBegin, PatchBegin, DeprovisionBegin, Start, Unloaded
<1>5. ASSUME NEW w \in Workers, Step(w) \/ Abandon(w)
      PROVE  \E x : Unloaded(x) /\ handler' = [handler EXCEPT ![w] = x]
  <2>1. PICK y \in Handler : y = handler[w] /\ Unloaded(y)
    BY <1>2
  <2>2. ASSUME NEW point, Goto(w, point), y.pc \notin {"evict", "sweep_commit"}
        PROVE  \E x : Unloaded(x) /\ handler' = [handler EXCEPT ![w] = x]
    <3>1. PICK x : x = [y EXCEPT !.pc = point]
      OBVIOUS
    <3>2. x.loaded = {}
      BY <2>1, <2>2, <3>1 DEF Handler, Unloaded
    <3> QED
      BY <2>1, <2>2, <3>1, <3>2 DEF Goto, Unloaded
  <2>3. ASSUME Finish(w)
        PROVE  \E x : Unloaded(x) /\ handler' = [handler EXCEPT ![w] = x]
    BY <1>3, <2>3 DEF Finish
  <2>4. CASE InsertUser(w) \/ RotateToken(w) \/ ReloadUser(w) \/ BlacklistToken(w)
             \/ SetActive(w)
    BY <2>1, <2>2, <2>3, <2>4
       DEF InsertUser, RotateToken, ReloadUser, BlacklistToken, SetActive, At
  <2>5. CASE Issue(w) \/ SweepCommit(w) \/ Abandon(w)
    BY <2>3, <2>5 DEF Issue, SweepCommit, Abandon
  <2>6. CASE CountSessions(w)
    <3>1. y.pc = "count" /\ y.loaded = {}
      BY <2>1, <2>6 DEF CountSessions, At, Unloaded
    <3>2. \/ \E x : x = [y EXCEPT !.pc = "issue", !.since = Len(tokens)]
                    /\ handler' = [handler EXCEPT ![w] = x]
          \/ \E x, surplus : x = [y EXCEPT !.pc = "evict", !.loaded = surplus,
                                           !.since = Len(tokens)]
                             /\ handler' = [handler EXCEPT ![w] = x]
      BY <1>2, <2>1, <2>6 DEF CountSessions
    <3> QED
      BY <3>1, <3>2 DEF Handler, Unloaded
  <2>7. CASE EvictSessions(w)
    <3>1. PICK x : x = [y EXCEPT !.pc = "issue", !.loaded = {}]
      OBVIOUS
    <3>2. x.loaded = {}
      BY <3>1 DEF Handler
    <3>3. handler' = [handler EXCEPT ![w] = x]
      BY <1>2, <2>1, <2>7, <3>1 DEF EvictSessions
    <3> QED
      BY <3>2, <3>3 DEF Unloaded
  <2>8. CASE SweepRead(w)
    <3>1. PICK read : read = Unrevoked(y.user)
      OBVIOUS
    <3>2. PICK x : x = [y EXCEPT !.pc = "sweep_commit", !.loaded = read]
      OBVIOUS
    <3>3. x.pc = "sweep_commit"
      BY <3>2 DEF Handler
    <3>4. handler' = [handler EXCEPT ![w] = x]
      BY <1>2, <2>1, <2>8, <3>1, <3>2 DEF SweepRead
    <3> QED
      BY <3>3, <3>4 DEF Unloaded
  <2>9. CASE StampToken(w)
    <3>1. PICK x \in Handler : handler' = [handler EXCEPT ![w] = x] /\ x.loaded = y.loaded
      BY <2>1, <2>9, StampMoves DEF LoadedInv, SessionsInv
    <3>2. y.loaded = {}
      BY <2>1, <2>9 DEF StampToken, At, Unloaded
    <3> QED
      BY <3>1, <3>2 DEF Unloaded
  <2> QED
    BY <1>5, <2>4, <2>5, <2>6, <2>7, <2>8, <2>9 DEF Step
<1>6. \A w \in Workers : Unloaded(handler[w])'
  <2>1. ASSUME NEW w \in Workers, Begin(w) \/ Step(w) \/ Abandon(w)
        PROVE  \A v \in Workers : Unloaded(handler[v])'
    <3>1. PICK x : Unloaded(x) /\ handler' = [handler EXCEPT ![w] = x]
      BY <1>4, <1>5, <2>1
    <3> QED
      BY <1>2, <3>1 DEF Unloaded
  <2>2. CASE UNCHANGED handler
    BY <1>2, <2>2 DEF Unloaded
  <2> QED
    BY <2>1, <2>2 DEF Next, Tick, vars
<1> QED
  BY <1>1, <1>6 DEF LoadedInv

\* enforce_session_limit counts expired sessions, and still gives up an unexpired one only
\* when max_concurrent_sessions sessions are unexpired: all that it keeps are younger.
THEOREM LiveOnlyAtCap == Spec => EvictsLiveOnlyAtCap
<1>1. ASSUME LoadedInv, NEW w \in Workers, CountSessions(w),
             NEW t \in handler'[w].loaded, ~RefreshExpired(t)
      PROVE  Cardinality({k \in Unrevoked(handler[w].user) : ~RefreshExpired(k)}) >= MaxSessions
  <2> DEFINE active == Unrevoked(handler[w].user)
             live   == {k \in active : ~RefreshExpired(k)}
  <2>1. handler[w].loaded = {} /\ handler \in [Workers -> Handler]
    BY <1>1 DEF CountSessions, At, LoadedInv, Unloaded, SessionsInv, TypeOK
  <2>2. /\ IsFiniteSet(active) /\ Cardinality(active) \in Nat
        /\ \A k \in active : k \in DOMAIN tokens
    BY <1>1, CountedFinite DEF LoadedInv, SessionsInv, Unrevoked
  <2>3. PICK surplus \in SUBSET active :
           /\ Cardinality(active) >= MaxSessions /\ active # {}
           /\ IsSurplus(surplus, active) /\ t \in surplus
    BY <1>1, <2>1 DEF CountSessions, Handler
  <2>4. CASE MaxSessions = 0
    <3>1. Cardinality(live) \in Nat
      BY <2>2, FS_Subset, FS_CardinalityType
    <3> QED
      BY <2>4, <3>1
  <2>5. CASE MaxSessions > 0
    <3> DEFINE kept == active \ surplus
    <3>1. IsFiniteSet(kept) /\ IsFiniteSet(live)
      BY <2>2, FS_Subset
    <3>2. Cardinality(kept) = MaxSessions - 1
      BY <2>3, <2>5 DEF IsSurplus, Survivors
    <3>3. kept \cup {t} \subseteq live
      <4>1. \A k \in active : tokens[k].created \in Nat
        <5>1. \A k \in DOMAIN tokens : tokens[k] \in Token
          BY <1>1 DEF LoadedInv, SessionsInv, TypeOK
        <5>2. \A k \in DOMAIN tokens : tokens[k].created \in Nat
          BY <5>1, SessionsAssumption DEF Token
        <5> QED
          BY <2>2, <5>2
      <4>2. \A k \in kept : tokens[t].created <= tokens[k].created
        BY <2>3 DEF IsSurplus
      <4>3. now \in Nat /\ RefreshTTL \in Nat
        BY <1>1, SessionsAssumption DEF LoadedInv, SessionsInv, TypeOK
      <4> QED
        BY <1>1, <2>3, <4>1, <4>2, <4>3 DEF RefreshExpired
    <3>4. Cardinality(kept \cup {t}) = MaxSessions /\ IsFiniteSet(kept \cup {t})
      <4>1. t \notin kept
        BY <2>3
      <4>2. Cardinality(kept \cup {t}) = Cardinality(kept) + 1 /\ IsFiniteSet(kept \cup {t})
        BY <3>1, <4>1, FS_AddElement
      <4> QED
        BY <3>2, <4>2, SessionsAssumption
    <3>5. Cardinality(kept \cup {t}) <= Cardinality(live)
      BY <3>1, <3>3, FS_Subset
    <3> QED
      BY <3>1, <3>4, <3>5, FS_CardinalityType, SessionsAssumption
  <2> QED
    BY <2>4, <2>5, SessionsAssumption
<1>2. LoadedInv =>
        [\A w \in Workers : CountSessions(w) =>
            \A t \in handler'[w].loaded : ~RefreshExpired(t) =>
                Cardinality({k \in Unrevoked(handler[w].user) : ~RefreshExpired(k)})
                    >= MaxSessions]_vars
  BY <1>1
<1> QED
  BY <1>2, LoadedInit, LoadedStep, PTL DEF Spec, EvictsLiveOnlyAtCap

-------------------------------------------------------------------------------
(* How often one refresh token can be exchanged.                           *)

RefreshOnly(h) ==
    h.token # 0 /\ h.pc \in {"rotate", "reload", "issue", "commit"} => h.op = "refresh"

ReuseInv ==
    /\ SessionsInv
    /\ ReuseBoundedByConcurrency
    /\ \A w \in Workers : RefreshOnly(handler[w])

LEMMA ReuseFinite ==
    ASSUME TypeOK, NEW t
    PROVE  /\ IsFiniteSet(Successors(t)) /\ Cardinality(Successors(t)) \in Nat
           /\ IsFiniteSet(RefreshersOf(t)) /\ Cardinality(RefreshersOf(t)) \in Nat
           /\ Cardinality(RefreshersOf(t)) <= Cardinality(Workers)
           /\ Cardinality(Workers) \in Nat
<1>1. IsFiniteSet(1..Len(tokens)) /\ Successors(t) \subseteq 1..Len(tokens)
  BY TokenFacts, FS_Interval, SessionsAssumption DEF Successors
<1>2. IsFiniteSet(Successors(t))
  BY <1>1, FS_Subset
<1>3. RefreshersOf(t) \subseteq Workers
  BY DEF RefreshersOf
<1>4. IsFiniteSet(RefreshersOf(t)) /\ Cardinality(RefreshersOf(t)) <= Cardinality(Workers)
  BY <1>3, SessionsAssumption, FS_Subset
<1> QED
  BY <1>2, <1>4, SessionsAssumption, FS_CardinalityType

\* A step that neither starts a refresh nor stores a token.
LEMMA ReuseQuiet ==
    ASSUME ReuseInv, UNCHANGED tokens, NEW w \in Workers, NEW k,
           handler' = [handler EXCEPT ![w] = k],
           k.op = "refresh" => handler[w].op = "refresh" /\ k.token = handler[w].token,
           RefreshOnly(k)
    PROVE  ReuseBoundedByConcurrency' /\ \A v \in Workers : RefreshOnly(handler'[v])
<1>a. handler \in [Workers -> Handler] /\ TypeOK
  BY DEF ReuseInv, SessionsInv, TypeOK
<1>1. \A v \in Workers : handler'[v] = IF v = w THEN k ELSE handler[v]
  BY <1>a
<1>2. ASSUME NEW t \in DOMAIN tokens
      PROVE  Cardinality(Successors(t)') + Cardinality(RefreshersOf(t)') <= Cardinality(Workers)
  <2>1. Successors(t)' = Successors(t)
    BY DEF Successors
  <2>2. RefreshersOf(t)' \subseteq RefreshersOf(t)
    BY <1>1 DEF RefreshersOf
  <2>3. IsFiniteSet(RefreshersOf(t)) /\ Cardinality(RefreshersOf(t)) \in Nat
        /\ Cardinality(Successors(t)) \in Nat /\ Cardinality(Workers) \in Nat
    BY <1>a, ReuseFinite
  <2>4. /\ IsFiniteSet(RefreshersOf(t)')
        /\ Cardinality(RefreshersOf(t)') <= Cardinality(RefreshersOf(t))
    BY <2>2, <2>3, FS_Subset
  <2>5. Cardinality(RefreshersOf(t)') \in Nat
    BY <2>4, FS_CardinalityType
  <2>6. Cardinality(Successors(t)) + Cardinality(RefreshersOf(t)) <= Cardinality(Workers)
    BY DEF ReuseInv, ReuseBoundedByConcurrency
  <2> QED
    BY <2>1, <2>3, <2>4, <2>5, <2>6
<1>3. ReuseBoundedByConcurrency'
  BY <1>2 DEF ReuseBoundedByConcurrency
<1>4. \A v \in Workers : RefreshOnly(handler'[v])
  BY <1>1 DEF ReuseInv
<1> QED
  BY <1>3, <1>4

\* validate_refresh_token lets a handler in only while nothing was exchanged for t.
LEMMA ReuseBegin ==
    ASSUME ReuseInv, NEW w \in Workers, NEW t \in TokenIds, RefreshBegin(w, t)
    PROVE  ReuseBoundedByConcurrency' /\ \A v \in Workers : RefreshOnly(handler'[v])
<1>a. /\ handler \in [Workers -> Handler] /\ TypeOK /\ UNCHANGED tokens
      /\ t \in DOMAIN tokens /\ t \notin revoked
  BY DEF ReuseInv, SessionsInv, TypeOK, RefreshBegin
<1>1. PICK k : k = [op |-> "refresh", pc |-> "rotate", user |-> tokens[t].user, token |-> t,
                    loaded |-> {}, created |-> 0, since |-> IF "refresh" \in Sweeping THEN Len(tokens) ELSE 0]
  OBVIOUS
<1>2. \A v \in Workers : handler'[v] = IF v = w THEN k ELSE handler[v]
  BY <1>a, <1>1 DEF RefreshBegin, Start
<1>3. k.op = "refresh" /\ k.token = t
  BY <1>1
<1>4. t # 0 /\ 0 \notin DOMAIN tokens
  BY <1>a, TokenFacts
<1>5. ASSUME NEW s \in DOMAIN tokens
      PROVE  Cardinality(Successors(s)') + Cardinality(RefreshersOf(s)') <= Cardinality(Workers)
  <2>1. Successors(s)' = Successors(s)
    BY <1>a DEF Successors
  <2>2. /\ Cardinality(Successors(s)) \in Nat /\ Cardinality(Workers) \in Nat
        /\ IsFiniteSet(RefreshersOf(s)) /\ Cardinality(RefreshersOf(s)) \in Nat
    BY <1>a, ReuseFinite
  <2>3. CASE s = t
    <3>1. Successors(t) = {}
      BY <1>a, <1>4 DEF Successors, ReuseInv, SessionsInv, ParentRetired
    <3>2. Cardinality(Successors(t)) = 0
      BY <3>1, FS_EmptySet
    <3>3. RefreshersOf(s)' \subseteq Workers
      BY DEF RefreshersOf
    <3>4. IsFiniteSet(RefreshersOf(s)') /\ Cardinality(RefreshersOf(s)') <= Cardinality(Workers)
      BY <3>3, SessionsAssumption, FS_Subset
    <3>5. Cardinality(RefreshersOf(s)') \in Nat
      BY <3>4, FS_CardinalityType
    <3> QED
      BY <2>1, <2>2, <2>3, <3>2, <3>4, <3>5
  <2>4. CASE s # t
    <3>1. RefreshersOf(s)' \subseteq RefreshersOf(s)
      BY <1>2, <1>3, <2>4 DEF RefreshersOf
    <3>2. /\ IsFiniteSet(RefreshersOf(s)')
          /\ Cardinality(RefreshersOf(s)') <= Cardinality(RefreshersOf(s))
      BY <2>2, <3>1, FS_Subset
    <3>3. Cardinality(RefreshersOf(s)') \in Nat
      BY <3>2, FS_CardinalityType
    <3>4. Cardinality(Successors(s)) + Cardinality(RefreshersOf(s)) <= Cardinality(Workers)
      BY DEF ReuseInv, ReuseBoundedByConcurrency
    <3> QED
      BY <2>1, <2>2, <3>2, <3>3, <3>4
  <2> QED
    BY <2>3, <2>4
<1>6. ReuseBoundedByConcurrency'
  BY <1>a, <1>5 DEF ReuseBoundedByConcurrency
<1>7. \A v \in Workers : RefreshOnly(handler'[v])
  BY <1>2, <1>3 DEF ReuseInv, RefreshOnly
<1> QED
  BY <1>6, <1>7

\* A handler that stores a successor is one that waited to.
LEMMA ReuseIssue ==
    ASSUME ReuseInv, NEW w \in Workers, Issue(w)
    PROVE  ReuseBoundedByConcurrency' /\ \A v \in Workers : RefreshOnly(handler'[v])
<1> DEFINE g == handler[w]
<1>a. handler \in [Workers -> Handler] /\ TypeOK /\ g.token \in 0..MaxTokens
  BY DEF ReuseInv, SessionsInv, TypeOK, Handler
<1>1. PICK n : n = Len(tokens) + 1
  OBVIOUS
<1>2. /\ DOMAIN tokens' = DOMAIN tokens \cup {n}
      /\ n \notin DOMAIN tokens
      /\ \A t \in DOMAIN tokens : tokens'[t] = tokens[t]
      /\ tokens'[n] = Row(g)
  BY <1>a, <1>1, AppendGrows DEF Issue
<1>3. tokens'[n].parent = g.token
  BY <1>2, RowFacts
<1>4. PICK k : k = Idle
  OBVIOUS
<1>5. \A v \in Workers : handler'[v] = IF v = w THEN k ELSE handler[v]
  BY <1>a, <1>4 DEF Issue, Finish
<1>6. k.op = "none" /\ k.token = 0
  BY <1>4 DEF Idle
<1>7. \A s : RefreshersOf(s)' = RefreshersOf(s) \ {w}
  BY <1>5, <1>6 DEF RefreshersOf
<1>8. \A s \in DOMAIN tokens :
          Successors(s)' = IF g.token = s THEN Successors(s) \cup {n} ELSE Successors(s)
  BY <1>2, <1>3 DEF Successors
<1>9. ASSUME NEW s \in DOMAIN tokens
      PROVE  Cardinality(Successors(s)') + Cardinality(RefreshersOf(s)') <= Cardinality(Workers)
  <2>1. /\ IsFiniteSet(Successors(s)) /\ Cardinality(Successors(s)) \in Nat
        /\ IsFiniteSet(RefreshersOf(s)) /\ Cardinality(RefreshersOf(s)) \in Nat
        /\ Cardinality(Workers) \in Nat
    BY <1>a, ReuseFinite
  <2>2. Cardinality(Successors(s)) + Cardinality(RefreshersOf(s)) <= Cardinality(Workers)
    BY DEF ReuseInv, ReuseBoundedByConcurrency
  <2>3. RefreshersOf(s)' = RefreshersOf(s) \ {w}
    BY <1>7
  <2>4. CASE g.token = s
    <3>1. s # 0
      BY <1>a, TokenFacts
    <3>2. w \in RefreshersOf(s)
      BY <2>4, <3>1 DEF ReuseInv, RefreshOnly, RefreshersOf, Issue, At
    <3>3. Cardinality(RefreshersOf(s) \ {w}) = Cardinality(RefreshersOf(s)) - 1
      BY <2>1, <3>2, FS_RemoveElement
    <3>4. n \notin Successors(s)
      BY <1>2 DEF Successors
    <3>5. Cardinality(Successors(s) \cup {n}) = Cardinality(Successors(s)) + 1
      BY <2>1, <3>4, FS_AddElement
    <3>6. Cardinality(Successors(s)') = Cardinality(Successors(s)) + 1
      BY <1>8, <2>4, <3>5
    <3> QED
      BY <2>1, <2>2, <2>3, <3>3, <3>6
  <2>5. CASE g.token # s
    <3>1. Successors(s)' = Successors(s)
      BY <1>8, <2>5
    <3>2. RefreshersOf(s) \ {w} \subseteq RefreshersOf(s)
      OBVIOUS
    <3>3. /\ IsFiniteSet(RefreshersOf(s) \ {w})
          /\ Cardinality(RefreshersOf(s) \ {w}) <= Cardinality(RefreshersOf(s))
      BY <2>1, <3>2, FS_Subset
    <3>4. Cardinality(RefreshersOf(s) \ {w}) \in Nat
      BY <3>3, FS_CardinalityType
    <3> QED
      BY <2>1, <2>2, <2>3, <3>1, <3>3, <3>4
  <2> QED
    BY <2>4, <2>5
<1>10. Cardinality(Successors(n)') + Cardinality(RefreshersOf(n)') <= Cardinality(Workers)
  <2>1. g.token # n /\ n # 0
    <3>1. g.token # 0 => g.token \in DOMAIN tokens
      BY DEF ReuseInv, SessionsInv, SafeHandler, HandlerConsistent
    <3>2. n # 0
      BY <1>a, <1>1, TokenFacts
    <3> QED
      BY <1>2, <3>1, <3>2
  <2>2. \A t \in DOMAIN tokens : tokens[t].parent # n
    <3>1. \A t \in DOMAIN tokens : tokens[t].parent # 0 => tokens[t].parent \in DOMAIN tokens
      BY DEF ReuseInv, SessionsInv, TypeOK, ParentRetired
    <3> QED
      BY <1>2, <2>1, <3>1
  <2>3. Successors(n)' = {}
    BY <1>2, <1>3, <2>1, <2>2 DEF Successors
  <2>4. RefreshersOf(n)' = {}
    <3>1. \A v \in Workers : handler[v].token # 0 => handler[v].token \in DOMAIN tokens
      BY DEF ReuseInv, SessionsInv, SafeHandler, HandlerConsistent
    <3>2. RefreshersOf(n) = {}
      BY <1>2, <2>1, <3>1 DEF RefreshersOf
    <3> QED
      BY <1>7, <3>2
  <2>5. Cardinality({}) = 0 /\ Cardinality(Workers) \in Nat
    BY <1>a, ReuseFinite, FS_EmptySet
  <2> QED
    BY <2>3, <2>4, <2>5
<1>11. ReuseBoundedByConcurrency'
  BY <1>2, <1>9, <1>10 DEF ReuseBoundedByConcurrency
<1>12. \A v \in Workers : RefreshOnly(handler'[v])
  BY <1>5, <1>6 DEF ReuseInv, RefreshOnly
<1> QED
  BY <1>11, <1>12

LEMMA ReuseStep == ReuseInv /\ [Next]_vars => ReuseInv'
<1> SUFFICES ASSUME ReuseInv, [Next]_vars PROVE ReuseInv'
  OBVIOUS
<1> DEFINE Goal == ReuseBoundedByConcurrency' /\ \A v \in Workers : RefreshOnly(handler'[v])
<1>a. SessionsInv'
  BY InvStep DEF ReuseInv
<1>b. handler \in [Workers -> Handler] /\ \A v \in Workers : RefreshOnly(handler[v])
  BY DEF ReuseInv, SessionsInv, TypeOK
<1>c. ASSUME NEW w \in Workers, UNCHANGED tokens, Finish(w) PROVE Goal
  <2>1. PICK k : k = Idle
    OBVIOUS
  <2>2. k.op = "none" /\ k.token = 0
    BY <2>1 DEF Idle
  <2> QED
    BY <1>c, <2>1, <2>2, ReuseQuiet DEF Finish, RefreshOnly
<1>d. ASSUME NEW w \in Workers, NEW op, NEW point, NEW u, NEW t, UNCHANGED tokens,
             Start(w, op, point, u, t), op # "refresh",
             t = 0 \/ point \notin {"rotate", "reload", "issue", "commit"}
      PROVE  Goal
  <2>1. PICK k : k = [op |-> op, pc |-> point, user |-> u, token |-> t, loaded |-> {},
                      created |-> 0, since |-> IF op \in Sweeping THEN Len(tokens) ELSE 0]
    OBVIOUS
  <2>2. k.op = op /\ k.token = t /\ k.pc = point
    BY <2>1
  <2> QED
    BY <1>d, <2>1, <2>2, ReuseQuiet DEF Start, RefreshOnly
<1>e. \* Moving on: neither the operation nor the token changes.
      ASSUME NEW w \in Workers, UNCHANGED tokens, NEW k,
             handler' = [handler EXCEPT ![w] = k],
             k.op = handler[w].op, k.token = handler[w].token,
             k.pc \in {"rotate", "reload", "issue", "commit"} =>
               \/ handler[w].token = 0
               \/ handler[w].pc \in {"rotate", "reload", "issue", "commit"}
      PROVE  Goal
  BY <1>b, <1>e, ReuseQuiet DEF RefreshOnly
<1>f. ASSUME NEW w \in Workers, NEW point, UNCHANGED tokens, Goto(w, point),
             point \in {"rotate", "reload", "issue", "commit"} =>
               \/ handler[w].token = 0
               \/ handler[w].pc \in {"rotate", "reload", "issue", "commit"}
      PROVE  Goal
  <2>1. PICK k : k = [handler[w] EXCEPT !.pc = point]
    OBVIOUS
  <2>2. k.op = handler[w].op /\ k.token = handler[w].token /\ k.pc = point
    BY <1>b, <2>1 DEF Handler
  <2>3. handler' = [handler EXCEPT ![w] = k]
    BY <1>b, <1>f, <2>1 DEF Goto
  <2> QED
    BY <1>e, <1>f, <2>2, <2>3
<1>1. ASSUME NEW w \in Workers, Begin(w) PROVE Goal
  <2>1. ASSUME NEW u \in Users,
               RegisterBegin(w, u) \/ LoginBegin(w, u) \/ SsoBegin(w, u) \/ DeprovisionBegin(w, u)
        PROVE  Goal
    BY <1>d, <2>1 DEF RegisterBegin, LoginBegin, SsoBegin, DeprovisionBegin
  <2>2. ASSUME NEW u \in Users, NEW op \in {"activate", "deactivate"}, PatchBegin(w, u, op)
        PROVE  Goal
    BY <1>d, <2>2 DEF PatchBegin
  <2>3. ASSUME NEW t \in TokenIds, RefreshBegin(w, t) PROVE Goal
    BY <2>3, ReuseBegin
  <2>4. ASSUME NEW t \in TokenIds, LogoutBegin(w, t) PROVE Goal
    BY <1>d, <2>4 DEF LogoutBegin
  <2>5. ASSUME NEW c \in TokenIds, NEW a \in TokenIds, RevokeTokenBegin(w, c, a) PROVE Goal
    BY <1>d, <2>5 DEF RevokeTokenBegin
  <2> QED
    BY <1>1, <2>1, <2>2, <2>3, <2>4, <2>5 DEF Begin
<1>2. ASSUME NEW w \in Workers, Step(w) PROVE Goal
  <2> DEFINE g == handler[w]
  <2>a. g \in Handler
    BY <1>b
  <2>b. g.pc \in {"insert", "count", "evict"} => g.token = 0
    BY DEF ReuseInv, SessionsInv, SafeHandler, HandlerConsistent
  <2>1. CASE InsertUser(w)
    BY <2>1, <2>b, <1>c, <1>f DEF InsertUser, At
  <2>2. CASE CountSessions(w)
    <3>1. g.token = 0 /\ UNCHANGED tokens
      BY <2>2, <2>b DEF CountSessions, At
    <3>2. CASE handler' = [handler EXCEPT ![w].pc = "issue", ![w].since = Len(tokens)]
      <4>1. PICK k : k = [g EXCEPT !.pc = "issue", !.since = Len(tokens)]
        OBVIOUS
      <4>2. k.op = g.op /\ k.token = g.token /\ handler' = [handler EXCEPT ![w] = k]
        BY <1>b, <2>a, <3>2, <4>1 DEF Handler
      <4> QED
        BY <1>e, <3>1, <4>2
    <3>3. ASSUME NEW S, handler' = [handler EXCEPT ![w].pc = "evict", ![w].loaded = S,
                                                   ![w].since = Len(tokens)]
          PROVE  Goal
      <4>1. PICK k : k = [g EXCEPT !.pc = "evict", !.loaded = S, !.since = Len(tokens)]
        OBVIOUS
      <4>2. k.op = g.op /\ k.token = g.token /\ handler' = [handler EXCEPT ![w] = k]
        BY <1>b, <2>a, <3>3, <4>1 DEF Handler
      <4> QED
        BY <1>e, <3>1, <4>2
    <3> QED
      BY <2>2, <3>2, <3>3 DEF CountSessions
  <2>3. CASE EvictSessions(w)
    <3>1. PICK k : k = [g EXCEPT !.pc = "issue", !.loaded = {}]
      OBVIOUS
    <3>2. k.op = g.op /\ k.token = g.token /\ handler' = [handler EXCEPT ![w] = k]
      BY <1>b, <2>a, <2>3, <3>1 DEF EvictSessions, Handler
    <3>3. g.token = 0 /\ UNCHANGED tokens
      BY <2>3, <2>b DEF EvictSessions, At
    <3> QED
      BY <1>e, <3>2, <3>3
  <2>4. CASE Issue(w)
    BY <2>4, ReuseIssue
  <2>5. CASE RotateToken(w)
    BY <2>5, <1>f DEF RotateToken, At
  <2>6. CASE ReloadUser(w)
    BY <2>6, <1>c, <1>f DEF ReloadUser, At
  <2>7. CASE BlacklistToken(w)
    BY <2>7, <1>c, <1>f DEF BlacklistToken
  <2>8. CASE SweepRead(w)
    <3>1. PICK k : k = [g EXCEPT !.pc = "sweep_commit", !.loaded = Unrevoked(g.user)]
      OBVIOUS
    <3>2. /\ k.op = g.op /\ k.token = g.token /\ k.pc = "sweep_commit"
          /\ handler' = [handler EXCEPT ![w] = k]
      BY <1>b, <2>a, <2>8, <3>1 DEF SweepRead, Handler
    <3> QED
      BY <1>e, <2>8, <3>2 DEF SweepRead
  <2>9. CASE SweepCommit(w)
    BY <2>9, <1>c DEF SweepCommit
  <2>10. CASE SetActive(w)
    BY <2>10, <1>c, <1>f DEF SetActive
  <2>11. CASE StampToken(w)
    BY <1>e, <2>11, StampMoves DEF StampToken, At, SessionsInv, ReuseInv
  <2> QED
    BY <1>2, <2>1, <2>2, <2>3, <2>4, <2>5, <2>6, <2>7, <2>8, <2>9, <2>10, <2>11 DEF Step
<1>3. CASE UNCHANGED <<tokens, handler>>
  <2>1. tokens' = tokens /\ handler' = handler
    BY <1>3
  <2>2. \A t \in DOMAIN tokens : Successors(t)' = Successors(t) /\ RefreshersOf(t)' = RefreshersOf(t)
    BY <2>1 DEF Successors, RefreshersOf
  <2>3. ReuseBoundedByConcurrency'
    BY <2>1, <2>2 DEF ReuseInv, ReuseBoundedByConcurrency
  <2> QED
    BY <1>a, <1>b, <2>1, <2>3 DEF ReuseInv
<1>4. ASSUME NEW w \in Workers, Abandon(w) PROVE Goal
  BY <1>4, <1>c DEF Abandon
<1> QED
  BY <1>a, <1>1, <1>2, <1>3, <1>4 DEF Next, Tick, vars, ReuseInv

\* Refreshes that race on one token (validate_refresh_token and the commit of the
\* rotation are separate awaits) win together at most one successor for every handler.
THEOREM ReuseBound == Spec => []ReuseBoundedByConcurrency
<1>1. Init => ReuseInv
  <2> SUFFICES ASSUME Init PROVE ReuseInv
    OBVIOUS
  <2>1. SessionsInv /\ DOMAIN tokens = {}
    BY InvInit DEF Init
  <2>2. \A w \in Workers : RefreshOnly(handler[w])
    BY DEF Init, Idle, RefreshOnly
  <2> QED
    BY <2>1, <2>2 DEF ReuseInv, ReuseBoundedByConcurrency
<1>2. ReuseInv => ReuseBoundedByConcurrency
  BY DEF ReuseInv
<1> QED
  BY <1>1, <1>2, ReuseStep, PTL DEF Spec

-------------------------------------------------------------------------------
(* What the documentation promises, to requests that do not overlap.       *)

\* A handler is refreshing in the next state only if it was, with the same token, or has
\* just found its token unrevoked.
LEMMA WhoRefreshes ==
    ASSUME SessionsInv, [Next]_vars, NEW v \in Workers, handler'[v].op = "refresh"
    PROVE  \/ handler[v].op = "refresh" /\ handler'[v].token = handler[v].token
           \/ handler'[v].token \notin revoked /\ UNCHANGED tokens
<1>a. handler \in [Workers -> Handler] /\ \A w \in Workers : handler[w] \in Handler
  BY DEF SessionsInv, TypeOK
<1> DEFINE Same == handler[v].op = "refresh" /\ handler'[v].token = handler[v].token
<1>1. CASE UNCHANGED handler
  BY <1>1
<1>2. ASSUME NEW w \in Workers, Finish(w) PROVE Same
  BY <1>2, <1>a DEF Finish, Idle
<1>3. ASSUME NEW w \in Workers, NEW point, Goto(w, point) PROVE Same
  BY <1>3, <1>a DEF Goto, Handler
<1>4. ASSUME NEW w \in Workers, NEW op, NEW point, NEW u, NEW t, Start(w, op, point, u, t),
             op # "refresh" \/ (t \notin revoked /\ UNCHANGED tokens)
      PROVE  Same \/ (handler'[v].token \notin revoked /\ UNCHANGED tokens)
  <2>1. PICK k : k = [op |-> op, pc |-> point, user |-> u, token |-> t, loaded |-> {},
                      created |-> 0, since |-> IF op \in Sweeping THEN Len(tokens) ELSE 0]
    OBVIOUS
  <2>2. k.op = op /\ k.token = t
    BY <2>1
  <2>3. handler'[v] = IF v = w THEN k ELSE handler[v]
    BY <1>4, <1>a, <2>1 DEF Start
  <2> QED
    BY <1>4, <2>2, <2>3
<1>5. ASSUME NEW w \in Workers, CountSessions(w) \/ EvictSessions(w) \/ SweepRead(w) PROVE Same
  <2> DEFINE g == handler[w]
  <2>1. ASSUME NEW k, handler' = [handler EXCEPT ![w] = k], k.op = g.op, k.token = g.token
        PROVE  Same
    BY <2>1, <1>a
  <2>2. ASSUME NEW S, NEW point,
               handler' = [handler EXCEPT ![w].pc = point, ![w].loaded = S]
        PROVE  Same
    <3>1. PICK k : k = [g EXCEPT !.pc = point, !.loaded = S]
      OBVIOUS
    <3>2. k.op = g.op /\ k.token = g.token /\ handler' = [handler EXCEPT ![w] = k]
      BY <1>a, <2>2, <3>1 DEF Handler
    <3> QED
      BY <2>1, <3>2
  <2>3. ASSUME NEW S, handler' = [handler EXCEPT ![w].pc = "evict", ![w].loaded = S,
                                                 ![w].since = Len(tokens)]
        PROVE  Same
    <3>1. PICK k : k = [g EXCEPT !.pc = "evict", !.loaded = S, !.since = Len(tokens)]
      OBVIOUS
    <3>2. k.op = g.op /\ k.token = g.token /\ handler' = [handler EXCEPT ![w] = k]
      BY <1>a, <2>3, <3>1 DEF Handler
    <3> QED
      BY <2>1, <3>2
  <2>4. CASE handler' = [handler EXCEPT ![w].pc = "issue", ![w].since = Len(tokens)]
    <3>1. PICK k : k = [g EXCEPT !.pc = "issue", !.since = Len(tokens)]
      OBVIOUS
    <3>2. k.op = g.op /\ k.token = g.token /\ handler' = [handler EXCEPT ![w] = k]
      BY <1>a, <2>4, <3>1 DEF Handler
    <3> QED
      BY <2>1, <3>2
  <2> QED
    BY <1>5, <2>2, <2>3, <2>4 DEF CountSessions, EvictSessions, SweepRead
<1>6. ASSUME NEW w \in Workers, StampToken(w) PROVE Same
  BY <1>6, <1>a, StampMoves DEF SessionsInv
<1>8. ASSUME NEW w \in Workers, Step(w) PROVE Same
  BY <1>2, <1>3, <1>5, <1>6, <1>8 DEF Step, InsertUser, Issue, RotateToken, ReloadUser,
     BlacklistToken, SweepCommit, SetActive
<1>7. ASSUME NEW w \in Workers, Begin(w)
      PROVE  Same \/ (handler'[v].token \notin revoked /\ UNCHANGED tokens)
  <2>1. ASSUME NEW u \in Users,
               RegisterBegin(w, u) \/ LoginBegin(w, u) \/ SsoBegin(w, u) \/ DeprovisionBegin(w, u)
        PROVE  Same \/ (handler'[v].token \notin revoked /\ UNCHANGED tokens)
    BY <1>4, <2>1 DEF RegisterBegin, LoginBegin, SsoBegin, DeprovisionBegin
  <2>2. ASSUME NEW u \in Users, NEW op \in {"activate", "deactivate"}, PatchBegin(w, u, op)
        PROVE  Same \/ (handler'[v].token \notin revoked /\ UNCHANGED tokens)
    BY <1>4, <2>2 DEF PatchBegin
  <2>3. ASSUME NEW t \in TokenIds, RefreshBegin(w, t) \/ LogoutBegin(w, t)
        PROVE  Same \/ (handler'[v].token \notin revoked /\ UNCHANGED tokens)
    BY <1>4, <2>3 DEF RefreshBegin, LogoutBegin
  <2>4. ASSUME NEW c \in TokenIds, NEW a \in TokenIds, RevokeTokenBegin(w, c, a)
        PROVE  Same \/ (handler'[v].token \notin revoked /\ UNCHANGED tokens)
    BY <1>4, <2>4 DEF RevokeTokenBegin
  <2> QED
    BY <1>7, <2>1, <2>2, <2>3, <2>4 DEF Begin
<1> QED
  BY <1>1, <1>2, <1>7, <1>8 DEF Next, Abandon, Tick, vars

\* A token that was exchanged has one successor and nobody refreshes with it.
SingleUseInv ==
    /\ ReuseInv
    /\ \A s, t \in DOMAIN tokens :
          tokens[s].parent = tokens[t].parent /\ tokens[t].parent # 0 => s = t
    /\ \A t \in DOMAIN tokens, w \in Workers :
          handler[w].op = "refresh" /\ tokens[t].parent # 0 => handler[w].token # tokens[t].parent

LEMMA SingleUseStep ==
    SingleUseInv /\ RefreshesApart /\ [Next]_vars => SingleUseInv'
<1> SUFFICES ASSUME SingleUseInv, RefreshesApart, [Next]_vars
             PROVE  SingleUseInv'
  OBVIOUS
<1>a. SessionsInv /\ TypeOK /\ ReuseInv'
  BY ReuseStep DEF SingleUseInv, ReuseInv, SessionsInv
<1>b. \A t \in DOMAIN tokens : tokens[t].parent # 0 => tokens[t].parent \in revoked
  BY <1>a DEF SessionsInv, ParentRetired
<1>1. ASSUME UNCHANGED tokens PROVE SingleUseInv'
  <2>1. ASSUME NEW t \in DOMAIN tokens, NEW w \in Workers, handler'[w].op = "refresh",
               tokens[t].parent # 0
        PROVE  handler'[w].token # tokens[t].parent
    BY <1>a, <1>b, <2>1, WhoRefreshes DEF SingleUseInv
  <2> QED
    BY <1>1, <1>a, <2>1 DEF SingleUseInv
<1>2. ASSUME NEW w \in Workers, Issue(w) PROVE SingleUseInv'
  <2> DEFINE g == handler[w]
             n == Len(tokens) + 1
  <2>1. /\ DOMAIN tokens' = DOMAIN tokens \cup {n} /\ n \notin DOMAIN tokens
        /\ \A t \in DOMAIN tokens : tokens'[t] = tokens[t]
        /\ tokens'[n].parent = g.token
    <3>1. tokens' = Append(tokens, Row(g))
      BY <1>2 DEF Issue
    <3> QED
      BY <1>a, <3>1, AppendGrows, RowFacts
  <2>2. /\ g.token # 0 => g.op = "refresh" /\ g.token \in DOMAIN tokens
        /\ handler'[w] = Idle /\ \A v \in Workers : v # w => handler'[v] = handler[v]
    <3>1. g.token # 0 => g.op = "refresh"
      BY <1>2 DEF Issue, At, SingleUseInv, ReuseInv, RefreshOnly
    <3>2. g.token # 0 => g.token \in DOMAIN tokens
      BY <1>a DEF SessionsInv, SafeHandler, HandlerConsistent
    <3> QED
      BY <1>2, <1>a, <3>1, <3>2 DEF Issue, Finish, TypeOK
  <2> HIDE DEF n
  <2>3. \A t \in DOMAIN tokens : g.token # 0 => tokens[t].parent # g.token
    BY <2>2 DEF SingleUseInv
  <2>4. \A s, t \in DOMAIN tokens' :
          tokens'[s].parent = tokens'[t].parent /\ tokens'[t].parent # 0 => s = t
    BY <2>1, <2>3 DEF SingleUseInv
  <2>5. ASSUME NEW t \in DOMAIN tokens', NEW v \in Workers, handler'[v].op = "refresh",
               tokens'[t].parent # 0
        PROVE  handler'[v].token # tokens'[t].parent
    <3>1. v # w /\ handler'[v] = handler[v]
      BY <2>2, <2>5 DEF Idle
    <3>2. CASE t \in DOMAIN tokens
      BY <2>1, <2>5, <3>1, <3>2 DEF SingleUseInv
    <3>3. CASE t = n
      <4>1. g.token # 0 /\ tokens'[t].parent = g.token
        BY <2>1, <2>5, <3>3
      <4>2. w \in RefreshersOf(g.token)
        BY <2>2, <4>1 DEF RefreshersOf
      <4> QED
        BY <2>2, <2>5, <3>1, <4>1, <4>2 DEF RefreshesApart, RefreshersOf
    <3> QED
      BY <2>1, <3>2, <3>3
  <2> QED
    BY <1>a, <2>4, <2>5 DEF SingleUseInv
<1>3. ASSUME NEW w \in Workers, ~Issue(w), Begin(w) \/ Step(w) \/ Abandon(w)
      PROVE  UNCHANGED tokens
  BY <1>3 DEF Begin, RegisterBegin, LoginBegin, SsoBegin, DeprovisionBegin, PatchBegin,
              RefreshBegin, LogoutBegin, RevokeTokenBegin, Abandon,
              Step, InsertUser, CountSessions, EvictSessions, StampToken, RotateToken, ReloadUser,
              BlacklistToken, SweepRead, SweepCommit, SetActive
<1> QED
  BY <1>1, <1>2, <1>3 DEF Next, Tick, vars

\* Each refresh token is single-use, as the description of /auth/refresh says, as long as
\* no two refreshes with one token are in flight at once, whatever else is.
THEOREM SingleUse == Spec /\ []RefreshesApart => []RefreshTokenSingleUse
<1>1. Init => SingleUseInv
  <2> SUFFICES ASSUME Init PROVE SingleUseInv
    OBVIOUS
  <2>1. SessionsInv /\ DOMAIN tokens = {}
    BY InvInit DEF Init
  <2>2. \A w \in Workers : RefreshOnly(handler[w])
    BY DEF Init, Idle, RefreshOnly
  <2> QED
    BY <2>1, <2>2 DEF SingleUseInv, ReuseInv, ReuseBoundedByConcurrency
<1>2. SingleUseInv => RefreshTokenSingleUse
  <2> SUFFICES ASSUME SingleUseInv, NEW t \in DOMAIN tokens
               PROVE  Cardinality(Successors(t)) <= 1
    BY DEF RefreshTokenSingleUse
  <2>1. t # 0
    BY TokenFacts DEF SingleUseInv, ReuseInv, SessionsInv
  <2>2. CASE Successors(t) = {}
    BY <2>2, FS_EmptySet
  <2>3. CASE Successors(t) # {}
    <3>1. PICK s : s \in Successors(t)
      BY <2>3
    <3>2. Successors(t) = {s}
      BY <2>1, <3>1 DEF Successors, SingleUseInv
    <3> QED
      BY <3>2, FS_Singleton
  <2> QED
    BY <2>2, <2>3
<1> QED
  BY <1>1, <1>2, SingleUseStep, PTL DEF Spec

\* The sessions that the handler is about to give up; without them there is room for the
\* one it will store.
GivenUp(h) ==
    {t \in h.loaded : h.pc = "evict"} \cup {t \in {h.token} : h.pc = "rotate"}

HasRoom(h) ==
    /\ h.pc = "insert" => h.op = "register"
    /\ h.pc = "count" => h.op \in {"register", "login"}
    /\ h.pc \in {"evict", "rotate", "reload", "issue", "commit"} =>
          /\ h.op \in {"register", "login", "refresh"}
          /\ Cardinality(Unrevoked(h.user) \ GivenUp(h)) < MaxSessions

CapInv ==
    /\ SessionsInv
    /\ SessionsCapped
    /\ \A w \in Workers : HasRoom(handler[w])

LEMMA UnrevokedFinite ==
    ASSUME TypeOK, NEW u
    PROVE  IsFiniteSet(Unrevoked(u)) /\ Cardinality(Unrevoked(u)) \in Nat
<1>1. IsFiniteSet(1..Len(tokens)) /\ Unrevoked(u) \subseteq 1..Len(tokens)
  BY TokenFacts, FS_Interval, SessionsAssumption DEF Unrevoked
<1> QED
  BY <1>1, FS_Subset, FS_CardinalityType

\* Only the INSERT of a token adds to the sessions of a user, and only to those of one.
LEMMA SessionsShrink ==
    ASSUME TypeOK, [Next]_vars, NEW u,
           \A w \in Workers : Issue(w) => handler[w].user # u
    PROVE  Unrevoked(u)' \subseteq Unrevoked(u)
<1>1. Grows
  BY NextGrows
<1>2. ASSUME NEW w \in Workers, Issue(w)
      PROVE  \A t \in DOMAIN tokens' : t \in DOMAIN tokens \/ tokens'[t].user # u
  <2>1. PICK x : x = Row(handler[w])
    OBVIOUS
  <2>2. tokens' = Append(tokens, x) /\ x.user # u
    BY <1>2, <2>1, RowFacts DEF Issue
  <2> QED
    BY <2>2, AppendGrows
<1>3. ASSUME NEW w \in Workers, ~Issue(w), Begin(w) \/ Step(w) \/ Abandon(w)
      PROVE  UNCHANGED tokens
  BY <1>3 DEF Begin, RegisterBegin, LoginBegin, SsoBegin, DeprovisionBegin, PatchBegin,
              RefreshBegin, LogoutBegin, RevokeTokenBegin, Abandon,
              Step, InsertUser, CountSessions, EvictSessions, StampToken, RotateToken, ReloadUser,
              BlacklistToken, SweepRead, SweepCommit, SetActive
<1> QED
  BY <1>1, <1>2, <1>3 DEF Unrevoked, Grows, Next, Tick, vars

\* The COMMIT of a revocation takes the tokens from whoever counts them.
LEMMA RoomIsStable ==
    ASSUME CapInv, [Next]_vars, NEW h, HasRoom(h),
           h.pc \in {"evict", "rotate", "reload", "issue", "commit"} =>
               \A w \in Workers : Issue(w) => handler[w].user # h.user
    PROVE  HasRoom(h)'
<1> SUFFICES ASSUME h.pc \in {"evict", "rotate", "reload", "issue", "commit"}
             PROVE  Cardinality(Unrevoked(h.user)' \ GivenUp(h)) < MaxSessions
  BY DEF HasRoom, GivenUp
<1>1. Unrevoked(h.user)' \ GivenUp(h) \subseteq Unrevoked(h.user) \ GivenUp(h)
  BY SessionsShrink DEF CapInv, SessionsInv
<1>2. IsFiniteSet(Unrevoked(h.user) \ GivenUp(h))
  BY UnrevokedFinite, FS_Subset DEF CapInv, SessionsInv
<1>3. Cardinality(Unrevoked(h.user) \ GivenUp(h)) < MaxSessions
  BY DEF HasRoom
<1> QED
  BY <1>1, <1>2, <1>3, SmallerStillBelow, SessionsAssumption

LEMMA RoomOfOthers ==
    ASSUME CapInv, SignInsApart, [Next]_vars, NEW w \in Workers, NEW h,
           handler' = [handler EXCEPT ![w] = h],
           \A v \in Workers : Issue(v) => v = w,
           HasRoom(h)'
    PROVE  \A v \in Workers : HasRoom(handler[v])'
<1> TAKE v \in Workers
<1>a. handler \in [Workers -> Handler]
  BY DEF CapInv, SessionsInv, TypeOK
<1>1. CASE v = w
  <2>1. handler'[v] = h
    BY <1>1, <1>a
  <2> QED
    BY <2>1 DEF HasRoom, GivenUp, Unrevoked
<1>2. CASE v # w
  <2>1. PICK k : k = handler[v]
    OBVIOUS
  <2>2. handler'[v] = k /\ HasRoom(k)
    BY <1>2, <1>a, <2>1 DEF CapInv
  <2>3. ASSUME k.pc \in {"evict", "rotate", "reload", "issue", "commit"}, NEW x \in Workers, Issue(x)
        PROVE  handler[x].user # k.user
    <3>1. x = w
      BY <2>3
    <3>2. k.op \in {"register", "login", "refresh"}
      BY <2>2, <2>3 DEF HasRoom
    <3>3. handler[x].op \in {"register", "login", "refresh"}
      BY <2>3 DEF CapInv, HasRoom, Issue, At
    <3> QED
      BY <1>2, <2>1, <3>1, <3>2, <3>3 DEF SignInsApart
  <2>4. HasRoom(k)'
    BY <2>2, <2>3, RoomIsStable
  <2> QED
    BY <2>2, <2>4 DEF HasRoom, GivenUp, Unrevoked
<1> QED
  BY <1>1, <1>2

\* A record at a point where no room is asked for.
LEMMA NoRoomAsked ==
    ASSUME NEW h, h.pc \notin {"evict", "rotate", "reload", "issue", "commit"},
           h.pc = "insert" => h.op = "register",
           h.pc = "count" => h.op \in {"register", "login"}
    PROVE  HasRoom(h)'
<1> QED
  BY DEF HasRoom

\* Moving on with the same room.
LEMMA RoomKept ==
    ASSUME CapInv, [Next]_vars, NEW w \in Workers, NEW k,
           handler[w].pc \in {"evict", "rotate", "reload", "issue", "commit"},
           k.pc \in {"reload", "issue", "commit"}, k.op = handler[w].op, k.user = handler[w].user,
           Unrevoked(k.user)' \subseteq Unrevoked(k.user) \ GivenUp(handler[w])
    PROVE  HasRoom(k)'
<1>1. GivenUp(k) = {}
  BY DEF GivenUp
<1>2. /\ handler[w].op \in {"register", "login", "refresh"}
      /\ Cardinality(Unrevoked(k.user) \ GivenUp(handler[w])) < MaxSessions
  BY DEF CapInv, HasRoom
<1>3. IsFiniteSet(Unrevoked(k.user) \ GivenUp(handler[w]))
  BY UnrevokedFinite, FS_Subset DEF CapInv, SessionsInv
<1>4. Cardinality(Unrevoked(k.user)') < MaxSessions
  BY <1>2, <1>3, SmallerStillBelow, SessionsAssumption
<1> QED
  BY <1>1, <1>2, <1>4 DEF HasRoom, GivenUp

LEMMA CapBegin ==
    ASSUME CapInv, SignInsApart, "sso" \notin Enabled, [Next]_vars,
           NEW w \in Workers, Begin(w)
    PROVE  \A v \in Workers : HasRoom(handler[v])'
<1> DEFINE Goal == \A v \in Workers : HasRoom(handler[v])'
<1>a. \A v \in Workers : ~Issue(v)
  <2>1. UNCHANGED tokens
    BY DEF Begin, RegisterBegin, LoginBegin, SsoBegin, DeprovisionBegin, PatchBegin,
           RefreshBegin, LogoutBegin, RevokeTokenBegin
  <2>2. ASSUME NEW v \in Workers, Issue(v) PROVE Len(tokens') = Len(tokens) + 1
    BY <2>2, AppendGrows DEF Issue, CapInv, SessionsInv
  <2>3. Len(tokens) \in Nat
    BY TokenFacts, SessionsAssumption DEF CapInv, SessionsInv
  <2> QED
    BY <2>1, <2>2, <2>3
<1>1. ASSUME NEW op, NEW point, NEW u, NEW t, Start(w, op, point, u, t),
             point \notin {"evict", "rotate", "reload", "issue", "commit"},
             point = "insert" => op = "register",
             point = "count" => op \in {"register", "login"}
      PROVE  Goal
  <2>1. PICK k : k = [op |-> op, pc |-> point, user |-> u, token |-> t, loaded |-> {},
                      created |-> 0, since |-> IF op \in Sweeping THEN Len(tokens) ELSE 0]
    OBVIOUS
  <2>2. k.op = op /\ k.pc = point /\ handler' = [handler EXCEPT ![w] = k]
    BY <1>1, <2>1 DEF Start
  <2>3. HasRoom(k)'
    BY <1>1, <2>2, NoRoomAsked
  <2> QED
    BY <1>a, <2>2, <2>3, RoomOfOthers
<1>2. ASSUME NEW u \in Users,
             RegisterBegin(w, u) \/ LoginBegin(w, u) \/ DeprovisionBegin(w, u)
      PROVE  Goal
  BY <1>1, <1>2 DEF RegisterBegin, LoginBegin, DeprovisionBegin
<1>3. ASSUME NEW u \in Users PROVE ~SsoBegin(w, u)
  BY DEF SsoBegin, Start
<1>4. ASSUME NEW u \in Users, NEW op \in {"activate", "deactivate"}, PatchBegin(w, u, op)
      PROVE  Goal
  BY <1>1, <1>4 DEF PatchBegin
<1>5. ASSUME NEW t \in TokenIds, LogoutBegin(w, t) PROVE Goal
  BY <1>1, <1>5 DEF LogoutBegin
<1>6. ASSUME NEW c \in TokenIds, NEW a \in TokenIds, RevokeTokenBegin(w, c, a)
      PROVE  Goal
  BY <1>1, <1>6 DEF RevokeTokenBegin
<1>7. ASSUME NEW t \in TokenIds, RefreshBegin(w, t) PROVE Goal
  <2>1. PICK k : k = [op |-> "refresh", pc |-> "rotate", user |-> tokens[t].user, token |-> t,
                      loaded |-> {},
                      created |-> 0, since |-> IF "refresh" \in Sweeping THEN Len(tokens) ELSE 0]
    OBVIOUS
  <2>2. /\ k.op = "refresh" /\ k.pc = "rotate" /\ k.user = tokens[t].user /\ k.token = t
        /\ handler' = [handler EXCEPT ![w] = k] /\ UNCHANGED <<tokens, revoked>>
    BY <1>7, <2>1 DEF RefreshBegin, Start
  <2>3. /\ t \in Unrevoked(k.user) /\ k.user \in Users
        /\ Unrevoked(k.user)' = Unrevoked(k.user)
    BY <1>7, <2>2, TokenFacts DEF RefreshBegin, Unrevoked, CapInv, SessionsInv
  <2>4. GivenUp(k) = {t}
    BY <2>2 DEF GivenUp
  <2>5. /\ IsFiniteSet(Unrevoked(k.user)) /\ Cardinality(Unrevoked(k.user)) \in Nat
        /\ Cardinality(Unrevoked(k.user)) <= MaxSessions
    BY <2>3, UnrevokedFinite DEF CapInv, SessionsInv, SessionsCapped
  <2>6. Cardinality(Unrevoked(k.user) \ {t}) = Cardinality(Unrevoked(k.user)) - 1
    BY <2>3, <2>5, FS_RemoveElement
  <2>7. Cardinality(Unrevoked(k.user)' \ GivenUp(k)) < MaxSessions
    BY <2>3, <2>4, <2>5, <2>6, SessionsAssumption
  <2>8. HasRoom(k)'
    BY <2>2, <2>7 DEF HasRoom, GivenUp
  <2> QED
    BY <1>a, <2>2, <2>8, RoomOfOthers
<1> QED
  BY <1>2, <1>3, <1>4, <1>5, <1>6, <1>7 DEF Begin

LEMMA CapFinish ==
    ASSUME CapInv, SignInsApart, [Next]_vars, NEW w \in Workers, Finish(w),
           \A v \in Workers : Issue(v) => v = w
    PROVE  \A v \in Workers : HasRoom(handler[v])'
<1>1. PICK k : k = Idle
  OBVIOUS
<1>2. HasRoom(k)'
  BY <1>1, NoRoomAsked DEF Idle
<1> QED
  BY <1>1, <1>2, RoomOfOthers DEF Finish

LEMMA CapStep ==
    ASSUME CapInv, SignInsApart, MaxSessions > 0, [Next]_vars, NEW w \in Workers, Step(w),
           \A v \in Workers : Issue(v) => v = w
    PROVE  \A v \in Workers : HasRoom(handler[v])'
<1> DEFINE Goal == \A v \in Workers : HasRoom(handler[v])'
           g == handler[w]
<1>a. /\ g \in Handler /\ handler \in [Workers -> Handler] /\ HasRoom(g)
      /\ \A u : IsFiniteSet(Unrevoked(u)) /\ Cardinality(Unrevoked(u)) \in Nat
  BY UnrevokedFinite DEF CapInv, SessionsInv, TypeOK
<1>u. PICK u : u = g.user
  OBVIOUS
<1>b. ASSUME NEW point, Goto(w, point), point \notin {"insert", "evict", "rotate", "reload", "issue", "commit"},
             point = "count" => g.op \in {"register", "login"}
      PROVE  Goal
  <2>1. PICK k : k = [g EXCEPT !.pc = point]
    OBVIOUS
  <2>2. k.pc = point /\ k.op = g.op /\ handler' = [handler EXCEPT ![w] = k]
    BY <1>a, <1>b, <2>1 DEF Handler, Goto
  <2>3. HasRoom(k)'
    BY <1>b, <2>2, NoRoomAsked
  <2> QED
    BY <2>2, <2>3, RoomOfOthers
<1>c. ASSUME NEW point, Goto(w, point), point \in {"reload", "issue"},
             g.pc \in {"evict", "rotate", "reload", "issue", "commit"},
             Unrevoked(u)' \subseteq Unrevoked(u) \ GivenUp(g)
      PROVE  Goal
  <2>1. PICK k : k = [g EXCEPT !.pc = point]
    OBVIOUS
  <2>2. /\ k.pc = point /\ k.op = g.op /\ k.user = u
        /\ handler' = [handler EXCEPT ![w] = k]
    BY <1>a, <1>u, <1>c, <2>1 DEF Handler, Goto
  <2>3. HasRoom(k)'
    BY <1>u, <1>c, <2>2, RoomKept
  <2> QED
    BY <2>2, <2>3, RoomOfOthers
<1>1. CASE InsertUser(w)
  <2>1. g.op = "register"
    BY <1>1, <1>a DEF InsertUser, At, HasRoom
  <2> QED
    BY <1>1, <2>1, <1>b, CapFinish DEF InsertUser
<1>2. CASE RotateToken(w)
  <2>1. g.pc = "rotate" /\ Unrevoked(u)' = Unrevoked(u) \ GivenUp(g)
    BY <1>2, <1>u DEF RotateToken, At, Revoke, Unrevoked, GivenUp
  <2> QED
    BY <1>2, <1>c, <2>1 DEF RotateToken
<1>3. CASE ReloadUser(w)
  <2>1. g.pc = "reload" /\ Unrevoked(u)' = Unrevoked(u) \ GivenUp(g)
    BY <1>3, <1>u DEF ReloadUser, At, Unrevoked, GivenUp
  <2> QED
    BY <1>3, <1>c, <2>1, CapFinish DEF ReloadUser
<1>4. CASE EvictSessions(w)
  <2>1. g.pc = "evict" /\ Unrevoked(u)' = Unrevoked(u) \ GivenUp(g)
    BY <1>4, <1>u DEF EvictSessions, At, Revoke, Unrevoked, GivenUp
  <2>2. PICK k : k = [g EXCEPT !.pc = "issue", !.loaded = {}]
    OBVIOUS
  <2>3. /\ k.pc = "issue" /\ k.op = g.op /\ k.user = u
        /\ handler' = [handler EXCEPT ![w] = k]
    BY <1>a, <1>u, <1>4, <2>2 DEF Handler, EvictSessions
  <2>4. HasRoom(k)'
    BY <1>u, <2>1, <2>3, RoomKept
  <2> QED
    BY <2>3, <2>4, RoomOfOthers
<1>5. CASE CountSessions(w)
  <2> DEFINE A == Unrevoked(g.user)
  <2>1. UNCHANGED <<tokens, revoked>> /\ g.pc = "count" /\ g.op \in {"register", "login"}
    BY <1>5, <1>a DEF CountSessions, At, HasRoom
  <2>2. CASE /\ Cardinality(A) < MaxSessions \/ A = {}
             /\ handler' = [handler EXCEPT ![w].pc = "issue", ![w].since = Len(tokens)]
    <3>1. PICK k : k = [g EXCEPT !.pc = "issue", !.since = Len(tokens)]
      OBVIOUS
    <3>2. /\ k.pc = "issue" /\ k.op = g.op /\ k.user = g.user
          /\ handler' = [handler EXCEPT ![w] = k]
      BY <1>a, <2>2, <3>1 DEF Handler
    <3>3. Cardinality(A) < MaxSessions
      <4>1. A = {} => Cardinality(A) = 0
        BY FS_EmptySet
      <4> QED
        BY <2>2, <4>1
    <3>4. Unrevoked(k.user)' \ GivenUp(k) = A
      BY <2>1, <3>2 DEF Unrevoked, GivenUp
    <3>5. HasRoom(k)'
      BY <2>1, <3>2, <3>3, <3>4 DEF HasRoom, GivenUp
    <3> QED
      BY <3>2, <3>5, RoomOfOthers
  <2>3. ASSUME NEW S \in SUBSET A, IsSurplus(S, A),
               handler' = [handler EXCEPT ![w].pc = "evict", ![w].loaded = S,
                                          ![w].since = Len(tokens)]
        PROVE  Goal
    <3>1. PICK k : k = [g EXCEPT !.pc = "evict", !.loaded = S, !.since = Len(tokens)]
      OBVIOUS
    <3>2. /\ k.pc = "evict" /\ k.op = g.op /\ k.user = g.user /\ k.loaded = S
          /\ handler' = [handler EXCEPT ![w] = k]
      BY <1>a, <2>3, <3>1 DEF Handler
    <3>3. Cardinality(A \ S) < MaxSessions
      BY <2>3, SessionsAssumption DEF IsSurplus, Survivors
    <3>4. Unrevoked(k.user)' \ GivenUp(k) = A \ S
      BY <2>1, <3>2 DEF Unrevoked, GivenUp
    <3>5. HasRoom(k)'
      BY <2>1, <3>2, <3>3, <3>4 DEF HasRoom, GivenUp
    <3> QED
      BY <3>2, <3>5, RoomOfOthers
  <2> QED
    BY <1>5, <2>2, <2>3 DEF CountSessions
<1>6. CASE Issue(w) \/ SweepCommit(w)
  BY <1>6, CapFinish DEF Issue, SweepCommit
<1>7. CASE BlacklistToken(w)
  BY <1>7, <1>b, CapFinish DEF BlacklistToken
<1>8. CASE SetActive(w)
  BY <1>8, <1>b, CapFinish DEF SetActive
<1>9. CASE SweepRead(w)
  <2>1. PICK k : k = [g EXCEPT !.pc = "sweep_commit", !.loaded = Unrevoked(g.user)]
    OBVIOUS
  <2>2. k.pc = "sweep_commit" /\ handler' = [handler EXCEPT ![w] = k]
    BY <1>a, <1>9, <2>1 DEF SweepRead, Handler
  <2>3. HasRoom(k)'
    BY <2>2, NoRoomAsked
  <2> QED
    BY <2>2, <2>3, RoomOfOthers
<1>10. CASE StampToken(w)
  <2>1. /\ Unrevoked(u)' = Unrevoked(u) /\ g.pc = "issue" /\ GivenUp(g) = {}
    BY <1>10 DEF StampToken, At, Unrevoked, GivenUp
  <2>2. PICK k \in Handler :
           /\ handler' = [handler EXCEPT ![w] = k]
           /\ k.pc = "commit" /\ k.op = g.op /\ k.user = u
    BY <1>u, <1>10, StampMoves DEF CapInv, SessionsInv
  <2>3. HasRoom(k)'
    BY <1>u, <2>1, <2>2, RoomKept
  <2> QED
    BY <2>2, <2>3, RoomOfOthers
<1> QED
  BY <1>1, <1>2, <1>3, <1>4, <1>5, <1>6, <1>7, <1>8, <1>9, <1>10 DEF Step

LEMMA CapNext ==
    ASSUME "sso" \notin Enabled, MaxSessions > 0
    PROVE  CapInv /\ SignInsApart /\ [Next]_vars => CapInv'
<1> SUFFICES ASSUME CapInv, SignInsApart, [Next]_vars PROVE CapInv'
  OBVIOUS
<1>1. SessionsInv' /\ TypeOK
  BY InvStep DEF CapInv, SessionsInv
<1>2. ASSUME NEW w \in Workers, Issue(w)
      PROVE  /\ \A v \in Workers : Issue(v) => v = w
             /\ \A u : Unrevoked(u)' \subseteq Unrevoked(u) \cup {Len(tokens) + 1}
  <2>1. ASSUME NEW v \in Workers, Issue(v) PROVE v = w
    <3>1. handler \in [Workers -> Handler] /\ handler[v].pc = "commit"
      BY <2>1, <1>1 DEF TypeOK, Issue, At
    <3>2. handler'[v].pc = "idle"
      BY <2>1, <3>1 DEF Issue, Finish, Idle
    <3> QED
      BY <1>2, <3>1, <3>2 DEF Issue, Finish
  <2>2. /\ DOMAIN tokens' = DOMAIN tokens \cup {Len(tokens) + 1}
        /\ \A t \in DOMAIN tokens : tokens'[t] = tokens[t]
        /\ revoked' = revoked
    BY <1>1, <1>2, AppendGrows DEF Issue
  <2> QED
    BY <2>1, <2>2 DEF Unrevoked
<1>3. SessionsCapped'
  <2> SUFFICES ASSUME NEW u \in Users PROVE Cardinality(Unrevoked(u)') <= MaxSessions
    BY DEF SessionsCapped
  <2>1. /\ IsFiniteSet(Unrevoked(u)) /\ Cardinality(Unrevoked(u)) \in Nat
        /\ Cardinality(Unrevoked(u)) <= MaxSessions
    BY <1>1, UnrevokedFinite DEF CapInv, SessionsCapped
  <2>2. CASE \A w \in Workers : Issue(w) => handler[w].user # u
    <3>1. Unrevoked(u)' \subseteq Unrevoked(u)
      BY <1>1, <2>2, SessionsShrink
    <3>2. IsFiniteSet(Unrevoked(u)') /\ Cardinality(Unrevoked(u)') <= Cardinality(Unrevoked(u))
      BY <2>1, <3>1, FS_Subset
    <3>3. Cardinality(Unrevoked(u)') \in Nat
      BY <3>2, FS_CardinalityType
    <3> QED
      BY <2>1, <3>2, <3>3, SessionsAssumption
  <2>3. ASSUME NEW w \in Workers, Issue(w), handler[w].user = u
        PROVE  Cardinality(Unrevoked(u)') <= MaxSessions
    <3>1. Cardinality(Unrevoked(u)) < MaxSessions
      <4>1. GivenUp(handler[w]) = {} /\ handler[w].pc = "commit"
        BY <2>3 DEF GivenUp, Issue, At
      <4>2. Cardinality(Unrevoked(u) \ GivenUp(handler[w])) < MaxSessions
        BY <2>3, <4>1 DEF CapInv, HasRoom
      <4> QED
        BY <4>1, <4>2
    <3> DEFINE n == Len(tokens) + 1
    <3>2. Unrevoked(u)' \subseteq Unrevoked(u) \cup {n}
      BY <1>2, <2>3
    <3>3. /\ IsFiniteSet(Unrevoked(u) \cup {n})
          /\ Cardinality(Unrevoked(u) \cup {n})
               = IF n \in Unrevoked(u) THEN Cardinality(Unrevoked(u)) ELSE Cardinality(Unrevoked(u)) + 1
      BY <2>1, FS_AddElement
    <3>4. /\ IsFiniteSet(Unrevoked(u)')
          /\ Cardinality(Unrevoked(u)') <= Cardinality(Unrevoked(u) \cup {n})
      BY <3>2, <3>3, FS_Subset
    <3>5. Cardinality(Unrevoked(u)') \in Nat
      BY <3>4, FS_CardinalityType
    <3> QED
      BY <2>1, <3>1, <3>3, <3>4, <3>5, SessionsAssumption
  <2> QED
    BY <2>2, <2>3
<1>4. \A v \in Workers : HasRoom(handler[v])'
  <2>1. ASSUME NEW w \in Workers, Begin(w) PROVE \A v \in Workers : HasRoom(handler[v])'
    BY <2>1, CapBegin
  <2>2. ASSUME NEW w \in Workers, Step(w), \A v \in Workers : ~Issue(v)
        PROVE  \A v \in Workers : HasRoom(handler[v])'
    BY <2>2, CapStep
  <2>3. ASSUME NEW w \in Workers, Issue(w)
        PROVE  \A v \in Workers : HasRoom(handler[v])'
    BY <2>3, <1>2, CapStep DEF Step
  <2>4. ASSUME UNCHANGED <<tokens, revoked, handler>>, NEW v \in Workers
        PROVE  HasRoom(handler[v])'
    BY <2>4 DEF CapInv, HasRoom, GivenUp, Unrevoked
  <2>5. ASSUME NEW w \in Workers, Abandon(w), \A v \in Workers : ~Issue(v)
        PROVE  \A v \in Workers : HasRoom(handler[v])'
    BY <2>5, CapFinish DEF Abandon
  <2> QED
    BY <2>1, <2>2, <2>3, <2>4, <2>5 DEF Next, Tick, vars
<1> QED
  BY <1>1, <1>3, <1>4 DEF CapInv

\* docs/configuration.md promises at most AUTH_MAX_CONCURRENT_SESSIONS active refresh
\* tokens for a user.  The promise is kept for every positive limit and any number of
\* users and handlers as long as one user's sign-ins and refreshes do not overlap, and
\* nobody signs in by SSO, which never counts.
THEOREM SessionCap ==
    ASSUME "sso" \notin Enabled, MaxSessions > 0
    PROVE  Spec /\ []SignInsApart => []SessionsCapped
<1>1. Init => CapInv
  <2> SUFFICES ASSUME Init PROVE CapInv
    OBVIOUS
  <2>1. SessionsInv /\ DOMAIN tokens = {}
    BY InvInit DEF Init
  <2>2. \A u \in Users : Cardinality(Unrevoked(u)) <= MaxSessions
    <3>1. \A u \in Users : Unrevoked(u) = {}
      BY <2>1 DEF Unrevoked
    <3> QED
      BY <3>1, FS_EmptySet, SessionsAssumption
  <2>3. \A w \in Workers : HasRoom(handler[w])
    BY DEF Init, Idle, HasRoom
  <2> QED
    BY <2>1, <2>2, <2>3 DEF CapInv, SessionsCapped
<1>2. CapInv => SessionsCapped
  BY DEF CapInv
<1> QED
  BY <1>1, <1>2, CapNext, PTL DEF Spec

-------------------------------------------------------------------------------
(* Deprovisioned users.                                                    *)

\* Past the check of is_active, a sign-in or a refresh serves an active account.
ForActive(h) == h.pc \in {"count", "evict", "issue", "commit"} => account[h.user] = "active"

ActiveInv == TypeOK /\ \A w \in Workers : ForActive(handler[w])

\* What a handler that moves on has to show: the others serve the accounts they served.
LEMMA ForActiveMove ==
    ASSUME ActiveInv, NEW w \in Workers, NEW h,
           handler' = [handler EXCEPT ![w] = h], UNCHANGED account, ForActive(h)
    PROVE  \A v \in Workers : ForActive(handler[v])'
BY DEF ActiveInv, TypeOK, ForActive

LEMMA ActiveBegin ==
    ASSUME ActiveInv, "sso" \notin Enabled, NEW w \in Workers, Begin(w)
    PROVE  \A v \in Workers : ForActive(handler[v])'
<1>1. PICK op, point, u, t :
        /\ Start(w, op, point, u, t) /\ UNCHANGED account
        /\ point \in {"count", "evict", "issue", "commit"} => account[u] = "active"
  <2>1. CASE \E u \in Users : LoginBegin(w, u)
    BY <2>1 DEF LoginBegin
  <2>2. CASE \E u \in Users : RegisterBegin(w, u)
    BY <2>2 DEF RegisterBegin
  <2>3. ~ \E u \in Users : SsoBegin(w, u)
    BY DEF SsoBegin, Start
  <2>4. CASE \E u \in Users : DeprovisionBegin(w, u)
    BY <2>4 DEF DeprovisionBegin
  <2>5. CASE \E u \in Users, op \in {"activate", "deactivate"} : PatchBegin(w, u, op)
    BY <2>5 DEF PatchBegin
  <2>6. CASE \E t \in TokenIds : RefreshBegin(w, t)
    BY <2>6 DEF RefreshBegin
  <2>7. CASE \E t \in TokenIds : LogoutBegin(w, t)
    BY <2>7 DEF LogoutBegin
  <2>8. CASE \E t, a \in TokenIds : RevokeTokenBegin(w, t, a)
    BY <2>8 DEF RevokeTokenBegin
  <2> QED
    BY <2>1, <2>2, <2>3, <2>4, <2>5, <2>6, <2>7, <2>8 DEF Begin
<1>2. PICK h : h = [op |-> op, pc |-> point, user |-> u, token |-> t, loaded |-> {},
                    created |-> 0, since |-> IF op \in Sweeping THEN Len(tokens) ELSE 0]
  OBVIOUS
<1>3. handler' = [handler EXCEPT ![w] = h] /\ h.pc = point /\ h.user = u
  BY <1>1, <1>2 DEF Start
<1> QED
  BY <1>1, <1>3, ForActiveMove DEF ForActive

LEMMA ActiveStep ==
    ASSUME ActiveInv, DeactivationsApart, NEW w \in Workers, Step(w) \/ Abandon(w)
    PROVE  \A v \in Workers : ForActive(handler[v])'
<1>0. PICK h \in Handler : h = handler[w] /\ ForActive(h)
  BY DEF ActiveInv, TypeOK
<1>1. ASSUME Finish(w), UNCHANGED account PROVE \A v \in Workers : ForActive(handler[v])'
  <2>1. ForActive(Idle)
    BY DEF ForActive, Idle
  <2> QED
    BY <1>1, <2>1, ForActiveMove DEF Finish
<1>2. ASSUME NEW point, Goto(w, point), UNCHANGED account,
             point \in {"count", "evict", "issue", "commit"} => account[h.user] = "active"
      PROVE  \A v \in Workers : ForActive(handler[v])'
  <2>1. PICK k : k = [h EXCEPT !.pc = point]
    OBVIOUS
  <2>2. k.pc = point /\ k.user = h.user
    BY <2>1 DEF Handler
  <2>3. handler' = [handler EXCEPT ![w] = k]
    BY <1>0, <1>2, <2>1 DEF Goto, ActiveInv, TypeOK
  <2> QED
    BY <1>2, <2>2, <2>3, ForActiveMove DEF ForActive
<1>3. CASE InsertUser(w)
  <2>1. CASE account[h.user] # "absent"
    BY <1>0, <1>1, <1>3, <2>1 DEF InsertUser
  <2>2. CASE account[h.user] = "absent"
    <3>1. PICK point : Goto(w, point)
      BY <1>0, <1>3, <2>2 DEF InsertUser
    <3>2. account' = [account EXCEPT ![h.user] = "active"] /\ h.user \in Users
      BY <1>0, <1>3, <2>2 DEF InsertUser, Handler
    <3>3. ASSUME NEW v \in Workers PROVE ForActive(handler[v])'
      <4>1. handler'[v].user = handler[v].user /\ (v # w => handler'[v] = handler[v])
        BY <3>1 DEF Goto, ActiveInv, TypeOK, Handler
      <4>2. account'[handler[v].user] = "active" \/ account'[handler[v].user] = account[handler[v].user]
        BY <3>2 DEF ActiveInv, TypeOK, Handler
      <4>3. v = w => account'[handler[v].user] = "active"
        BY <1>0, <3>2 DEF ActiveInv, TypeOK
      <4> QED
        BY <4>1, <4>2, <4>3 DEF ForActive, ActiveInv
    <3> QED
      BY <3>3
  <2> QED
    BY <2>1, <2>2
<1>4. CASE CountSessions(w) \/ EvictSessions(w)
  <2>1. account[h.user] = "active" /\ UNCHANGED account
    BY <1>0, <1>4 DEF CountSessions, EvictSessions, At, ForActive
  <2>2. PICK k : k.user = h.user /\ handler' = [handler EXCEPT ![w] = k]
    <3>1. CASE EvictSessions(w)
      <4>1. PICK k : k = [h EXCEPT !.pc = "issue", !.loaded = {}]
        OBVIOUS
      <4>2. k.user = h.user
        BY <4>1 DEF Handler
      <4>3. handler' = [handler EXCEPT ![w] = k]
        BY <1>0, <3>1, <4>1 DEF EvictSessions, ActiveInv, TypeOK
      <4> QED
        BY <4>2, <4>3
    <3>2. CASE CountSessions(w)
      <4>1. \/ \E k : k = [h EXCEPT !.pc = "issue", !.since = Len(tokens)]
                      /\ handler' = [handler EXCEPT ![w] = k]
            \/ \E k, surplus : k = [h EXCEPT !.pc = "evict", !.loaded = surplus,
                                             !.since = Len(tokens)]
                               /\ handler' = [handler EXCEPT ![w] = k]
        BY <1>0, <3>2 DEF CountSessions, ActiveInv, TypeOK
      <4> QED
        BY <4>1 DEF Handler
    <3> QED
      BY <1>4, <3>1, <3>2
  <2> QED
    BY <2>1, <2>2, ForActiveMove DEF ForActive
<1>5. CASE Issue(w) \/ SweepCommit(w) \/ Abandon(w)
  BY <1>1, <1>5 DEF Issue, SweepCommit, Abandon
<1>6. CASE RotateToken(w) \/ BlacklistToken(w)
  BY <1>1, <1>2, <1>6 DEF RotateToken, BlacklistToken
<1>7. CASE ReloadUser(w)
  BY <1>0, <1>1, <1>2, <1>7 DEF ReloadUser
<1>8. CASE SweepRead(w)
  <2>1. PICK read : read = Unrevoked(h.user)
    OBVIOUS
  <2>2. PICK k : k = [h EXCEPT !.pc = "sweep_commit", !.loaded = read]
    OBVIOUS
  <2>3. k.pc = "sweep_commit"
    BY <2>2 DEF Handler
  <2>4. handler' = [handler EXCEPT ![w] = k] /\ UNCHANGED account
    BY <1>0, <1>8, <2>1, <2>2 DEF SweepRead, ActiveInv, TypeOK
  <2> QED
    BY <2>3, <2>4, ForActiveMove DEF ForActive
<1>9. CASE SetActive(w)
  <2>1. /\ account' = [account EXCEPT ![h.user] = Target(h.op)]
        /\ h.pc = "set_active" /\ h.user \in Users
    BY <1>0, <1>9 DEF SetActive, At, Handler
  <2>2. ASSUME NEW v \in Workers, v # w PROVE ForActive(handler[v])'
    <3>1. handler'[v] = handler[v] /\ handler[v].user \in Users
      BY <1>9, <2>2 DEF SetActive, Goto, Finish, ActiveInv, TypeOK, Handler
    <3>2. handler[v].pc \in {"count", "evict", "issue", "commit"} /\ handler[v].user = h.user
            => Target(h.op) = "active"
      BY <1>0, <2>1 DEF DeactivationsApart, At, Target
    <3>3. handler[v].user # h.user => account'[handler[v].user] = account[handler[v].user]
      BY <2>1, <3>1 DEF ActiveInv, TypeOK
    <3>4. handler[v].user = h.user => account'[handler[v].user] = Target(h.op)
      BY <2>1, <3>1 DEF ActiveInv, TypeOK
    <3> QED
      BY <3>1, <3>2, <3>3, <3>4 DEF ForActive, ActiveInv
  <2>3. handler'[w].pc \in {"sweep", "idle"}
    <3>1. CASE Goto(w, "sweep")
      BY <3>1, <1>0 DEF Goto, ActiveInv, TypeOK, Handler
    <3>2. CASE Finish(w)
      BY <3>2 DEF Finish, Idle, ActiveInv, TypeOK
    <3> QED
      BY <1>9, <3>1, <3>2 DEF SetActive
  <2> QED
    BY <2>2, <2>3 DEF ForActive
<1>10. CASE StampToken(w)
  <2>1. account[h.user] = "active" /\ UNCHANGED account
    BY <1>0, <1>10 DEF StampToken, At, ForActive
  <2>2. PICK k \in Handler : k.user = h.user /\ handler' = [handler EXCEPT ![w] = k]
    BY <1>0, <1>10, StampMoves DEF ActiveInv
  <2> QED
    BY <2>1, <2>2, ForActiveMove DEF ForActive
<1> QED
  BY <1>3, <1>4, <1>5, <1>6, <1>7, <1>8, <1>9, <1>10 DEF Step

\* docs/scim.md says that deprovisioning immediately prevents further access.  No token
\* is issued to a user who is not active as long as nobody signs in by SSO, which never
\* looks at is_active, and no account is switched off while a sign-in of its user is
\* between the check and the answer.
THEOREM InactiveRefused ==
    ASSUME "sso" \notin Enabled
    PROVE  Spec /\ []DeactivationsApart => NoTokensForInactiveUser
<1>1. Init => ActiveInv
  <2> SUFFICES ASSUME Init PROVE ActiveInv
    OBVIOUS
  <2>1. TypeOK
    BY InvInit DEF SessionsInv
  <2> QED
    BY <2>1 DEF Init, Idle, ForActive, ActiveInv
<1>2. ActiveInv /\ SessionsInv /\ DeactivationsApart /\ [Next]_vars => ActiveInv'
  <2> SUFFICES ASSUME ActiveInv, SessionsInv, DeactivationsApart, [Next]_vars
               PROVE  ActiveInv'
    OBVIOUS
  <2>1. TypeOK'
    BY InvStep DEF SessionsInv
  <2>2. UNCHANGED <<handler, account>> => \A v \in Workers : ForActive(handler[v])'
    BY DEF ActiveInv, ForActive
  <2>3. \A v \in Workers : ForActive(handler[v])'
    BY <2>2, ActiveBegin, ActiveStep DEF Next, Tick, vars
  <2> QED
    BY <2>1, <2>3 DEF ActiveInv
<1>3. ActiveInv => [\A w \in Workers : Issue(w) => account[handler[w].user] = "active"]_vars
  BY DEF ActiveInv, ForActive, Issue, At
<1> QED
  BY <1>1, <1>2, <1>3, Invariance, PTL DEF Spec, NoTokensForInactiveUser

===============================================================================
