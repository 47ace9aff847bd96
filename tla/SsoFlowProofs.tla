---------------------------- MODULE SsoFlowProofs ----------------------------
(***************************************************************************)
(* Proofs about module SsoFlow, for any providers, subjects and e-mails,   *)
(* any number of handlers, and any bound on states and codes.              *)
(***************************************************************************)
EXTENDS SsoFlow, SequenceTheorems, FiniteSetTheorems, TLAPS

-------------------------------------------------------------------------------
(* The inductive invariant.                                                *)

\* What a handler carries along: a provider and a state that exist, a user that exists
\* once it was found or made, and from the link on, the link itself.
SoundHandler(h) ==
    /\ h \in SignIn
    /\ h.pc # "idle" =>
         h.provider \in Providers /\ h.state \in DOMAIN states /\ h.code \in Code
    /\ h.pc = "insert_user" => h.user \in Emails
    /\ h.pc \in {"link", "touch", "issue"} => h.user \in users
    /\ h.pc \in {"touch", "issue"} =>
         \/ links[<<h.provider, h.code.subject>>] = h.user
         \/ provider[h.provider] = "deleted"

\* The handlers that read state s before it was deleted, and those of them that have
\* deleted it, and that have spent their code.
Past(s) == {w \in Workers : /\ signin[w].state = s
                            /\ signin[w].pc \notin {"idle", "read_state", "burn_expired"}}
Burnt(s) == {w \in Past(s) : signin[w].pc # "burn"}
Spent(s) == {w \in Past(s) : signin[w].pc \notin {"burn", "exchange"}}

CodesFor(s) == {c \in redeemed : c.nonce = s}

\* A state that is still there has signed nobody in and nobody is past its deletion.
\* Every handler that will sign in counts as if it had: StateReuseBounded and
\* SignInsAuthenticated are not inductive without those in flight.
SoundState(s) ==
    /\ states[s].live => states[s].signins = 0 /\ Burnt(s) = {}
    /\ states[s].signins + Cardinality(Past(s)) <= Cardinality(Workers)
    /\ states[s].signins + Cardinality(Spent(s)) <= Cardinality(CodesFor(s))

SsoInv ==
    /\ TypeOK
    /\ \A w \in Workers : SoundHandler(signin[w])
    /\ IsFiniteSet(redeemed) /\ Cardinality(redeemed) <= MaxCodes
    /\ \A s \in DOMAIN states : SoundState(s)

-------------------------------------------------------------------------------
(* What the tables and the handlers hold.                                  *)

LEMMA StateFacts ==
    ASSUME TypeOK
    PROVE  /\ Len(states) \in Nat /\ Len(states) <= MaxStates
           /\ DOMAIN states = 1..Len(states)
           /\ DOMAIN states \subseteq StateIds
           /\ DOMAIN states \subseteq 0..MaxStates
           /\ \A s \in DOMAIN states :
                /\ states[s] \in SsoState
                /\ states[s].signins \in Nat /\ states[s].live \in BOOLEAN
<1>1. \A s \in DOMAIN states : states[s] \in SsoState
  BY DEF TypeOK
<1>2. /\ Len(states) \in Nat /\ Len(states) <= MaxStates
      /\ DOMAIN states = 1..Len(states)
  BY DEF TypeOK
<1> QED
  BY <1>1, <1>2, SsoAssumption DEF SsoState, StateIds

LEMMA MapIsSequence ==
    ASSUME TypeOK, NEW f \in [DOMAIN states -> SsoState]
    PROVE  f \in Seq(SsoState) /\ Len(f) = Len(states) /\ DOMAIN f = DOMAIN states
<1> QED
  BY StateFacts

LEMMA IdleIsSound == Idle \in SignIn /\ SoundHandler(Idle)
<1>1. Idle \in SignIn
  BY SsoAssumption DEF Idle, SignIn, Points
<1> QED
  BY <1>1 DEF SoundHandler, Idle

LEMMA IdleIsSoundNext == SoundHandler(Idle)'
<1>1. Idle \in SignIn
  BY IdleIsSound
<1> QED
  BY <1>1 DEF SoundHandler, Idle

LEMMA Finite ==
    /\ Cardinality(Workers) \in Nat
    /\ \A S \in SUBSET Workers : /\ IsFiniteSet(S) /\ Cardinality(S) \in Nat
                                 /\ Cardinality(S) <= Cardinality(Workers)
                                 /\ \A T \in SUBSET S : Cardinality(T) <= Cardinality(S)
<1>1. IsFiniteSet(Workers)
  BY SsoAssumption
<1>2. \A S \in SUBSET Workers : IsFiniteSet(S) /\ Cardinality(S) <= Cardinality(Workers)
  BY <1>1, FS_Subset
<1> QED
  BY <1>1, <1>2, FS_Subset, FS_CardinalityType

LEMMA Counted ==
    ASSUME NEW s
    PROVE  /\ Past(s) \in SUBSET Workers /\ Spent(s) \in SUBSET Past(s)
           /\ Spent(s) \in SUBSET Burnt(s) /\ Burnt(s) \in SUBSET Past(s)
           /\ Past(s)' \in SUBSET Workers /\ Spent(s)' \in SUBSET Past(s)'
           /\ Cardinality(Past(s)) \in Nat /\ Cardinality(Spent(s)) \in Nat
           /\ Cardinality(Past(s)') \in Nat /\ Cardinality(Spent(s)') \in Nat
           /\ Cardinality(Past(s)') <= Cardinality(Workers)
           /\ IsFiniteSet(Past(s)) /\ IsFiniteSet(Spent(s))
<1>1. /\ Past(s) \in SUBSET Workers /\ Spent(s) \in SUBSET Past(s)
      /\ Spent(s) \in SUBSET Burnt(s) /\ Burnt(s) \in SUBSET Past(s)
      /\ Past(s)' \in SUBSET Workers /\ Spent(s)' \in SUBSET Past(s)'
  BY DEF Past, Burnt, Spent
<1>2. Spent(s) \in SUBSET Workers /\ Spent(s)' \in SUBSET Workers
  BY <1>1
<1> QED
  BY <1>1, <1>2, Finite

LEMMA CodesCounted ==
    ASSUME SsoInv, NEW s
    PROVE  /\ IsFiniteSet(CodesFor(s)) /\ Cardinality(CodesFor(s)) \in Nat
           /\ Cardinality(redeemed) \in Nat
           /\ Cardinality(CodesFor(s)) <= MaxCodes
<1>1. CodesFor(s) \in SUBSET redeemed /\ IsFiniteSet(redeemed)
  BY DEF CodesFor, SsoInv
<1>2. /\ IsFiniteSet(CodesFor(s)) /\ Cardinality(CodesFor(s)) <= Cardinality(redeemed)
      /\ Cardinality(CodesFor(s)) \in Nat /\ Cardinality(redeemed) \in Nat
  BY <1>1, FS_Subset, FS_CardinalityType
<1> QED
  BY <1>2, SsoAssumption DEF SsoInv

-------------------------------------------------------------------------------
(* What every step keeps, and so what a suspended handler relies on.       *)

Grows ==
    /\ users \subseteq users'
    /\ DOMAIN states \subseteq DOMAIN states'
    /\ \A p \in Providers : provider[p] = "deleted" => provider'[p] = "deleted"
    /\ \A i \in Identities : links[i] # None =>
          links'[i] = links[i] \/ provider'[i[1]] = "deleted"

LEMMA AuthorizeAppends ==
    ASSUME TypeOK, NEW p \in Providers, Authorize(p)
    PROVE  LET new == [provider |-> p, age |-> 0, live |-> TRUE, signins |-> 0]
           IN  /\ states' \in Seq(SsoState)
               /\ Len(states') = Len(states) + 1
               /\ DOMAIN states' = DOMAIN states \cup {Len(states) + 1}
               /\ Len(states) + 1 \notin DOMAIN states
               /\ \A s \in DOMAIN states : states'[s] = states[s]
               /\ states'[Len(states) + 1] = new
<1> DEFINE new == [provider |-> p, age |-> 0, live |-> TRUE, signins |-> 0]
           n == Len(states)
<1>1. new \in SsoState
  BY SsoAssumption DEF SsoState
<1>2. states \in Seq(SsoState) /\ n \in Nat /\ DOMAIN states = 1..n
  BY StateFacts DEF TypeOK
<1>3. states' = Append(states, new)
  BY DEF Authorize
<1> HIDE DEF new
<1>4. /\ states' \in Seq(SsoState)
      /\ DOMAIN states' = 1..(n + 1)
      /\ Len(states') = n + 1
      /\ \A i \in 1..n : states'[i] = states[i]
      /\ states'[n + 1] = new
  BY <1>1, <1>2, <1>3
<1> QED
  BY <1>2, <1>4 DEF new

LEMMA NextGrows ==
    ASSUME SsoInv, [Next]_vars
    PROVE  Grows
<1> USE DEF SsoInv
<1>1. ASSUME UNCHANGED <<provider, users, links>>, DOMAIN states \subseteq DOMAIN states'
      PROVE  Grows
  BY <1>1 DEF Grows
<1>2. ASSUME NEW p \in Providers, NEW status \in {"active", "inactive"}, SetProvider(p, status)
      PROVE  Grows
  BY <1>2 DEF SetProvider, Grows, TypeOK
<1>3. ASSUME NEW p \in Providers, DeleteProvider(p) PROVE Grows
  <2>1. DOMAIN states' = DOMAIN states
    BY <1>3 DEF DeleteProvider
  <2>2. \A i \in Identities : links'[i] = links[i] \/ provider'[i[1]] = "deleted"
    BY <1>3 DEF DeleteProvider, TypeOK, Identities
  <2> QED
    BY <1>3, <2>1, <2>2 DEF DeleteProvider, Grows, TypeOK
<1>4. ASSUME NEW p \in Providers, Authorize(p) PROVE Grows
  BY <1>1, <1>4, AuthorizeAppends DEF Authorize
<1>5. ASSUME NEW e \in Emails, CreateUser(e) PROVE Grows
  BY <1>5 DEF CreateUser, Grows
<1>6. CASE Tick
  BY <1>1, <1>6 DEF Tick
<1>7. ASSUME NEW w \in Workers, Link(w) PROVE Grows
  BY <1>7 DEF Link, Grows, TypeOK
<1>8. ASSUME NEW w \in Workers, InsertUser(w) PROVE Grows
  BY <1>8 DEF InsertUser, Grows
<1>9. ASSUME NEW w \in Workers, BurnState(w) \/ Issue(w) PROVE Grows
  BY <1>1, <1>9 DEF BurnState, Issue
<1>10. ASSUME NEW w \in Workers, Step(w), ~Link(w), ~InsertUser(w), ~BurnState(w), ~Issue(w)
       PROVE  Grows
  BY <1>1, <1>10 DEF Step, TokenBegin, ReadState, Exchange, Lookup, Touch, FindUser, Abandon
<1>11. CASE UNCHANGED vars
  BY <1>1, <1>11 DEF vars
<1> QED
  BY <1>2, <1>3, <1>4, <1>5, <1>6, <1>7, <1>8, <1>9, <1>10, <1>11 DEF Next

LEMMA SoundIsStable ==
    ASSUME SsoInv, [Next]_vars, NEW h, SoundHandler(h)
    PROVE  SoundHandler(h)'
<1>1. Grows
  BY NextGrows
<1>2. h.pc \in {"touch", "issue"} =>
        \/ links'[<<h.provider, h.code.subject>>] = h.user
        \/ provider'[h.provider] = "deleted"
  <2> SUFFICES ASSUME h.pc \in {"touch", "issue"}
               PROVE  \/ links'[<<h.provider, h.code.subject>>] = h.user
                      \/ provider'[h.provider] = "deleted"
    OBVIOUS
  <2>1. /\ h.provider \in Providers /\ h.code \in Code /\ h.user \in users
        /\ \/ links[<<h.provider, h.code.subject>>] = h.user
           \/ provider[h.provider] = "deleted"
    BY DEF SoundHandler
  <2>2. <<h.provider, h.code.subject>> \in Identities /\ h.user # None
    BY <2>1, SsoAssumption DEF Code, Identities, SsoInv, TypeOK
  <2> QED
    BY <1>1, <2>1, <2>2 DEF Grows
<1> QED
  BY <1>1, <1>2 DEF SoundHandler, Grows

\* A step of one handler keeps all of them sound if the new one is.
LEMMA OneHandler ==
    ASSUME SsoInv, [Next]_vars, NEW w \in Workers, NEW h,
           signin' = [signin EXCEPT ![w] = h], SoundHandler(h)'
    PROVE  /\ signin' \in [Workers -> SignIn]
           /\ \A v \in Workers : SoundHandler(signin[v])'
<1>1. ASSUME NEW v \in Workers PROVE SoundHandler(signin[v])'
  <2>1. CASE v = w
    BY <2>1 DEF SsoInv, TypeOK
  <2>2. CASE v # w
    <3>1. signin'[v] = signin[v] /\ SoundHandler(signin[v])
      BY <2>2 DEF SsoInv, TypeOK
    <3>2. PICK g : g = signin[v]
      OBVIOUS
    <3>3. SoundHandler(g)'
      BY <3>1, <3>2, SoundIsStable
    <3> QED
      BY <3>1, <3>2, <3>3
  <2> QED
    BY <2>1, <2>2
<1>2. h \in SignIn
  BY DEF SoundHandler
<1> QED
  BY <1>1, <1>2 DEF SsoInv, TypeOK

LEMMA FinishIsSound ==
    ASSUME SsoInv, [Next]_vars, NEW w \in Workers, Finish(w)
    PROVE  /\ signin' \in [Workers -> SignIn]
           /\ \A v \in Workers : SoundHandler(signin[v])'
<1> QED
  BY OneHandler, IdleIsSoundNext DEF Finish

LEMMA NobodyMoves ==
    ASSUME SsoInv, [Next]_vars, UNCHANGED signin
    PROVE  /\ signin' \in [Workers -> SignIn]
           /\ \A v \in Workers : SoundHandler(signin[v])'
<1>1. ASSUME NEW v \in Workers PROVE SoundHandler(signin[v])'
  <2>1. PICK g : g = signin[v]
    OBVIOUS
  <2>2. SoundHandler(g)'
    BY <2>1, SoundIsStable DEF SsoInv
  <2> QED
    BY <2>1, <2>2
<1> QED
  BY <1>1 DEF SsoInv, TypeOK

-------------------------------------------------------------------------------
(* The handlers, action by action.                                         *)

LEMMA StepIsSound ==
    ASSUME SsoInv, [Next]_vars, NEW w \in Workers, Step(w)
    PROVE  /\ signin' \in [Workers -> SignIn]
           /\ \A v \in Workers : SoundHandler(signin[v])'
<1> DEFINE Goal == /\ signin' \in [Workers -> SignIn]
                   /\ \A v \in Workers : SoundHandler(signin[v])'
           g == signin[w]
<1>1. /\ g \in SignIn /\ SoundHandler(g) /\ Grows
      /\ g.provider \in Providers \cup {None} /\ g.state \in 0..MaxStates
      /\ g.code \in Code \cup {None} /\ g.user \in Emails \cup {None} /\ g.pc \in Points
  BY NextGrows DEF SsoInv, SignIn, SoundHandler
<1>2. ASSUME Finish(w) PROVE Goal
  BY <1>2, FinishIsSound
\* Where only pc changes, to a point that asks no more than the one before.
<1>3. ASSUME NEW point \in Points, Goto(w, point), g.pc # "idle",
             point = "insert_user" => g.user \in Emails,
             point \in {"link", "touch", "issue"} => g.user \in users',
             point \in {"touch", "issue"} =>
               \/ links'[<<g.provider, g.code.subject>>] = g.user
               \/ provider'[g.provider] = "deleted"
      PROVE  Goal
  <2> PICK h : h = [g EXCEPT !.pc = point]
    OBVIOUS
  <2>1. signin' = [signin EXCEPT ![w] = h]
    BY <1>3 DEF Goto, SsoInv, TypeOK
  <2>2. /\ h \in SignIn /\ h.pc = point /\ h.user = g.user /\ h.provider = g.provider
        /\ h.code = g.code /\ h.state = g.state
    BY <1>1, <1>3 DEF SignIn
  <2>3. SoundHandler(h)'
    BY <1>1, <1>3, <2>2 DEF SoundHandler, Grows
  <2> QED
    BY <2>1, <2>3, OneHandler
<1>4. ASSUME NEW p \in Providers, NEW s \in StateIds, NEW c \in Code, TokenBegin(w, p, s, c)
      PROVE  Goal
  <2> PICK h : h = [pc |-> "read_state", provider |-> p, state |-> s, code |-> c, user |-> None]
    OBVIOUS
  <2>1. signin' = [signin EXCEPT ![w] = h] /\ s \in DOMAIN states /\ s \in 0..MaxStates
    BY <1>4, StateFacts DEF TokenBegin, SsoInv
  <2>2. h \in SignIn
    BY <2>1 DEF SignIn, Points
  <2>3. SoundHandler(h)'
    BY <1>1, <2>1, <2>2 DEF SoundHandler, Grows
  <2> QED
    BY <2>1, <2>3, OneHandler
<1>5. CASE ReadState(w)
  BY <1>2, <1>3, <1>5 DEF ReadState, At, Points
<1>6. CASE BurnState(w)
  BY <1>2, <1>3, <1>6 DEF BurnState, At, Points
<1>7. CASE Exchange(w)
  BY <1>2, <1>3, <1>7 DEF Exchange, At, Points
<1>8. CASE Lookup(w)
  <2> PICK u : u = links[Identity(w)]
    OBVIOUS
  <2> PICK h : h = [g EXCEPT !.pc = IF u = None THEN "find_user" ELSE "touch", !.user = u]
    OBVIOUS
  <2>1. signin' = [signin EXCEPT ![w] = h] /\ UNCHANGED <<links, users>> /\ g.pc = "lookup"
    BY <1>8 DEF Lookup, At, SsoInv, TypeOK
  <2>2. g.provider \in Providers /\ g.code \in Code /\ g.state \in DOMAIN states
    BY <1>1, <2>1 DEF SoundHandler
  <2>3. Identity(w) = <<g.provider, g.code.subject>> /\ Identity(w) \in Identities
    BY <2>2 DEF Identity, Identities, Code
  <2>4. u \in users \cup {None} /\ users \subseteq Emails
    BY <2>3 DEF SsoInv, TypeOK
  <2>5. /\ h \in SignIn /\ h.pc = (IF u = None THEN "find_user" ELSE "touch")
        /\ h.user = u /\ h.provider = g.provider /\ h.code = g.code /\ h.state = g.state
    BY <1>1, <2>4 DEF SignIn, Points
  <2>6. SoundHandler(h)'
    BY <1>1, <2>1, <2>2, <2>3, <2>4, <2>5 DEF SoundHandler, Grows
  <2> QED
    BY <2>1, <2>6, OneHandler
<1>9. CASE Touch(w)
  <2>1. CASE Finish(w)
    BY <1>2, <2>1
  <2>2. CASE Goto(w, "issue") /\ g.pc = "touch"
    <3>1. /\ g.user \in users /\ UNCHANGED <<links, users, provider>>
          /\ \/ links[<<g.provider, g.code.subject>>] = g.user
             \/ provider[g.provider] = "deleted"
      BY <1>1, <1>9, <2>2 DEF SoundHandler, Touch
    <3> QED
      BY <1>3, <2>2, <3>1 DEF Points
  <2> QED
    BY <1>9, <2>1, <2>2 DEF Touch, At
<1>10. CASE FindUser(w)
  <2> PICK u : u = g.code.email
    OBVIOUS
  <2> PICK h : h = [g EXCEPT !.pc = IF u \in users THEN "link" ELSE "insert_user", !.user = u]
    OBVIOUS
  <2>1. signin' = [signin EXCEPT ![w] = h] /\ UNCHANGED <<links, users>> /\ g.pc = "find_user"
    BY <1>10 DEF FindUser, At, SsoInv, TypeOK
  <2>2. g.provider \in Providers /\ g.code \in Code /\ g.state \in DOMAIN states
    BY <1>1, <2>1 DEF SoundHandler
  <2>3. u \in Emails
    BY <2>2 DEF Code
  <2>4. /\ h \in SignIn /\ h.pc = (IF u \in users THEN "link" ELSE "insert_user")
        /\ h.user = u /\ h.provider = g.provider /\ h.code = g.code /\ h.state = g.state
    BY <1>1, <2>3 DEF SignIn, Points
  <2>5. SoundHandler(h)'
    BY <1>1, <2>1, <2>2, <2>3, <2>4 DEF SoundHandler, Grows
  <2> QED
    BY <2>1, <2>5, OneHandler
<1>11. CASE InsertUser(w)
  <2>1. CASE Finish(w)
    BY <1>2, <2>1
  <2>2. CASE Goto(w, "link") /\ g.pc = "insert_user"
    BY <1>3, <1>11, <2>2 DEF InsertUser, Points
  <2> QED
    BY <1>11, <2>1, <2>2 DEF InsertUser, At
<1>12. CASE Link(w)
  <2>1. CASE Finish(w)
    BY <1>2, <2>1
  <2>2. CASE ~Finish(w)
    <3>1. /\ Goto(w, "issue") /\ g.pc = "link" /\ UNCHANGED users
          /\ links' = [links EXCEPT ![Identity(w)] = g.user]
      BY <1>12, <2>2 DEF Link, At
    <3>2. g.user \in users /\ g.provider \in Providers /\ g.code \in Code
      BY <1>1, <3>1 DEF SoundHandler
    <3>3. Identity(w) = <<g.provider, g.code.subject>> /\ Identity(w) \in Identities
      BY <3>2 DEF Identity, Identities, Code
    <3>4. links'[<<g.provider, g.code.subject>>] = g.user
      BY <3>1, <3>3 DEF SsoInv, TypeOK
    <3> QED
      BY <1>3, <3>1, <3>2, <3>4 DEF Points
  <2> QED
    BY <2>1, <2>2
<1>13. CASE Issue(w)
  BY <1>2, <1>13 DEF Issue
<1>14. CASE Abandon(w)
  BY <1>2, <1>14 DEF Abandon
<1> QED
  BY <1>4, <1>5, <1>6, <1>7, <1>8, <1>9, <1>10, <1>11, <1>12, <1>13, <1>14 DEF Step

LEMMA HandlersStep ==
    ASSUME SsoInv, [Next]_vars
    PROVE  /\ signin' \in [Workers -> SignIn]
           /\ \A v \in Workers : SoundHandler(signin[v])'
<1>1. \/ \E w \in Workers : Step(w)
      \/ UNCHANGED signin
  BY DEF Next, SetProvider, DeleteProvider, Authorize, CreateUser, Tick, vars
<1> QED
  BY <1>1, StepIsSound, NobodyMoves

-------------------------------------------------------------------------------
(* The states, action by action.                                           *)

\* No handler has come nearer to a sign-in on state s than it was.
NobodyAdvances(s) ==
    /\ Past(s)' \subseteq Past(s)
    /\ Burnt(s)' \subseteq Burnt(s)
    /\ Spent(s)' \subseteq Spent(s)

LEMMA StateKept ==
    ASSUME SsoInv, NEW s \in DOMAIN states, NobodyAdvances(s),
           states'[s].signins = states[s].signins, states'[s].live => states[s].live,
           redeemed \subseteq redeemed', IsFiniteSet(redeemed')
    PROVE  SoundState(s)'
<1>1. SoundState(s) /\ states[s].signins \in Nat
  BY StateFacts DEF SsoInv
<1>2. /\ Cardinality(Past(s)') <= Cardinality(Past(s))
      /\ Cardinality(Spent(s)') <= Cardinality(Spent(s))
  BY Counted, FS_Subset DEF NobodyAdvances
<1>3. Cardinality(CodesFor(s)) <= Cardinality(CodesFor(s)') /\ Cardinality(CodesFor(s)') \in Nat
  <2>1. CodesFor(s)' \in SUBSET redeemed' /\ CodesFor(s) \in SUBSET CodesFor(s)'
    BY DEF CodesFor
  <2>2. IsFiniteSet(CodesFor(s)')
    BY <2>1, FS_Subset
  <2> QED
    BY <2>1, <2>2, FS_Subset, FS_CardinalityType
<1> QED
  BY <1>1, <1>2, <1>3, Counted, CodesCounted, Finite DEF SoundState, NobodyAdvances

\* The part of the invariant that is not about the handlers.
TablesOK ==
    /\ provider \in [Providers -> {"absent", "active", "inactive", "deleted"}]
    /\ states \in Seq(SsoState)
    /\ Len(states) <= MaxStates
    /\ redeemed \subseteq Code
    /\ users \subseteq Emails
    /\ links \in [Identities -> users \cup {None}]
    /\ IsFiniteSet(redeemed) /\ Cardinality(redeemed) <= MaxCodes
    /\ \A s \in DOMAIN states : SoundState(s)

\* A step that leaves the states and the codes alone.
LEMMA StatesUnchanged ==
    ASSUME SsoInv, UNCHANGED <<states, redeemed>>,
           \A s \in DOMAIN states : NobodyAdvances(s)
    PROVE  \A s \in DOMAIN states' : SoundState(s)'
<1> QED
  BY StateKept DEF SsoInv

LEMMA FinishAdvancesNobody ==
    ASSUME SsoInv, NEW w \in Workers, Finish(w), NEW s
    PROVE  NobodyAdvances(s) /\ Past(s)' \subseteq Past(s) \ {w} /\ Spent(s)' \subseteq Spent(s) \ {w}
<1>1. /\ \A v \in Workers \ {w} : signin'[v] = signin[v]
      /\ signin'[w].pc = "idle"
  BY DEF Finish, SsoInv, TypeOK, Idle
<1> QED
  BY <1>1 DEF NobodyAdvances, Past, Burnt, Spent

\* A handler that moves on within a sign-in, but not past the deletion of its state
\* and not past the exchange of its code.
LEMMA GotoAdvancesNobody ==
    ASSUME SsoInv, NEW w \in Workers, NEW point, Goto(w, point), NEW s,
           \/ point = "burn_expired"
           \/ signin[w].pc \in {"lookup", "touch", "find_user", "insert_user", "link"}
    PROVE  NobodyAdvances(s)
<1>1. /\ \A v \in Workers \ {w} : signin'[v] = signin[v]
      /\ signin'[w].pc = point /\ signin'[w].state = signin[w].state
  BY DEF Goto, SsoInv, TypeOK, SignIn
<1> QED
  BY <1>1 DEF NobodyAdvances, Past, Burnt, Spent

LEMMA BurnStateStep ==
    ASSUME SsoInv, NEW w \in Workers, BurnState(w)
    PROVE  states' \in Seq(SsoState) /\ Len(states') = Len(states) /\ TablesOK'
<1> PICK t : t = signin[w].state
  OBVIOUS
<1>1. /\ signin[w] \in SignIn /\ signin[w].pc \in {"burn", "burn_expired"}
      /\ t \in DOMAIN states
      /\ UNCHANGED <<provider, redeemed, users, links>>
  BY DEF SsoInv, SoundHandler, BurnState, At
<1>2. states' = [states EXCEPT ![t].live = FALSE]
  BY DEF BurnState
<1>3. states' \in [DOMAIN states -> SsoState]
  BY <1>2, StateFacts DEF SsoInv, SsoState
<1>4. states' \in Seq(SsoState) /\ Len(states') = Len(states) /\ DOMAIN states' = DOMAIN states
  BY <1>3, MapIsSequence DEF SsoInv
<1>5. /\ \A s \in DOMAIN states \ {t} : states'[s] = states[s]
      /\ states'[t].signins = states[t].signins /\ states'[t].live = FALSE
  BY <1>1, <1>2, StateFacts DEF SsoInv, SsoState
<1>6. /\ \A v \in Workers \ {w} : signin'[v] = signin[v]
      /\ signin'[w].pc \in {"idle", "exchange"}
      /\ signin'[w].pc = "exchange" => signin[w].pc = "burn" /\ signin'[w].state = t
  BY DEF BurnState, Finish, Goto, At, SsoInv, TypeOK, Idle, SignIn
<1>7. ASSUME NEW s \in DOMAIN states PROVE SoundState(s)'
  <2>1. Past(s)' \subseteq Past(s) /\ Spent(s)' \subseteq Spent(s)
    BY <1>6 DEF Past, Spent
  <2>2. CASE s # t
    <3>1. NobodyAdvances(s)
      BY <1>6, <2>1, <2>2 DEF NobodyAdvances, Past, Burnt
    <3>2. IsFiniteSet(redeemed') /\ redeemed \subseteq redeemed'
      BY <1>1 DEF SsoInv
    <3>3. states'[s] = states[s]
      BY <1>5, <2>2
    <3> QED
      BY <3>1, <3>2, <3>3, StateKept
  <2>3. CASE s = t
    <3>1. SoundState(s) /\ states[s].signins \in Nat
      BY StateFacts DEF SsoInv
    <3>4. states'[s].live = FALSE /\ states'[s].signins = states[s].signins
      BY <1>5, <2>3
    <3>2. /\ Cardinality(Past(s)') <= Cardinality(Past(s))
          /\ Cardinality(Spent(s)') <= Cardinality(Spent(s))
      BY <2>1, Counted, FS_Subset
    <3>3. CodesFor(s)' = CodesFor(s)
      BY <1>1 DEF CodesFor
    <3> QED
      BY <3>1, <3>2, <3>3, <3>4, Counted, CodesCounted, Finite DEF SoundState
  <2> QED
    BY <2>2, <2>3
<1> QED
  BY <1>1, <1>4, <1>7 DEF TablesOK, SsoInv, TypeOK

LEMMA ExchangeStep ==
    ASSUME SsoInv, NEW w \in Workers, Exchange(w)
    PROVE  TablesOK'
<1> PICK t : t = signin[w].state
  OBVIOUS
<1> PICK c : c = signin[w].code
  OBVIOUS
<1>1. /\ signin[w] \in SignIn /\ signin[w].pc = "exchange"
      /\ t \in DOMAIN states /\ c \in Code /\ c \notin redeemed
      /\ redeemed' = redeemed \cup {c} /\ Cardinality(redeemed) < MaxCodes
      /\ UNCHANGED <<provider, states, users, links>>
  BY DEF SsoInv, SoundHandler, Exchange, At
<1>2. /\ \A v \in Workers \ {w} : signin'[v] = signin[v]
      /\ signin'[w].pc \in {"idle", "lookup"}
      /\ signin'[w].pc = "lookup" => c.nonce = t /\ signin'[w].state = t
  BY DEF Exchange, Finish, Goto, At, SsoInv, TypeOK, Idle, SignIn
<1>3. /\ IsFiniteSet(redeemed') /\ Cardinality(redeemed') <= MaxCodes
  <2>1. IsFiniteSet(redeemed) /\ Cardinality(redeemed) \in Nat
    BY FS_CardinalityType DEF SsoInv
  <2>2. IsFiniteSet(redeemed \cup {c}) /\ Cardinality(redeemed \cup {c}) = Cardinality(redeemed) + 1
    BY <1>1, <2>1, FS_AddElement
  <2> QED
    BY <1>1, <2>1, <2>2, SsoAssumption
<1>4. ASSUME NEW s \in DOMAIN states PROVE SoundState(s)'
  <2>1. Past(s)' \subseteq Past(s) /\ Burnt(s)' \subseteq Burnt(s)
    BY <1>1, <1>2 DEF Past, Burnt
  <2>2. CASE Spent(s)' \subseteq Spent(s)
    BY <1>1, <1>3, <2>1, <2>2, StateKept DEF NobodyAdvances
  <2>3. CASE ~(Spent(s)' \subseteq Spent(s))
    <3>1. s = t /\ c.nonce = s /\ Spent(s)' \subseteq Spent(s) \cup {w}
      BY <1>1, <1>2, <2>3 DEF Past, Spent
    <3>2. CodesFor(s)' = CodesFor(s) \cup {c} /\ c \notin CodesFor(s)
      BY <1>1, <3>1 DEF CodesFor
    <3>3. Cardinality(CodesFor(s)') = Cardinality(CodesFor(s)) + 1
      BY <3>2, CodesCounted, FS_AddElement
    <3>4. /\ IsFiniteSet(Spent(s) \cup {w})
          /\ Cardinality(Spent(s) \cup {w}) <= Cardinality(Spent(s)) + 1
          /\ Cardinality(Spent(s) \cup {w}) \in Nat
      <4>1. IsFiniteSet(Spent(s)) /\ Cardinality(Spent(s)) \in Nat
        BY Counted
      <4>2. CASE w \in Spent(s)
        <5>1. Spent(s) \cup {w} = Spent(s)
          BY <4>2
        <5>2. /\ IsFiniteSet(Spent(s) \cup {w})
              /\ Cardinality(Spent(s) \cup {w}) = Cardinality(Spent(s))
          BY <4>1, <5>1, Zenon
        <5> QED
          BY <4>1, <5>2
      <4>3. CASE w \notin Spent(s)
        <5>1. /\ IsFiniteSet(Spent(s) \cup {w})
              /\ Cardinality(Spent(s) \cup {w}) = Cardinality(Spent(s)) + 1
          BY <4>1, <4>3, FS_AddElement
        <5> QED
          BY <4>1, <5>1
      <4> QED
        BY <4>2, <4>3
    <3>5. Cardinality(Spent(s)') <= Cardinality(Spent(s)) + 1
      BY <3>1, <3>4, Counted, FS_Subset
    <3>6. Cardinality(Past(s)') <= Cardinality(Past(s))
      BY <2>1, Counted, FS_Subset
    <3>7. SoundState(s) /\ states[s].signins \in Nat
      BY StateFacts DEF SsoInv
    <3> QED
      BY <1>1, <2>1, <3>3, <3>5, <3>6, <3>7, Counted, CodesCounted, Finite DEF SoundState
  <2> QED
    BY <2>2, <2>3
<1> QED
  BY <1>1, <1>3, <1>4 DEF TablesOK, SsoInv, TypeOK

LEMMA IssueStep ==
    ASSUME SsoInv, NEW w \in Workers, Issue(w)
    PROVE  TablesOK'
<1> PICK t : t = signin[w].state
  OBVIOUS
<1>1. /\ signin[w] \in SignIn /\ signin[w].pc = "issue" /\ Finish(w)
      /\ t \in DOMAIN states
      /\ UNCHANGED <<provider, redeemed, users, links>>
  BY DEF SsoInv, SoundHandler, Issue, At
<1>2. states' = [states EXCEPT ![t].signins = @ + 1]
  BY DEF Issue
<1>3. w \in Past(t) /\ w \in Spent(t)
  BY <1>1 DEF Past, Spent
<1>4. SoundState(t) /\ states[t].signins \in Nat /\ ~states[t].live
  <2>1. w \in Burnt(t)
    BY <1>1 DEF Past, Burnt
  <2> QED
    BY <1>1, <2>1, StateFacts DEF SsoInv, SoundState
<1>5. /\ Cardinality(Past(t) \ {w}) = Cardinality(Past(t)) - 1
      /\ Cardinality(Spent(t) \ {w}) = Cardinality(Spent(t)) - 1
      /\ IsFiniteSet(Past(t) \ {w}) /\ IsFiniteSet(Spent(t) \ {w})
  BY <1>3, Counted, FS_RemoveElement
<1>6. /\ Cardinality(Past(t)') <= Cardinality(Past(t)) - 1
      /\ Cardinality(Spent(t)') <= Cardinality(Spent(t)) - 1
  <2>1. Past(t)' \subseteq Past(t) \ {w} /\ Spent(t)' \subseteq Spent(t) \ {w}
    BY <1>1, FinishAdvancesNobody
  <2> QED
    BY <1>5, <2>1, FS_Subset
<1>7. states[t].signins + 1 \in 0..MaxCodes
  BY <1>4, <1>5, <1>6, Counted, CodesCounted, SsoAssumption DEF SoundState
<1>8. states' \in [DOMAIN states -> SsoState]
  <2>1. \A s \in DOMAIN states : states[s] \in SsoState
    BY StateFacts DEF SsoInv
  <2>2. [states[t] EXCEPT !.signins = @ + 1] \in SsoState
    BY <1>1, <1>7, <2>1 DEF SsoState
  <2> QED
    BY <1>1, <1>2, <2>1, <2>2
<1>9. states' \in Seq(SsoState) /\ Len(states') = Len(states) /\ DOMAIN states' = DOMAIN states
  BY <1>8, MapIsSequence DEF SsoInv
<1>10. /\ \A s \in DOMAIN states : states'[s].live = states[s].live
       /\ \A s \in DOMAIN states \ {t} : states'[s] = states[s]
       /\ states'[t].signins = states[t].signins + 1
  BY <1>1, <1>2, StateFacts DEF SsoInv, SsoState
<1>11. ASSUME NEW s \in DOMAIN states PROVE SoundState(s)'
  <2>1. CASE s # t
    <3>1. NobodyAdvances(s)
      BY <1>1, FinishAdvancesNobody
    <3>2. IsFiniteSet(redeemed') /\ redeemed \subseteq redeemed'
      BY <1>1 DEF SsoInv
    <3> QED
      BY <1>10, <2>1, <3>1, <3>2, StateKept
  <2>2. CASE s = t
    <3>1. CodesFor(s)' = CodesFor(s)
      BY <1>1 DEF CodesFor
    <3> QED
      BY <1>4, <1>6, <1>10, <2>2, <3>1, Counted, CodesCounted, Finite DEF SoundState
  <2> QED
    BY <2>1, <2>2
<1> QED
  BY <1>1, <1>9, <1>11 DEF TablesOK, SsoInv, TypeOK

\* Nothing but signin changes, and that so that nobody advances.
LEMMA HandlersOnly ==
    ASSUME SsoInv, UNCHANGED <<provider, states, redeemed, users, links>>,
           \A s \in DOMAIN states : NobodyAdvances(s)
    PROVE  TablesOK'
<1>1. \A s \in DOMAIN states' : SoundState(s)'
  BY StatesUnchanged
<1> QED
  BY <1>1 DEF TablesOK, SsoInv, TypeOK

LEMMA ReadStateStep ==
    ASSUME SsoInv, NEW w \in Workers, ReadState(w)
    PROVE  TablesOK'
<1> PICK t : t = signin[w].state
  OBVIOUS
<1>1. UNCHANGED <<provider, states, redeemed, users, links>>
  BY DEF ReadState
<1>2. CASE Finish(w)
  BY <1>1, <1>2, FinishAdvancesNobody, HandlersOnly
<1>3. CASE Goto(w, "burn_expired")
  BY <1>1, <1>3, GotoAdvancesNobody, HandlersOnly
<1>4. CASE Goto(w, "burn") /\ states[t].live /\ t \in DOMAIN states
  <2>1. /\ \A v \in Workers \ {w} : signin'[v] = signin[v]
        /\ signin'[w].pc = "burn" /\ signin'[w].state = t
    BY <1>4 DEF Goto, SsoInv, TypeOK, SignIn
  <2>2. ASSUME NEW s \in DOMAIN states PROVE SoundState(s)'
    <3>1. Burnt(s)' \subseteq Burnt(s) /\ Spent(s)' \subseteq Spent(s)
      BY <2>1 DEF Past, Burnt, Spent
    <3>2. CASE s # t
      <4>1. Past(s)' \subseteq Past(s)
        BY <2>1, <3>2 DEF Past
      <4>2. IsFiniteSet(redeemed') /\ redeemed \subseteq redeemed'
        BY <1>1 DEF SsoInv
      <4> QED
        BY <1>1, <3>1, <4>1, <4>2, StateKept DEF NobodyAdvances
    <3>3. CASE s = t
      <4>1. SoundState(s) /\ states[s].signins \in Nat
        BY StateFacts DEF SsoInv
      <4>2. states[s].signins = 0 /\ Burnt(s) = {}
        BY <1>4, <3>3, <4>1 DEF SoundState
      <4>3. Burnt(s)' = {} /\ CodesFor(s)' = CodesFor(s) /\ states'[s] = states[s]
        BY <1>1, <3>1, <4>2 DEF CodesFor
      <4>4. Cardinality(Spent(s)') <= Cardinality(Spent(s))
        BY <3>1, Counted, FS_Subset
      <4>5. /\ states'[s].signins + Cardinality(Past(s)') <= Cardinality(Workers)
            /\ states'[s].signins + Cardinality(Spent(s)') <= Cardinality(CodesFor(s)')
        BY <4>1, <4>2, <4>3, <4>4, Counted, CodesCounted, Finite DEF SoundState
      <4> QED
        BY <4>2, <4>3, <4>5 DEF SoundState
    <3> QED
      BY <3>2, <3>3
  <2> QED
    BY <1>1, <2>2 DEF TablesOK, SsoInv, TypeOK
<1> QED
  BY <1>2, <1>3, <1>4 DEF ReadState, At, SsoInv, SoundHandler

\* A new state: no handler refers to it yet.
LEMMA AuthorizeStep ==
    ASSUME SsoInv, NEW p \in Providers, Authorize(p)
    PROVE  TablesOK'
<1> PICK n : n = Len(states) + 1
  OBVIOUS
<1>1. /\ UNCHANGED <<provider, redeemed, users, links, signin>>
      /\ Len(states) < MaxStates
  BY DEF Authorize
<1>2. /\ states' \in Seq(SsoState) /\ Len(states') = n
      /\ DOMAIN states' = DOMAIN states \cup {n} /\ n \notin DOMAIN states
      /\ \A s \in DOMAIN states : states'[s] = states[s]
      /\ states'[n].signins = 0
  <2>1. TypeOK
    BY DEF SsoInv
  <2>2. states'[n] = [provider |-> p, age |-> 0, live |-> TRUE, signins |-> 0]
    BY <2>1, AuthorizeAppends
  <2>3. states'[n].signins = 0
    BY <2>2
  <2>4. /\ states' \in Seq(SsoState) /\ Len(states') = n
        /\ DOMAIN states' = DOMAIN states \cup {n} /\ n \notin DOMAIN states
        /\ \A s \in DOMAIN states : states'[s] = states[s]
    BY <2>1, AuthorizeAppends
  <2> QED
    BY <2>3, <2>4
<1>3. ASSUME NEW s \in DOMAIN states PROVE SoundState(s)'
  <2>1. NobodyAdvances(s)
    BY <1>1 DEF NobodyAdvances, Past, Burnt, Spent
  <2>2. IsFiniteSet(redeemed') /\ redeemed \subseteq redeemed' /\ states'[s] = states[s]
    BY <1>1, <1>2 DEF SsoInv
  <2> QED
    BY <2>1, <2>2, StateKept
<1>4. SoundState(n)'
  <2>1. \A v \in Workers : signin[v].pc # "idle" => signin[v].state # n
    BY <1>2 DEF SsoInv, SoundHandler
  <2>2. Past(n)' = {} /\ Burnt(n)' = {} /\ Spent(n)' = {}
    BY <1>1, <2>1 DEF Past, Burnt, Spent
  <2>3. CodesFor(n)' = CodesFor(n) /\ Cardinality({}) = 0
    BY <1>1, FS_EmptySet DEF CodesFor
  <2>4. Cardinality(Past(n)') = 0 /\ Cardinality(Spent(n)') = 0
    BY <2>2, <2>3
  <2> QED
    BY <1>2, <2>2, <2>3, <2>4, CodesCounted, Finite DEF SoundState
<1>5. Len(states') <= MaxStates
  BY <1>1, <1>2, StateFacts, SsoAssumption DEF SsoInv
<1> QED
  BY <1>1, <1>2, <1>3, <1>4, <1>5 DEF TablesOK, SsoInv, TypeOK

\* The states may be deleted, or grow older; no sign-in is counted.
LEMMA StatesMapped ==
    ASSUME SsoInv, states' \in [DOMAIN states -> SsoState],
           \A s \in DOMAIN states : states'[s].signins = states[s].signins,
           \A s \in DOMAIN states : states'[s].live => states[s].live,
           UNCHANGED <<redeemed, signin>>
    PROVE  /\ states' \in Seq(SsoState) /\ Len(states') <= MaxStates
           /\ \A s \in DOMAIN states' : SoundState(s)'
<1>1. states' \in Seq(SsoState) /\ Len(states') = Len(states) /\ DOMAIN states' = DOMAIN states
  BY MapIsSequence DEF SsoInv
<1>2. ASSUME NEW s \in DOMAIN states PROVE SoundState(s)'
  <2>1. NobodyAdvances(s)
    BY DEF NobodyAdvances, Past, Burnt, Spent
  <2>2. IsFiniteSet(redeemed') /\ redeemed \subseteq redeemed'
    BY DEF SsoInv
  <2> QED
    BY <2>1, <2>2, StateKept
<1> QED
  BY <1>1, <1>2 DEF SsoInv, TypeOK

LEMMA DeleteProviderStep ==
    ASSUME SsoInv, NEW p \in Providers, DeleteProvider(p)
    PROVE  TablesOK'
<1>1. /\ provider' = [provider EXCEPT ![p] = "deleted"]
      /\ states' = [s \in DOMAIN states |->
                      [states[s] EXCEPT !.live = @ /\ states[s].provider # p]]
      /\ links' = [i \in Identities |-> IF i[1] = p THEN None ELSE links[i]]
      /\ UNCHANGED <<redeemed, users, signin>>
  BY DEF DeleteProvider
<1>2. \A s \in DOMAIN states : states[s] \in SsoState
  BY StateFacts DEF SsoInv
<1>3. ASSUME NEW s \in DOMAIN states
      PROVE  /\ states'[s] \in SsoState
             /\ states'[s].signins = states[s].signins
             /\ states'[s].live => states[s].live
  <2>1. states'[s] = [states[s] EXCEPT !.live = @ /\ states[s].provider # p]
    BY <1>1
  <2> QED
    BY <1>2, <2>1 DEF SsoState
<1>4. states' \in [DOMAIN states -> SsoState]
  BY <1>1, <1>3
<1>5. /\ states' \in Seq(SsoState) /\ Len(states') <= MaxStates
      /\ \A s \in DOMAIN states' : SoundState(s)'
  BY <1>1, <1>3, <1>4, StatesMapped
<1> QED
  BY <1>1, <1>5 DEF TablesOK, SsoInv, TypeOK

LEMMA TickStep ==
    ASSUME SsoInv, Tick
    PROVE  TablesOK'
<1>1. /\ states' = [s \in DOMAIN states |->
                      [states[s] EXCEPT !.age = IF @ < StateTTL THEN @ + 1 ELSE @]]
      /\ UNCHANGED <<provider, redeemed, users, links, signin>>
  BY DEF Tick
<1>2. \A s \in DOMAIN states : states[s] \in SsoState
  BY StateFacts DEF SsoInv
<1>3. ASSUME NEW s \in DOMAIN states
      PROVE  /\ states'[s] \in SsoState
             /\ states'[s].signins = states[s].signins
             /\ states'[s].live => states[s].live
  <2>1. states'[s] = [states[s] EXCEPT !.age = IF @ < StateTTL THEN @ + 1 ELSE @]
    BY <1>1
  <2>2. (IF states[s].age < StateTTL THEN states[s].age + 1 ELSE states[s].age) \in 0..StateTTL
    BY <1>2, SsoAssumption DEF SsoState
  <2> QED
    BY <1>2, <2>1, <2>2 DEF SsoState
<1>4. states' \in [DOMAIN states -> SsoState]
  BY <1>1, <1>3
<1>5. /\ states' \in Seq(SsoState) /\ Len(states') <= MaxStates
      /\ \A s \in DOMAIN states' : SoundState(s)'
  BY <1>1, <1>3, <1>4, StatesMapped
<1> QED
  BY <1>1, <1>5 DEF TablesOK, SsoInv, TypeOK

\* The steps of a handler that look up, make and link the user.
LEMMA ProvisioningStep ==
    ASSUME SsoInv, NEW w \in Workers,
           Lookup(w) \/ Touch(w) \/ FindUser(w) \/ InsertUser(w) \/ Link(w)
    PROVE  TablesOK'
<1>1. UNCHANGED <<provider, states, redeemed>>
  BY DEF Lookup, Touch, FindUser, InsertUser, Link
<1>2. /\ signin[w] \in SignIn /\ signin[w].pc # "idle"
      /\ signin[w].pc \in {"lookup", "touch", "find_user", "insert_user", "link"}
      /\ SoundHandler(signin[w])
  BY DEF Lookup, Touch, FindUser, InsertUser, Link, At, SsoInv, SoundHandler
<1>3. \A s \in DOMAIN states : NobodyAdvances(s)
  <2>1. CASE Lookup(w) \/ FindUser(w)
    <3>1. /\ \A v \in Workers \ {w} : signin'[v] = signin[v]
          /\ signin'[w].pc \in {"touch", "find_user", "insert_user", "link"}
          /\ signin'[w].state = signin[w].state
      BY <1>2, <2>1 DEF Lookup, FindUser, SsoInv, TypeOK, SignIn
    <3> QED
      BY <1>2, <3>1 DEF NobodyAdvances, Past, Burnt, Spent
  <2>2. CASE Touch(w) \/ InsertUser(w) \/ Link(w)
    <3>1. Finish(w) \/ Goto(w, "issue") \/ Goto(w, "link")
      BY <2>2 DEF Touch, InsertUser, Link
    <3> QED
      BY <1>2, <3>1, FinishAdvancesNobody, GotoAdvancesNobody
  <2> QED
    BY <2>1, <2>2
<1>4. \A s \in DOMAIN states' : SoundState(s)'
  BY <1>1, <1>3, StatesUnchanged
<1>5. users' \subseteq Emails /\ links' \in [Identities -> users' \cup {None}]
  <2>1. CASE UNCHANGED <<users, links>>
    BY <2>1 DEF SsoInv, TypeOK
  <2>2. CASE InsertUser(w)
    <3>1. signin[w].user \in Emails
      BY <1>2, <2>2 DEF InsertUser, At, SoundHandler
    <3> QED
      BY <2>2, <3>1 DEF InsertUser, SsoInv, TypeOK
  <2>3. CASE Link(w)
    <3>1. signin[w].user \in users
      BY <1>2, <2>3 DEF Link, At, SoundHandler
    <3> QED
      BY <2>3, <3>1 DEF Link, SsoInv, TypeOK
  <2> QED
    BY <2>1, <2>2, <2>3 DEF Lookup, Touch, FindUser
<1> QED
  BY <1>1, <1>4, <1>5 DEF TablesOK, SsoInv, TypeOK

LEMMA TablesStep ==
    ASSUME SsoInv, [Next]_vars
    PROVE  TablesOK'
<1>1. ASSUME UNCHANGED <<states, redeemed, links, signin>>,
             provider' \in [Providers -> {"absent", "active", "inactive", "deleted"}],
             users \subseteq users' /\ users' \subseteq Emails
      PROVE  TablesOK'
  <2>1. \A s \in DOMAIN states : NobodyAdvances(s)
    BY <1>1 DEF NobodyAdvances, Past, Burnt, Spent
  <2>2. \A s \in DOMAIN states' : SoundState(s)'
    BY <1>1, <2>1, StatesUnchanged
  <2> QED
    BY <1>1, <2>2 DEF TablesOK, SsoInv, TypeOK
<1>2. ASSUME NEW p \in Providers, NEW status \in {"active", "inactive"}, SetProvider(p, status)
      PROVE  TablesOK'
  BY <1>1, <1>2 DEF SetProvider, SsoInv, TypeOK
<1>3. ASSUME NEW e \in Emails, CreateUser(e) PROVE TablesOK'
  BY <1>1, <1>3 DEF CreateUser, SsoInv, TypeOK
<1>4. CASE UNCHANGED vars
  BY <1>1, <1>4 DEF vars, SsoInv, TypeOK
<1>5. ASSUME NEW p \in Providers, DeleteProvider(p) \/ Authorize(p) PROVE TablesOK'
  BY <1>5, DeleteProviderStep, AuthorizeStep
<1>6. CASE Tick
  BY <1>6, TickStep
<1>7. ASSUME NEW w \in Workers, Step(w) PROVE TablesOK'
  <2>1. ASSUME NEW p \in Providers, NEW s \in StateIds, NEW c \in Code,
               TokenBegin(w, p, s, c)
        PROVE  TablesOK'
    <3>1. /\ \A v \in Workers \ {w} : signin'[v] = signin[v]
          /\ signin'[w].pc = "read_state"
      BY <2>1 DEF TokenBegin, SsoInv, TypeOK
    <3>2. \A t \in DOMAIN states : NobodyAdvances(t)
      BY <3>1 DEF NobodyAdvances, Past, Burnt, Spent
    <3> QED
      BY <2>1, <3>2, HandlersOnly DEF TokenBegin
  <2>2. CASE Abandon(w)
    BY <2>2, FinishAdvancesNobody, HandlersOnly DEF Abandon
  <2> QED
    BY <1>7, <2>1, <2>2, ReadStateStep, BurnStateStep, ExchangeStep, IssueStep,
       ProvisioningStep DEF Step
<1> QED
  BY <1>2, <1>3, <1>4, <1>5, <1>6, <1>7 DEF Next

-------------------------------------------------------------------------------
(* The theorems.                                                           *)

LEMMA SsoInit ==
    ASSUME Init PROVE SsoInv
<1>1. states \in Seq(SsoState) /\ Len(states) = 0 /\ DOMAIN states = {}
  BY DEF Init
<1>2. /\ TypeOK /\ \A w \in Workers : SoundHandler(signin[w])
  BY <1>1, IdleIsSound, SsoAssumption DEF Init, TypeOK
<1>3. IsFiniteSet(redeemed) /\ Cardinality(redeemed) <= MaxCodes
  BY FS_EmptySet, SsoAssumption DEF Init
<1> QED
  BY <1>1, <1>2, <1>3 DEF SsoInv

LEMMA SsoStep ==
    ASSUME SsoInv, [Next]_vars PROVE SsoInv'
<1> QED
  BY HandlersStep, TablesStep DEF SsoInv, TablesOK, TypeOK

LEMMA SsoInvariance == Spec => []SsoInv
<1> QED
  BY SsoInit, SsoStep, PTL DEF Spec

\* Every row and every suspended handler of the flow is well formed: a handler never
\* gets to insert or to link a user it has not found, made or committed, and a link
\* never names a user without a row.
THEOREM TypeCorrectness == Spec => []TypeOK
<1>1. SsoInv => TypeOK
  BY DEF SsoInv
<1> QED
  BY <1>1, SsoInvariance, PTL

\* jit_provision_user hands issue_sso_tokens the user the identity is linked to, however
\* many first sign-ins of the same person run at once (or the provider is gone).
THEOREM SignInSafety == Spec => []SignsInLinkedUser
<1>1. ASSUME SsoInv PROVE SignsInLinkedUser
  BY <1>1 DEF SsoInv, SoundHandler, SignsInLinkedUser, At, Identity
<1> QED
  BY <1>1, SsoInvariance, PTL

\* consume_sso_state deletes the row before the code is exchanged: a state admits no
\* more sign-ins than there are handlers that can have read it first.
THEOREM StateReuse == Spec => []StateReuseBounded
<1>1. ASSUME SsoInv PROVE StateReuseBounded
  <2>1. ASSUME NEW s \in DOMAIN states PROVE states[s].signins <= Cardinality(Workers)
    <3>1. SoundState(s) /\ states[s].signins \in Nat
      BY <1>1, StateFacts DEF SsoInv
    <3> QED
      BY <3>1, Counted, Finite DEF SoundState
  <2> QED
    BY <2>1 DEF StateReuseBounded
<1> QED
  BY <1>1, SsoInvariance, PTL

\* The nonce is compared and a code is taken once: every sign-in on a state is paid for
\* by a code of its own that was handed out for that state.
THEOREM Authenticity == Spec => []SignInsAuthenticated
<1>1. ASSUME SsoInv PROVE SignInsAuthenticated
  <2>1. ASSUME NEW s \in DOMAIN states
        PROVE  states[s].signins <= Cardinality(CodesFor(s))
    <3>1. SoundState(s) /\ states[s].signins \in Nat
      BY <1>1, StateFacts DEF SsoInv
    <3> QED
      BY <1>1, <3>1, Counted, CodesCounted DEF SoundState
  <2> QED
    BY <2>1 DEF SignInsAuthenticated, CodesFor
<1> QED
  BY <1>1, SsoInvariance, PTL

\* No step of any handler moves an external identity to another user; only the
\* deletion of its provider takes the link away.
THEOREM LinkStability == Spec => LinksAreStable
<1>1. ASSUME SsoInv, [Next]_vars
      PROVE  \A i \in Identities : links[i] # None =>
               links'[i] = links[i] \/ provider'[i[1]] = "deleted"
  BY <1>1, NextGrows DEF Grows
<1> QED
  BY <1>1, SsoInvariance, PTL DEF LinksAreStable, Spec

-------------------------------------------------------------------------------
(* Exchanges that do not overlap.                                          *)

\* Once a state has signed somebody in, no handler is on its way to a second sign-in;
\* a later one finds the row gone.
OnceInv ==
    /\ SsoInv
    /\ StateSingleUse
    /\ \A s \in DOMAIN states : states[s].signins = 1 => Past(s) = {}

LEMMA OnceKept ==
    ASSUME OnceInv, NEW s \in DOMAIN states, Past(s)' \subseteq Past(s),
           states'[s].signins = states[s].signins
    PROVE  states'[s].signins <= 1 /\ (states'[s].signins = 1 => Past(s)' = {})
<1> QED
  BY DEF OnceInv, StateSingleUse

\* The row is read live: nobody has signed in on it yet.
LEMMA OnceReadState ==
    ASSUME OnceInv, NEW w \in Workers, ReadState(w), NEW s \in DOMAIN states
    PROVE  states'[s].signins <= 1 /\ (states'[s].signins = 1 => Past(s)' = {})
<1>1. states'[s].signins = states[s].signins /\ SsoInv
  BY DEF ReadState, OnceInv
<1>2. CASE Past(s)' \subseteq Past(s)
  BY <1>1, <1>2, OnceKept
<1>3. CASE ~(Past(s)' \subseteq Past(s))
  <2>1. ~Finish(w) /\ ~Goto(w, "burn_expired")
    BY <1>1, <1>3, FinishAdvancesNobody, GotoAdvancesNobody DEF NobodyAdvances
  <2>2. Goto(w, "burn") /\ states[signin[w].state].live
    BY <2>1 DEF ReadState
  <2>3. signin[w].state = s
    <3>1. /\ \A v \in Workers \ {w} : signin'[v] = signin[v]
          /\ signin'[w].state = signin[w].state
      BY <1>1, <2>2 DEF Goto, SsoInv, TypeOK, SignIn
    <3> QED
      BY <1>3, <3>1 DEF Past
  <2>4. states[s].signins = 0
    BY <1>1, <2>2, <2>3 DEF SsoInv, SoundState
  <2> QED
    BY <1>1, <2>4
<1> QED
  BY <1>2, <1>3

\* The one handler on the state signs in and is done.
LEMMA OnceIssue ==
    ASSUME OnceInv, ExchangesApart, NEW w \in Workers, Issue(w), NEW s \in DOMAIN states
    PROVE  states'[s].signins <= 1 /\ (states'[s].signins = 1 => Past(s)' = {})
<1> PICK t : t = signin[w].state
  OBVIOUS
<1>1. Finish(w) /\ signin[w].pc = "issue" /\ SsoInv
  BY DEF Issue, At, OnceInv
<1>2. /\ t \in DOMAIN states /\ \A x \in DOMAIN states : states[x] \in SsoState
      /\ states[s].signins \in Nat
  BY <1>1, StateFacts DEF SsoInv, SoundHandler
<1>3. states' = [states EXCEPT ![t].signins = @ + 1]
  BY DEF Issue
<1>4. Past(s)' \subseteq Past(s) \ {w}
  BY <1>1, FinishAdvancesNobody
<1>5. CASE s # t
  <2>1. states'[s].signins = states[s].signins
    BY <1>2, <1>3, <1>5
  <2> QED
    BY <1>4, <2>1, OnceKept
<1>6. CASE s = t
  <2>1. w \in Past(s)
    BY <1>1, <1>6 DEF Past
  <2>2. \A v \in Past(s) : v = w
    BY <1>1, <1>6 DEF Past, ExchangesApart
  <2>3. states[s].signins = 0
    BY <1>2, <2>1 DEF OnceInv, StateSingleUse
  <2>4. states'[s].signins = 1
    BY <1>2, <1>3, <1>6, <2>3 DEF SsoState
  <2> QED
    BY <1>4, <2>2, <2>4
<1> QED
  BY <1>5, <1>6

\* All other steps bring nobody past the reading of a state and sign nobody in.
LEMMA OnceOther ==
    ASSUME OnceInv, [Next]_vars, NEW s \in DOMAIN states,
           \A w \in Workers : ~ReadState(w) /\ ~Issue(w)
    PROVE  states'[s].signins <= 1 /\ (states'[s].signins = 1 => Past(s)' = {})
<1>1. /\ SsoInv /\ states[s] \in SsoState /\ signin \in [Workers -> SignIn]
      /\ \A x \in DOMAIN states : states[x] \in SsoState
  BY StateFacts DEF OnceInv, SsoInv, TypeOK
<1>2. states'[s].signins = states[s].signins
  <2>1. ASSUME NEW w \in Workers, BurnState(w) PROVE states'[s].signins = states[s].signins
    BY <1>1, <2>1 DEF BurnState, SsoState
  <2>2. ASSUME NEW p \in Providers, DeleteProvider(p)
        PROVE  states'[s].signins = states[s].signins
    BY <1>1, <2>2 DEF DeleteProvider, SsoState
  <2>3. ASSUME NEW p \in Providers, Authorize(p) PROVE states'[s].signins = states[s].signins
    BY <1>1, <2>3, AuthorizeAppends DEF SsoInv
  <2>4. CASE Tick
    BY <1>1, <2>4 DEF Tick, SsoState
  <2>5. ASSUME UNCHANGED states PROVE states'[s].signins = states[s].signins
    BY <2>5
  <2>6. \/ UNCHANGED states \/ Tick
        \/ \E w \in Workers : BurnState(w)
        \/ \E p \in Providers : DeleteProvider(p) \/ Authorize(p)
    BY DEF Next, Step, SetProvider, CreateUser, vars, TokenBegin, Exchange, Lookup, Touch,
           FindUser, InsertUser, Link, Abandon
  <2> QED
    BY <2>1, <2>2, <2>3, <2>4, <2>5, <2>6
<1>3. Past(s)' \subseteq Past(s)
  <2>1. ASSUME UNCHANGED signin PROVE Past(s)' \subseteq Past(s)
    BY <2>1 DEF Past
  <2>2. ASSUME NEW w \in Workers, signin'[w].pc \in {"idle", "read_state", "burn_expired"} \/
                                  (w \in Past(s) /\ signin'[w].state = signin[w].state)
                                  \/ (signin'[w].state = signin[w].state /\ w \notin Past(s)
                                      /\ signin[w].state # s),
               \A v \in Workers \ {w} : signin'[v] = signin[v]
        PROVE  Past(s)' \subseteq Past(s)
    BY <2>2 DEF Past
  <2>3. ASSUME NEW w \in Workers, Finish(w) PROVE Past(s)' \subseteq Past(s)
    BY <1>1, <2>3, FinishAdvancesNobody
  <2>4. ASSUME NEW w \in Workers, NEW p \in Providers, NEW x \in StateIds, NEW c \in Code,
               TokenBegin(w, p, x, c)
        PROVE  Past(s)' \subseteq Past(s)
    <3>1. signin'[w].pc = "read_state" /\ \A v \in Workers \ {w} : signin'[v] = signin[v]
      BY <1>1, <2>4 DEF TokenBegin
    <3> QED
      BY <2>2, <3>1
  <2>5. ASSUME NEW w \in Workers, NEW point,
               signin[w].pc \notin {"idle", "read_state", "burn_expired"}, Goto(w, point)
        PROVE  Past(s)' \subseteq Past(s)
    <3>1. signin'[w].state = signin[w].state /\ \A v \in Workers \ {w} : signin'[v] = signin[v]
      BY <1>1, <2>5 DEF Goto, SignIn
    <3> QED
      BY <2>5, <3>1 DEF Past
  <2>6. ASSUME NEW w \in Workers, Lookup(w) \/ FindUser(w) PROVE Past(s)' \subseteq Past(s)
    <3>1. /\ signin[w].pc \in {"lookup", "find_user"}
          /\ signin'[w].state = signin[w].state
          /\ \A v \in Workers \ {w} : signin'[v] = signin[v]
      BY <1>1, <2>6 DEF Lookup, FindUser, At, SignIn
    <3> QED
      BY <3>1 DEF Past
  <2>7. ASSUME NEW w \in Workers,
               BurnState(w) \/ Exchange(w) \/ Touch(w) \/ InsertUser(w) \/ Link(w) \/ Abandon(w)
        PROVE  Past(s)' \subseteq Past(s)
    <3>1. \/ Finish(w)
          \/ /\ signin[w].pc \in {"burn", "exchange", "touch", "insert_user", "link"}
             /\ \E point \in Points : Goto(w, point)
      BY <2>7 DEF BurnState, Exchange, Touch, InsertUser, Link, Abandon, At, Points
    <3> QED
      BY <2>3, <2>5, <3>1
  <2> QED
    BY <2>1, <2>4, <2>6, <2>7
    DEF Next, Step, SetProvider, DeleteProvider, Authorize, CreateUser, Tick, vars
<1> QED
  BY <1>2, <1>3, OnceKept

\* A new state has signed nobody in.
LEMMA OnceNew ==
    ASSUME OnceInv, [Next]_vars, NEW s \in DOMAIN states', s \notin DOMAIN states
    PROVE  states'[s].signins = 0
<1>1. SsoInv /\ SsoInv'
  BY SsoStep DEF OnceInv
<1>2. ASSUME NEW p \in Providers, Authorize(p) PROVE states'[s].signins = 0
  <2>1. TypeOK
    BY <1>1 DEF SsoInv
  <2>2. states'[Len(states) + 1] = [provider |-> p, age |-> 0, live |-> TRUE, signins |-> 0]
    BY <1>2, <2>1, AuthorizeAppends
  <2>3. s = Len(states) + 1
    <3>1. DOMAIN states' = DOMAIN states \cup {Len(states) + 1}
      BY <1>2, <2>1, AuthorizeAppends
    <3> QED
      BY <3>1
  <2> QED
    BY <2>2, <2>3
<1>3. CASE ~\E p \in Providers : Authorize(p)
  <2>1. DOMAIN states' = DOMAIN states
    BY <1>3 DEF Next, Step, SetProvider, CreateUser, vars, TokenBegin, Exchange, Lookup, Touch,
                FindUser, InsertUser, Link, Abandon, ReadState, BurnState, Issue, DeleteProvider,
                Tick
  <2> QED
    BY <2>1
<1> QED
  BY <1>2, <1>3

LEMMA OnceNext == OnceInv /\ ExchangesApart /\ [Next]_vars => OnceInv'
<1> SUFFICES ASSUME OnceInv, ExchangesApart, [Next]_vars PROVE OnceInv'
  OBVIOUS
<1>1. SsoInv'
  BY SsoStep DEF OnceInv
<1>2. ASSUME NEW s \in DOMAIN states'
      PROVE  states'[s].signins <= 1 /\ (states'[s].signins = 1 => Past(s)' = {})
  <2>1. CASE s \notin DOMAIN states
    <3>1. states'[s].signins = 0
      BY <1>2, <2>1, OnceNew
    <3> QED
      BY <3>1
  <2>2. CASE s \in DOMAIN states
    BY <2>2, OnceReadState, OnceIssue, OnceOther
  <2> QED
    BY <2>1, <2>2
<1> QED
  BY <1>1, <1>2 DEF OnceInv, StateSingleUse

\* A state admits one sign-in, as store_sso_state says, for any number of handlers and
\* states, if no two exchanges on one state are in flight together; otherwise
\* StateReuse is all that holds.
THEOREM StateOnce == Spec /\ []ExchangesApart => []StateSingleUse
<1>1. Init => OnceInv
  <2>1. ASSUME Init PROVE DOMAIN states = {}
    BY <2>1 DEF Init
  <2> QED
    BY <2>1, SsoInit DEF OnceInv, StateSingleUse
<1>2. OnceInv => StateSingleUse
  BY DEF OnceInv
<1> QED
  BY <1>1, <1>2, OnceNext, PTL DEF Spec

===============================================================================
