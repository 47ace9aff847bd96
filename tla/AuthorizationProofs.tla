------------------------- MODULE AuthorizationProofs -------------------------
(***************************************************************************)
(* Proofs about module Authorization, for any permissions, roles, rows of  *)
(* user_roles and requests in flight.                                      *)
(***************************************************************************)
EXTENDS Authorization, FiniteSetTheorems, TLAPS

\* Where a request of each kind can be.
Shape(r) ==
    /\ r.pc = "idle" <=> r.op = "none"
    /\ r.op = "check" => r.pc \in {"check_roles", "check_system", "answered"}
    /\ r.op = "token" => r.pc \in {"claim", "answered"}
    /\ r.op = "replace" <=> r.pc = "replace"
    /\ r.op = "check" => \E p \in Perms : r.perms = {p}
    /\ r.op \in {"check", "token"} => r.role \in LegacyRoles
    /\ r.op = "replace" => r.role \in CustomRoles \cup {None}

AboutUser(r) == r.op \in {"check", "token"}
UnderWay(r) == AboutUser(r) /\ r.pc # "answered"

\* What is granted is held: until there is an answer, what the user has now and what the
\* role loaded gives are among what was held.
Sound(r) ==
    /\ UnderWay(r) => HeldPerms \subseteq r.held /\ PackRole[r.role] \subseteq r.held
    /\ r.op = "check" /\ r.pc = "answered" /\ r.answer = "granted" => r.perms \subseteq r.held
    /\ r.op = "token" /\ r.pc = "answered" => r.loaded \subseteq r.held

\* With no administration since, what the request has read is what there is.
Exact(r) ==
    /\ r.op = "check" /\ UnderWay(r) => r.role # "admin"
    /\ UnderWay(r) /\ r.quiet => r.role = role
    /\ r.pc = "check_system" /\ r.quiet => \A p \in r.perms : Granting(p) = {}
    /\ r.op = "check" /\ r.pc = "answered" /\ r.quiet =>
          (r.answer = "denied" <=> ~(r.perms \subseteq HeldPerms))
    /\ r.op = "token" /\ r.pc = "answered" /\ r.quiet /\ r.answer = "granted" =>
          r.loaded = IF r.perms = {} THEN HeldPerms ELSE HeldPerms \cap r.perms

\* A role under replacement has no rows but those the DELETE saw and those that other
\* replacements stored since.
Replacing(r) ==
    r.op = "replace" /\ r.role # None =>
        r.role \in Existing /\ granted[r.role] \subseteq r.loaded \cup r.others

Good(r) == Shape(r) /\ Sound(r) /\ Exact(r) /\ Replacing(r)

AuthorizationInv == TypeOK /\ \A w \in Workers : Good(request[w])

-------------------------------------------------------------------------------
(* What the user holds, in terms of the two queries.                       *)

TablesOK ==
    /\ role \in LegacyRoles
    /\ Existing \subseteq CustomRoles
    /\ granted \in [Existing -> SUBSET Perms]
    /\ assigned \in [Rows -> SystemRoles \cup Existing \cup {None}]
    /\ doubled \subseteq SystemRoles

LEMMA PermissionsType ==
    ASSUME TablesOK, NEW i \in Rows, assigned[i] # None
    PROVE  PermissionsOf(assigned[i]) \subseteq Perms
BY AuthorizationAssumption DEF TablesOK, PermissionsOf, SystemRoles

LEMMA HeldFacts ==
    ASSUME TablesOK
    PROVE  /\ HeldPerms \subseteq Perms
           /\ PackRole[role] \subseteq HeldPerms
           /\ AssignedPerms \subseteq HeldPerms
           /\ HeldPerms = PackRole[role] \cup AssignedPerms
           /\ role = "admin" => HeldPerms = Perms
           /\ \A p \in Perms : Granting(p) # {} => p \in HeldPerms
           /\ \A p \in HeldPerms : p \in PackRole[role] \/ Granting(p) # {}
<1>1. PackRole[role] \subseteq Perms /\ AssignedPerms \subseteq Perms /\ PackRole["admin"] = Perms
  BY AuthorizationAssumption DEF TablesOK, AssignedPerms
<1>2. ASSUME role # "admin"
      PROVE  HeldPerms = PackRole[role] \cup AssignedPerms
  <2>1. ASSUME NEW p, p \in AssignedPerms PROVE p \in HeldPerms
    <3>1. PICK i \in Rows : assigned[i] # None /\ p \in PermissionsOf(assigned[i])
      BY <2>1 DEF AssignedPerms, Granting
    <3> QED
      BY <1>2, <3>1 DEF HeldPerms
  <2>2. ASSUME NEW p, p \in HeldPerms, p \notin PackRole[role] PROVE p \in AssignedPerms
    <3>1. PICK i \in Rows : assigned[i] # None /\ p \in PermissionsOf(assigned[i])
      BY <1>2, <2>2 DEF HeldPerms
    <3> QED
      BY <3>1, PermissionsType DEF AssignedPerms, Granting
  <2> QED
    BY <1>2, <2>1, <2>2 DEF HeldPerms
<1>3. ASSUME role = "admin" PROVE HeldPerms = Perms
  BY <1>3 DEF HeldPerms
<1>4. HeldPerms = PackRole[role] \cup AssignedPerms
  BY <1>1, <1>2, <1>3
<1> QED
  BY <1>1, <1>3, <1>4 DEF AssignedPerms

HeldIsTyped == HeldPerms \subseteq Perms

LEMMA HeldType == TablesOK => HeldIsTyped
BY HeldFacts DEF HeldIsTyped

LEMMA HeldTypeNext == TablesOK' => HeldIsTyped'
BY HeldType, PTL

-------------------------------------------------------------------------------
(* The requests: one moves, the tables stay.                               *)

LEMMA IdleGood == Idle \in Request /\ Good(Idle)
<1>1. Idle \in Request
  BY DEF Idle, Request, Points
<1>2. Shape(Idle) /\ Sound(Idle) /\ Exact(Idle) /\ Replacing(Idle)
  BY DEF Idle, Shape, Sound, Exact, Replacing, AboutUser, UnderWay
<1> QED
  BY <1>1, <1>2 DEF Good

LEMMA OneMoves ==
    ASSUME AuthorizationInv, UNCHANGED <<role, granted, assigned, doubled>>,
           NEW w \in Workers, NEW r \in Request, Good(r),
           request' = [request EXCEPT ![w] = r]
    PROVE  AuthorizationInv'
<1>1. TypeOK'
  BY DEF AuthorizationInv, TypeOK, Existing
<1>2. HeldPerms' = HeldPerms /\ \A p : Granting(p)' = Granting(p)
  BY DEF HeldPerms, Granting, PermissionsOf, Existing
<1>3. ASSUME NEW v \in Workers PROVE Good(request[v])'
  <2>1. PICK q \in Request : q = request'[v] /\ Good(q)
    BY DEF AuthorizationInv, TypeOK
  <2>2. Shape(q)' /\ Sound(q)' /\ Exact(q)' /\ Replacing(q)'
    BY <2>1, <1>2 DEF Good, Shape, Sound, Exact, Replacing, AboutUser, UnderWay, Existing
  <2> QED
    BY <2>1, <2>2 DEF Good, Shape, Sound, Exact, Replacing, AboutUser, UnderWay, Existing
<1> QED
  BY <1>1, <1>3 DEF AuthorizationInv

-------------------------------------------------------------------------------
(* The steps of the requests.                                              *)

LEMMA InvFacts ==
    ASSUME AuthorizationInv
    PROVE  /\ TablesOK
           /\ request \in [Workers -> Request]
           /\ \A w \in Workers : request[w] \in Request /\ Good(request[w])
BY DEF AuthorizationInv, TypeOK, TablesOK

LEMMA CheckBeginStep ==
    ASSUME AuthorizationInv, NEW w \in Workers, NEW p \in Perms, CheckBegin(w, p)
    PROVE  AuthorizationInv'
<1>0. TablesOK /\ request \in [Workers -> Request]
  BY InvFacts
<1>1. CASE role = "admin"
  <2>1. PICK r : r = [Idle EXCEPT !.op = "check", !.pc = "answered", !.role = role,
                                  !.perms = {p}, !.answer = "granted", !.held = HeldPerms]
    OBVIOUS
  <2>2. HeldPerms = Perms
    BY <1>0, <1>1, HeldFacts
  <2>3. /\ r.op = "check" /\ r.pc = "answered" /\ r.role = role /\ r.perms = {p}
        /\ r.answer = "granted" /\ r.held = HeldPerms
    BY <2>1 DEF Idle
  <2>4. r \in Request
    BY <1>0, <2>1, <2>2 DEF Idle, Request, Points, TablesOK
  <2>5. Good(r)
    BY <1>0, <2>2, <2>3 DEF Good, Shape, Sound, Exact, Replacing, AboutUser, UnderWay, TablesOK
  <2>6. request' = [request EXCEPT ![w] = r] /\ UNCHANGED <<role, granted, assigned, doubled>>
    BY <1>1, <2>1 DEF CheckBegin
  <2> QED
    BY <2>4, <2>5, <2>6, OneMoves
<1>2. CASE role # "admin"
  <2>1. PICK r : r = [Idle EXCEPT !.op = "check", !.pc = "check_roles", !.role = role,
                                  !.perms = {p}, !.loaded = {}, !.held = HeldPerms]
    OBVIOUS
  <2>2. HeldPerms \subseteq Perms /\ PackRole[role] \subseteq HeldPerms
    BY <1>0, HeldFacts
  <2>3. /\ r.op = "check" /\ r.pc = "check_roles" /\ r.role = role /\ r.perms = {p}
        /\ r.held = HeldPerms
    BY <2>1 DEF Idle
  <2>4. r \in Request
    BY <1>0, <2>1, <2>2 DEF Idle, Request, Points, TablesOK
  <2>5. Good(r)
    BY <1>0, <1>2, <2>2, <2>3
       DEF Good, Shape, Sound, Exact, Replacing, AboutUser, UnderWay, TablesOK
  <2>6. request' = [request EXCEPT ![w] = r] /\ UNCHANGED <<role, granted, assigned, doubled>>
    BY <1>2, <2>1 DEF CheckBegin, Start
  <2> QED
    BY <2>4, <2>5, <2>6, OneMoves
<1> QED
  BY <1>1, <1>2

\* A request under way is answered.
LEMMA AnswerStep ==
    ASSUME AuthorizationInv, NEW w \in Workers, NEW answer \in {"granted", "denied", "error"},
           request[w].op = "check", request[w].pc # "answered",
           Answer(w, answer), UNCHANGED <<role, granted, assigned, doubled>>,
           answer = "granted" => request[w].perms \subseteq request[w].held,
           request[w].quiet => (answer = "denied" <=> ~(request[w].perms \subseteq HeldPerms))
    PROVE  AuthorizationInv'
<1>0. request \in [Workers -> Request] /\ request[w] \in Request /\ Good(request[w])
  BY InvFacts
<1>1. PICK r : r = [request[w] EXCEPT !.pc = "answered", !.answer = answer]
  OBVIOUS
<1>2. /\ r.op = "check" /\ r.pc = "answered" /\ r.role = request[w].role
      /\ r.perms = request[w].perms /\ r.answer = answer /\ r.held = request[w].held
      /\ r.quiet = request[w].quiet
  BY <1>0, <1>1 DEF Request
<1>3. r \in Request
  BY <1>0, <1>1 DEF Request, Points
<1>4. Good(r)
  BY <1>0, <1>2 DEF Good, Shape, Sound, Exact, Replacing, AboutUser, UnderWay
<1>5. request' = [request EXCEPT ![w] = r]
  BY <1>0, <1>1 DEF Answer
<1> QED
  BY <1>3, <1>4, <1>5, OneMoves

LEMMA CheckRolesStep ==
    ASSUME AuthorizationInv, NEW w \in Workers, CheckRoles(w)
    PROVE  AuthorizationInv'
<1>0. /\ TablesOK /\ request \in [Workers -> Request]
      /\ request[w] \in Request /\ Good(request[w])
  BY InvFacts
<1>1. /\ request[w].pc = "check_roles" /\ request[w].op = "check"
      /\ UNCHANGED <<role, granted, assigned, doubled>>
  BY <1>0 DEF CheckRoles, At, Good, Shape, Request
<1>2. PICK p \in Perms : request[w].perms = {p}
  BY <1>0, <1>1 DEF Good, Shape
<1>3. /\ IsFiniteSet(Granting(p)) /\ Cardinality({}) = 0
      /\ Granting(p) # {} => p \in HeldPerms
  BY <1>0, HeldFacts, AuthorizationAssumption, FS_Subset, FS_EmptySet DEF Granting
<1>4. HeldPerms \subseteq request[w].held
  BY <1>0, <1>1 DEF Good, Sound, UnderWay, AboutUser
<1>5. CASE Granting(p) = {} /\ request' = [request EXCEPT ![w].pc = "check_system"]
  <2>1. PICK r : r = [request[w] EXCEPT !.pc = "check_system"]
    OBVIOUS
  <2>2. /\ r.op = "check" /\ r.pc = "check_system" /\ r.role = request[w].role
        /\ r.perms = {p} /\ r.held = request[w].held /\ r.quiet = request[w].quiet
    BY <1>0, <1>1, <1>2, <2>1 DEF Request
  <2>3. r \in Request
    BY <1>0, <2>1 DEF Request, Points
  <2>4. Good(r)
    BY <1>0, <1>1, <1>5, <2>2 DEF Good, Shape, Sound, Exact, Replacing, AboutUser, UnderWay
  <2>5. request' = [request EXCEPT ![w] = r]
    BY <1>0, <1>5, <2>1
  <2> QED
    BY <1>1, <2>3, <2>4, <2>5, OneMoves
<1>6. CASE Granting(p) # {} /\ \E answer \in {"granted", "error"} : Answer(w, answer)
  <2>1. PICK answer \in {"granted", "error"} : Answer(w, answer)
    BY <1>6
  <2> QED
    BY <1>1, <1>2, <1>3, <1>4, <1>6, <2>1, AnswerStep
<1>7. \/ Granting(p) = {} /\ request' = [request EXCEPT ![w].pc = "check_system"]
      \/ Cardinality(Granting(p)) = 1 /\ Answer(w, "granted")
      \/ Cardinality(Granting(p)) > 1 /\ Answer(w, "error")
  BY <1>2 DEF CheckRoles
<1> QED
  BY <1>3, <1>5, <1>6, <1>7

LEMMA CheckSystemStep ==
    ASSUME AuthorizationInv, NEW w \in Workers, CheckSystem(w)
    PROVE  AuthorizationInv'
<1>0. /\ TablesOK /\ request[w] \in Request /\ Good(request[w])
  BY InvFacts
<1>1. /\ request[w].pc = "check_system" /\ request[w].op = "check"
      /\ UNCHANGED <<role, granted, assigned, doubled>>
  BY <1>0 DEF CheckSystem, At, Good, Shape, Request
<1>2. PICK p \in Perms : request[w].perms = {p}
  BY <1>0, <1>1 DEF Good, Shape
<1>3. PackRole[request[w].role] \subseteq request[w].held
  BY <1>0, <1>1 DEF Good, Sound, UnderWay, AboutUser
<1>4. request[w].quiet => (p \in PackRole[request[w].role] <=> p \in HeldPerms)
  BY <1>0, <1>1, <1>2, HeldFacts DEF Good, Exact, UnderWay, AboutUser
<1>5. CASE p \in PackRole[request[w].role]
  <2>1. PICK answer \in {"granted", "error"} : Answer(w, answer)
    BY <1>2, <1>5 DEF CheckSystem
  <2> QED
    BY <1>1, <1>2, <1>3, <1>4, <1>5, <2>1, AnswerStep
<1>6. CASE p \notin PackRole[request[w].role]
  <2>1. Answer(w, "denied")
    BY <1>2, <1>6 DEF CheckSystem
  <2> QED
    BY <1>1, <1>2, <1>4, <1>6, <2>1, AnswerStep
<1> QED
  BY <1>5, <1>6

LEMMA TokenBeginStep ==
    ASSUME AuthorizationInv, NEW w \in Workers, NEW requested \in SUBSET Perms,
           TokenBegin(w, requested)
    PROVE  AuthorizationInv'
<1>0. TablesOK /\ request \in [Workers -> Request]
  BY InvFacts
<1>1. PICK r : r = [Idle EXCEPT !.op = "token", !.pc = "claim", !.role = role,
                                !.perms = requested, !.loaded = {}, !.held = HeldPerms]
  OBVIOUS
<1>2. HeldPerms \subseteq Perms /\ PackRole[role] \subseteq HeldPerms
  BY <1>0, HeldFacts
<1>3. r.op = "token" /\ r.pc = "claim" /\ r.role = role /\ r.held = HeldPerms
  BY <1>1 DEF Idle
<1>4. r \in Request
  BY <1>0, <1>1, <1>2 DEF Idle, Request, Points, TablesOK
<1>5. Good(r)
  BY <1>0, <1>2, <1>3 DEF Good, Shape, Sound, Exact, Replacing, AboutUser, UnderWay, TablesOK
<1>6. request' = [request EXCEPT ![w] = r] /\ UNCHANGED <<role, granted, assigned, doubled>>
  BY <1>1 DEF TokenBegin, Start
<1> QED
  BY <1>4, <1>5, <1>6, OneMoves

LEMMA BuildClaimStep ==
    ASSUME AuthorizationInv, NEW w \in Workers, BuildClaim(w)
    PROVE  AuthorizationInv'
<1>0. /\ TablesOK /\ request \in [Workers -> Request]
      /\ request[w] \in Request /\ Good(request[w])
  BY InvFacts
<1> DEFINE requested == request[w].perms
           allowed == PackRole[request[w].role] \cup AssignedPerms
           claim == IF requested = {} THEN allowed ELSE allowed \cap requested
           invalid == requested # {} /\ (claim = {} \/ (Strict /\ claim # requested))
<1>1. PICK r : r = [request[w] EXCEPT !.pc = "answered",
                                      !.answer = IF invalid THEN "denied" ELSE "granted",
                                      !.loaded = IF invalid THEN {} ELSE claim]
  OBVIOUS
<1>2. /\ request[w].pc = "claim" /\ request[w].op = "token" /\ requested \subseteq Perms
      /\ request[w].role \in LegacyRoles
  BY <1>0 DEF BuildClaim, At, Good, Shape, Request
<1>3. /\ allowed \subseteq request[w].held /\ allowed \subseteq Perms
      /\ request[w].quiet => allowed = HeldPerms
  BY <1>0, <1>2, HeldFacts, AuthorizationAssumption
     DEF Good, Sound, Exact, UnderWay, AboutUser, AssignedPerms
<1>4. /\ r.op = "token" /\ r.pc = "answered" /\ r.role = request[w].role
      /\ r.perms = requested /\ r.held = request[w].held /\ r.quiet = request[w].quiet
      /\ r.answer = (IF invalid THEN "denied" ELSE "granted")
      /\ r.loaded = (IF invalid THEN {} ELSE claim)
  BY <1>0, <1>1, <1>2 DEF Request
<1>5. claim \subseteq allowed /\ claim \subseteq Perms
  BY <1>3
<1>6. r \in Request
  BY <1>0, <1>1, <1>5 DEF Request, Points
<1>7. request' = [request EXCEPT ![w] = r] /\ UNCHANGED <<role, granted, assigned, doubled>>
  BY <1>0, <1>1 DEF BuildClaim
<1>8. Good(r)
  <2>1. Shape(r) /\ Replacing(r)
    BY <1>0, <1>2, <1>4 DEF Shape, Replacing
  <2>2. Sound(r)
    BY <1>3, <1>4, <1>5 DEF Sound, UnderWay, AboutUser
  <2>3. r.quiet /\ r.answer = "granted" =>
          r.loaded = IF r.perms = {} THEN HeldPerms ELSE HeldPerms \cap r.perms
    BY <1>3, <1>4
  <2>4. Exact(r)
    BY <1>4, <2>3 DEF Exact, UnderWay, AboutUser
  <2> QED
    BY <2>1, <2>2, <2>4 DEF Good
<1> QED
  BY <1>6, <1>7, <1>8, OneMoves

LEMMA FinishStep ==
    ASSUME AuthorizationInv, NEW w \in Workers, Finish(w), UNCHANGED <<role, granted, assigned, doubled>>
    PROVE  AuthorizationInv'
BY IdleGood, OneMoves DEF Finish

LEMMA ReplaceBeginStep ==
    ASSUME AuthorizationInv, NEW w \in Workers, NEW q \in CustomRoles,
           NEW perms \in SUBSET Perms, ReplaceBegin(w, q, perms)
    PROVE  AuthorizationInv'
<1>0. TablesOK /\ request \in [Workers -> Request]
  BY InvFacts
<1>1. PICK r : r = [Idle EXCEPT !.op = "replace", !.pc = "replace", !.role = q,
                                !.perms = perms, !.loaded = granted[q], !.held = {}]
  OBVIOUS
<1>2. q \in Existing /\ granted[q] \subseteq Perms
  BY <1>0 DEF ReplaceBegin, TablesOK
<1>3. r.op = "replace" /\ r.pc = "replace" /\ r.role = q /\ r.loaded = granted[q]
  BY <1>1 DEF Idle
<1>4. r \in Request
  BY <1>1, <1>2 DEF Idle, Request, Points
<1>5. Good(r)
  BY <1>2, <1>3 DEF Good, Shape, Sound, Exact, Replacing, AboutUser, UnderWay
<1>6. request' = [request EXCEPT ![w] = r] /\ UNCHANGED <<role, granted, assigned, doubled>>
  BY <1>1 DEF ReplaceBegin, Start
<1> QED
  BY <1>4, <1>5, <1>6, OneMoves

-------------------------------------------------------------------------------
(* The steps that change the tables.                                       *)

\* A commit that the requests about the user witness, and that leaves the others well.
LEMMA Witnessed ==
    ASSUME AuthorizationInv, TablesOK', NEW requests \in [Workers -> Request],
           request' = Witness(requests),
           \A w \in Workers : AboutUser(requests[w]) => requests[w] = request[w],
           \A w \in Workers : ~AboutUser(requests[w]) => Shape(requests[w]),
           \A w \in Workers : ~AboutUser(requests[w]) => Replacing(requests[w])'
    PROVE  AuthorizationInv'
<1>1. request \in [Workers -> Request] /\ \A w \in Workers : Good(request[w])
  BY InvFacts
<1>2. PICK held : held = HeldPerms'
  OBVIOUS
<1>3. held \subseteq Perms
  BY <1>2, HeldTypeNext DEF HeldIsTyped
<1>4. ASSUME NEW v \in Workers PROVE request'[v] \in Request /\ Good(request[v])'
  <2>1. PICK q : q = requests[v]
    OBVIOUS
  <2>2. q \in Request
    BY <2>1
  <2>3. CASE ~AboutUser(q)
    <3>1. request'[v] = q
      BY <2>1, <2>3 DEF Witness, AboutUser
    <3>2. Shape(q) /\ Replacing(q)'
      BY <2>1, <2>3
    <3>3. Sound(q)' /\ Exact(q)'
      BY <2>2, <2>3, <3>2 DEF Sound, Exact, Shape, AboutUser, UnderWay, Request
    <3>4. Good(q)'
      BY <3>2, <3>3 DEF Good, Shape
    <3> QED
      BY <2>2, <3>1, <3>4 DEF Good, Shape, Sound, Exact, Replacing, AboutUser, UnderWay, Existing
  <2>4. CASE AboutUser(q)
    <3>1. PICK r : r = [q EXCEPT !.quiet = FALSE,
                                 !.held = IF request[v].pc = "answered" THEN @ ELSE @ \cup held]
      OBVIOUS
    <3>2. q = request[v] /\ Good(q)
      BY <1>1, <2>1, <2>4
    <3>3. request'[v] = r
      BY <1>2, <2>1, <2>4, <3>1 DEF Witness, AboutUser, At
    <3>4. r \in Request
      BY <1>3, <2>2, <3>1 DEF Request
    <3>5. /\ r.op = q.op /\ r.pc = q.pc /\ r.role = q.role /\ r.perms = q.perms
          /\ r.loaded = q.loaded /\ r.answer = q.answer /\ r.quiet = FALSE
          /\ r.held = (IF q.pc = "answered" THEN q.held ELSE q.held \cup held)
      BY <2>2, <3>1, <3>2 DEF Request
    <3>6. Shape(r)
      BY <3>2, <3>5 DEF Good, Shape
    <3>7. Sound(r)'
      BY <1>2, <3>2, <3>5 DEF Good, Sound, UnderWay, AboutUser
    <3>8. Exact(r)'
      BY <3>2, <3>5 DEF Good, Exact, UnderWay, AboutUser
    <3>9. Replacing(r)'
      BY <2>4, <3>5 DEF Replacing, AboutUser
    <3>10. Good(r)'
      BY <3>6, <3>7, <3>8, <3>9 DEF Good, Shape
    <3> QED
      BY <3>3, <3>4, <3>10 DEF Good, Shape, Sound, Exact, Replacing, AboutUser, UnderWay, Existing
  <2> QED
    BY <2>3, <2>4
<1>5. request' \in [Workers -> Request]
  BY <1>4 DEF Witness
<1>6. TypeOK'
  BY <1>5 DEF TypeOK, TablesOK
<1> QED
  BY <1>4, <1>6 DEF AuthorizationInv

\* In particular one that leaves the roles that are there as they are.
LEMMA WitnessedSameRoles ==
    ASSUME AuthorizationInv, TablesOK', request' = Witness(request),
           Existing \subseteq Existing', \A q \in Existing : granted'[q] = granted[q]
    PROVE  AuthorizationInv'
<1>1. PICK requests : requests = request
  OBVIOUS
<1>2. requests \in [Workers -> Request] /\ request' = Witness(requests)
  BY <1>1, InvFacts
<1>3. /\ \A w \in Workers : requests[w] = request[w]
      /\ \A w \in Workers : Shape(requests[w])
  BY <1>1, InvFacts DEF Good
<1>4. ASSUME NEW w \in Workers PROVE Replacing(requests[w])'
  <2>1. Replacing(requests[w])
    BY <1>1, InvFacts DEF Good
  <2> QED
    BY <2>1 DEF Replacing
<1> QED
  BY <1>2, <1>3, <1>4, Witnessed

LEMMA SetRoleStep ==
    ASSUME AuthorizationInv, NEW r \in LegacyRoles, SetRole(r)
    PROVE  AuthorizationInv'
BY InvFacts, WitnessedSameRoles DEF SetRole, TablesOK, Existing

LEMMA CreateRoleStep ==
    ASSUME AuthorizationInv, NEW r \in CustomRoles, CreateRole(r)
    PROVE  AuthorizationInv'
<1>0. TablesOK
  BY InvFacts
<1>1. Existing' = Existing \cup {r} /\ \A q \in Existing : granted'[q] = granted[q]
  BY DEF CreateRole, Existing
<1>2. TablesOK'
  BY <1>0, <1>1 DEF CreateRole, TablesOK
<1> QED
  BY <1>1, <1>2, WitnessedSameRoles DEF CreateRole

LEMMA AssignRoleStep ==
    ASSUME AuthorizationInv, NEW i \in Rows, NEW r \in SystemRoles \cup CustomRoles,
           AssignRole(i, r)
    PROVE  AuthorizationInv'
<1>1. TablesOK'
  BY InvFacts DEF AssignRole, TablesOK, Existing
<1> QED
  BY <1>1, WitnessedSameRoles DEF AssignRole, Existing

LEMMA RemoveRoleStep ==
    ASSUME AuthorizationInv, NEW i \in Rows, RemoveRole(i)
    PROVE  AuthorizationInv'
<1>1. TablesOK'
  BY InvFacts DEF RemoveRole, TablesOK, Existing
<1> QED
  BY <1>1, WitnessedSameRoles DEF RemoveRole, Existing

LEMMA SeedAgainStep ==
    ASSUME AuthorizationInv, NEW r \in SystemRoles, SeedAgain(r)
    PROVE  AuthorizationInv'
<1>1. UNCHANGED <<role, granted, assigned, request>> /\ doubled' \subseteq SystemRoles
  BY InvFacts DEF SeedAgain, TablesOK
<1>2. TypeOK'
  BY <1>1 DEF AuthorizationInv, TypeOK, Existing
<1>3. HeldPerms' = HeldPerms /\ \A p : Granting(p)' = Granting(p)
  BY <1>1 DEF HeldPerms, Granting, PermissionsOf, Existing
<1>4. ASSUME NEW w \in Workers PROVE Good(request[w])'
  <2>1. Good(request[w])
    BY DEF AuthorizationInv
  <2> QED
    BY <1>1, <1>3, <2>1
       DEF Good, Shape, Sound, Exact, Replacing, AboutUser, UnderWay, Existing
<1> QED
  BY <1>2, <1>4 DEF AuthorizationInv

LEMMA DeleteRoleStep ==
    ASSUME AuthorizationInv, NEW q \in CustomRoles, DeleteRole(q)
    PROVE  AuthorizationInv'
<1>0. TablesOK /\ request \in [Workers -> Request] /\ \A w \in Workers : Good(request[w])
  BY InvFacts
<1>1. PICK requests : requests = [w \in Workers |->
                         IF request[w].op = "replace" /\ request[w].role = q
                           THEN [request[w] EXCEPT !.role = None] ELSE request[w]]
  OBVIOUS
<1>2. request' = Witness(requests)
  BY <1>1 DEF DeleteRole
<1>3. Existing' = Existing \ {q} /\ \A r \in Existing' : granted'[r] = granted[r]
  BY DEF DeleteRole, Existing
<1>4. TablesOK'
  BY <1>0, <1>3 DEF DeleteRole, TablesOK
<1>5. ASSUME NEW w \in Workers
      PROVE  /\ requests[w] \in Request
             /\ AboutUser(requests[w]) => requests[w] = request[w]
             /\ Shape(requests[w]) /\ Replacing(requests[w])'
  <2>0. request[w] \in Request /\ Shape(request[w]) /\ Replacing(request[w])
    BY <1>0 DEF Good
  <2>1. CASE request[w].op = "replace" /\ request[w].role = q
    <3>1. requests[w] = [request[w] EXCEPT !.role = None]
      BY <1>1, <2>1
    <3>2. /\ requests[w].op = "replace" /\ requests[w].pc = request[w].pc
          /\ requests[w].role = None
      BY <2>0, <2>1, <3>1 DEF Request
    <3>3. requests[w] \in Request
      BY <2>0, <3>1 DEF Request
    <3>4. Shape(requests[w]) /\ ~AboutUser(requests[w])
      BY <2>0, <2>1, <3>2 DEF Shape, AboutUser
    <3>5. Replacing(requests[w])'
      BY <3>2 DEF Replacing
    <3> QED
      BY <3>3, <3>4, <3>5
  <2>2. CASE ~(request[w].op = "replace" /\ request[w].role = q)
    <3>1. requests[w] = request[w]
      BY <1>1, <2>2
    <3>2. Replacing(requests[w])'
      BY <1>3, <2>0, <2>2, <3>1 DEF Replacing
    <3> QED
      BY <2>0, <3>1, <3>2
  <2> QED
    BY <2>1, <2>2
<1>6. requests \in [Workers -> Request]
  BY <1>1, <1>5
<1> QED
  BY <1>2, <1>4, <1>5, <1>6, Witnessed

LEMMA ReplaceStep ==
    ASSUME AuthorizationInv, NEW w \in Workers, Replace(w), Storable(w)
    PROVE  AuthorizationInv'
<1>0. TablesOK /\ request \in [Workers -> Request] /\ \A v \in Workers : Good(request[v])
  BY InvFacts
<1>1. PICK q, new, seen : q = request[w].role /\ new = request[w].perms
                          /\ seen = request[w].loaded
  OBVIOUS
<1>2. PICK requests : requests = [v \in Workers |->
          IF v = w THEN Idle
          ELSE IF request[v].op = "replace" /\ request[v].role = q
            THEN [request[v] EXCEPT !.loaded = @ \ seen, !.others = @ \cup new]
            ELSE request[v]]
  OBVIOUS
<1>3. /\ q \in Existing /\ new \subseteq Perms /\ UNCHANGED <<role, assigned, doubled>>
      /\ granted' = [granted EXCEPT ![q] = (granted[q] \ seen) \cup new]
      /\ request' = Witness(requests)
  BY <1>0, <1>1, <1>2 DEF Replace, Storable, Kept, Request
<1>4. Existing' = Existing /\ TablesOK'
  BY <1>0, <1>3 DEF TablesOK, Existing
<1>5. ASSUME NEW v \in Workers
      PROVE  /\ requests[v] \in Request
             /\ AboutUser(requests[v]) => requests[v] = request[v]
             /\ Shape(requests[v]) /\ Replacing(requests[v])'
  <2>0. request[v] \in Request /\ Shape(request[v]) /\ Replacing(request[v])
    BY <1>0 DEF Good
  <2>1. CASE v = w
    <3>1. requests[v] = Idle
      BY <1>2, <2>1
    <3>2. Idle \in Request /\ Shape(Idle) /\ Idle.op = "none"
      BY IdleGood DEF Good, Idle
    <3> QED
      BY <3>1, <3>2 DEF Replacing, AboutUser
  <2>2. CASE v # w /\ request[v].op = "replace" /\ request[v].role = q
    <3>1. requests[v] = [request[v] EXCEPT !.loaded = @ \ seen, !.others = @ \cup new]
      BY <1>2, <2>2
    <3>2. /\ requests[v].op = "replace" /\ requests[v].pc = request[v].pc
          /\ requests[v].role = q
          /\ requests[v].loaded = request[v].loaded \ seen
          /\ requests[v].others = request[v].others \cup new
      BY <2>0, <2>2, <3>1 DEF Request
    <3>3. requests[v] \in Request
      BY <1>3, <2>0, <3>1 DEF Request
    <3>4. Shape(requests[v]) /\ ~AboutUser(requests[v])
      BY <2>0, <2>2, <3>2 DEF Shape, AboutUser
    <3>5. granted[q] \subseteq request[v].loaded \cup request[v].others
      BY <1>0, <1>3, <2>0, <2>2, AuthorizationAssumption DEF Replacing, TablesOK
    <3>6. granted'[q] = (granted[q] \ seen) \cup new
      BY <1>0, <1>3 DEF TablesOK
    <3>7. Replacing(requests[v])'
      BY <1>3, <1>4, <3>2, <3>5, <3>6 DEF Replacing
    <3> QED
      BY <3>3, <3>4, <3>7
  <2>3. CASE v # w /\ ~(request[v].op = "replace" /\ request[v].role = q)
    <3>1. requests[v] = request[v]
      BY <1>2, <2>3
    <3>2. ASSUME NEW p \in Existing, p # q PROVE granted'[p] = granted[p]
      BY <1>0, <1>3, <3>2 DEF TablesOK
    <3>3. Replacing(requests[v])'
      BY <1>4, <2>0, <2>3, <3>1, <3>2 DEF Replacing
    <3> QED
      BY <2>0, <3>1, <3>3
  <2> QED
    BY <2>1, <2>2, <2>3
<1>6. requests \in [Workers -> Request]
  BY <1>2, <1>5
<1> QED
  BY <1>3, <1>4, <1>5, <1>6, Witnessed

-------------------------------------------------------------------------------
(* The theorems.                                                           *)

LEMMA InitInv == Init => AuthorizationInv
<1> SUFFICES ASSUME Init PROVE AuthorizationInv
  OBVIOUS
<1>1. TypeOK
  BY IdleGood DEF Init, TypeOK, Existing
<1>2. \A w \in Workers : Good(request[w])
  BY IdleGood DEF Init
<1> QED
  BY <1>1, <1>2 DEF AuthorizationInv

LEMMA StepInv == AuthorizationInv /\ [Next]_vars => AuthorizationInv'
<1> SUFFICES ASSUME AuthorizationInv, [Next]_vars PROVE AuthorizationInv'
  OBVIOUS
<1>1. ASSUME NEW w \in Workers, Serve(w) PROVE AuthorizationInv'
  <2>1. CASE \E p \in Perms : CheckBegin(w, p)
    BY <2>1, CheckBeginStep
  <2>2. CASE CheckRoles(w)
    BY <2>2, CheckRolesStep
  <2>3. CASE CheckSystem(w)
    BY <2>3, CheckSystemStep
  <2>4. CASE \E requested \in SUBSET Perms : TokenBegin(w, requested)
    BY <2>4, TokenBeginStep
  <2>5. CASE BuildClaim(w)
    BY <2>5, BuildClaimStep
  <2>6. CASE Respond(w) \/ Abandon(w)
    BY <2>6, FinishStep DEF Respond, Abandon
  <2>7. CASE \E r \in CustomRoles, perms \in SUBSET Perms : ReplaceBegin(w, r, perms)
    BY <2>7, ReplaceBeginStep
  <2>8. CASE Replace(w)
    <3>1. CASE Storable(w)
      BY <2>8, <3>1, ReplaceStep
    <3>2. CASE ~Storable(w)
      BY <2>8, <3>2, FinishStep DEF Replace
    <3> QED
      BY <3>1, <3>2
  <2> QED
    BY <1>1, <2>1, <2>2, <2>3, <2>4, <2>5, <2>6, <2>7, <2>8 DEF Serve
<1>2. CASE Administer
  BY <1>2, SetRoleStep, CreateRoleStep, DeleteRoleStep, AssignRoleStep, RemoveRoleStep,
     SeedAgainStep DEF Administer
<1>3. CASE UNCHANGED vars
  <2>1. UNCHANGED <<role, granted, assigned, doubled, request>>
    BY <1>3 DEF vars
  <2>2. TypeOK'
    BY <2>1 DEF AuthorizationInv, TypeOK, Existing
  <2>3. HeldPerms' = HeldPerms /\ \A p : Granting(p)' = Granting(p)
    BY <2>1 DEF HeldPerms, Granting, PermissionsOf, Existing
  <2>4. ASSUME NEW w \in Workers PROVE Good(request[w])'
    <3>1. Good(request[w])
      BY DEF AuthorizationInv
    <3> QED
      BY <2>1, <2>3, <3>1
         DEF Good, Shape, Sound, Exact, Replacing, AboutUser, UnderWay, Existing
  <2> QED
    BY <2>2, <2>4 DEF AuthorizationInv
<1> QED
  BY <1>1, <1>2, <1>3 DEF Next

LEMMA Invariance == Spec => []AuthorizationInv
BY InitInv, StepInv, PTL DEF Spec

\* Roles, permissions, assignments and suspended requests are well formed; an assignment
\* never names a role that was deleted.
THEOREM TypeCorrectness == Spec => []TypeOK
BY Invariance, PTL DEF AuthorizationInv

\* Nothing is granted or stamped on a token that the user did not hold at some moment
\* while the request was served.
THEOREM AnswerSafety == Spec => []AnswersWereHeld
<1>1. AuthorizationInv => AnswersWereHeld
  BY DEF AuthorizationInv, Good, Sound, AnswersWereHeld, AnsweredTo, At
<1> QED
  BY <1>1, Invariance, PTL

\* Undisturbed, the gate and the scope claim answer what the roles say.
THEOREM Agreement == Spec => []AnswersExact
<1>1. AuthorizationInv => AnswersExact
  BY DEF AuthorizationInv, Good, Exact, AnswersExact, AnsweredTo, At
<1> QED
  BY <1>1, Invariance, PTL

\* After a replacement, a role has no permission but its own and those of replacements
\* that were stored while it was under way.
THEOREM Removal == Spec => RemovedPermissionsGo
<1>1. ASSUME AuthorizationInv, NEW w \in Workers, Replace(w), Storable(w)
      PROVE  granted'[request[w].role] \subseteq request[w].perms \cup request[w].others
  <2>1. TablesOK /\ request[w] \in Request /\ Shape(request[w]) /\ Replacing(request[w])
    BY <1>1, InvFacts DEF Good
  <2>2. /\ request[w].op = "replace" /\ request[w].role \in Existing
        /\ granted' = [granted EXCEPT ![request[w].role] = Kept(w) \cup request[w].perms]
    BY <1>1, <2>1 DEF Replace, Storable, At, Shape
  <2>3. request[w].role # None
    BY <2>1, <2>2, AuthorizationAssumption DEF TablesOK
  <2>4. Kept(w) \subseteq request[w].others
    BY <2>1, <2>2, <2>3 DEF Replacing, Kept
  <2>5. granted'[request[w].role] = Kept(w) \cup request[w].perms
    BY <2>1, <2>2 DEF TablesOK
  <2> QED
    BY <2>4, <2>5
<1>2. AuthorizationInv => [\A w \in Workers : Replace(w) /\ Storable(w) =>
        granted'[request[w].role] \subseteq request[w].perms \cup request[w].others]_vars
  BY <1>1
<1> QED
  BY <1>2, Invariance, PTL DEF RemovedPermissionsGo

\* docs/rbac.md promises a user all permissions of all assigned roles.  As long as no
\* permission reaches the user by two assignments, the check fails to answer only for a
\* user whose legacy role has two rows in roles.
THEOREM Inheritance == Spec /\ []PermissionsApart => []InheritsFromAllRoles
<1> DEFINE Excused(r) == r.answer = "error" => r.op = "check" /\ r.role \in doubled
           I == AuthorizationInv /\ \A w \in Workers : Excused(request[w])
<1>1. Init => I
  <2>1. Init => \A w \in Workers : Excused(request[w])
    BY DEF Init, Idle
  <2> QED
    BY <2>1, InitInv
<1>2. ASSUME I, PermissionsApart, [Next]_vars PROVE \A v \in Workers : Excused(request[v])'
  <2>0. TablesOK /\ request \in [Workers -> Request]
    BY <1>2, InvFacts
  <2>1. ASSUME NEW w \in Workers, NEW r, r.answer # "error", doubled' = doubled,
               request' = [request EXCEPT ![w] = r]
        PROVE  \A v \in Workers : Excused(request[v])'
    BY <1>2, <2>0, <2>1
  <2>2. ASSUME NEW w \in Workers, Finish(w), doubled' = doubled
        PROVE  \A v \in Workers : Excused(request[v])'
    BY <2>1, <2>2 DEF Finish, Idle
  <2>3. ASSUME NEW w \in Workers, NEW answer \in {"granted", "denied", "error"},
               Answer(w, answer), doubled' = doubled,
               answer = "error" => request[w].op = "check" /\ request[w].role \in doubled
        PROVE  \A v \in Workers : Excused(request[v])'
    <3>1. PICK r : r = [request[w] EXCEPT !.pc = "answered", !.answer = answer]
      OBVIOUS
    <3>2. r.answer = answer /\ r.op = request[w].op /\ r.role = request[w].role
      BY <2>0, <3>1 DEF Request
    <3>3. request' = [request EXCEPT ![w] = r]
      BY <2>0, <2>3, <3>1 DEF Answer
    <3> QED
      BY <1>2, <2>0, <2>3, <3>2, <3>3
  <2>4. ASSUME NEW requests \in [Workers -> Request], request' = Witness(requests),
               doubled' = doubled, \A w \in Workers : Excused(requests[w])
        PROVE  \A v \in Workers : Excused(request[v])'
    <3> SUFFICES ASSUME NEW v \in Workers PROVE Excused(request[v])'
      OBVIOUS
    <3>1. PICK held : held = HeldPerms'
      OBVIOUS
    <3>2. PICK q \in Request : q = requests[v]
      BY <2>4
    <3>3. PICK r : r = [q EXCEPT !.quiet = FALSE,
                                 !.held = IF At(v, "answered") THEN @ ELSE @ \cup held]
      OBVIOUS
    <3>4. r.answer = q.answer /\ r.op = q.op /\ r.role = q.role
      BY <3>2, <3>3 DEF Request
    <3>5. request'[v] \in {q, r}
      BY <2>4, <3>1, <3>2, <3>3 DEF Witness
    <3> QED
      BY <2>4, <3>2, <3>4, <3>5
  <2>5. ASSUME NEW w \in Workers, Serve(w) PROVE \A v \in Workers : Excused(request[v])'
    <3>1. CASE \E p \in Perms : CheckBegin(w, p)
      <4>1. PICK p \in Perms : CheckBegin(w, p)
        BY <3>1
      <4>2. PICK r, held : /\ held = HeldPerms
                           /\ r \in {[Idle EXCEPT !.op = "check", !.pc = "answered", !.role = role,
                                        !.perms = {p}, !.answer = "granted", !.held = held],
                                     [Idle EXCEPT !.op = "check", !.pc = "check_roles", !.role = role,
                                        !.perms = {p}, !.loaded = {}, !.held = held]}
                           /\ request' = [request EXCEPT ![w] = r] /\ doubled' = doubled
        BY <4>1 DEF CheckBegin, Start
      <4>3. r.answer # "error"
        BY <4>2 DEF Idle
      <4> QED
        BY <2>1, <4>2, <4>3
    <3>2. CASE CheckRoles(w)
      <4>1. PICK p \in request[w].perms :
              \/ Granting(p) = {} /\ request' = [request EXCEPT ![w].pc = "check_system"]
              \/ Cardinality(Granting(p)) = 1 /\ Answer(w, "granted")
              \/ Cardinality(Granting(p)) > 1 /\ Answer(w, "error")
        BY <3>2 DEF CheckRoles
      <4>2. p \in Perms
        BY <2>0, <4>1 DEF Request
      <4>3. ~(Cardinality(Granting(p)) > 1)
        <5>1. \A i, j \in Granting(p) : i = j
          BY <1>2, <4>2 DEF PermissionsApart, Granting
        <5>2. CASE Granting(p) = {}
          BY <5>2, FS_EmptySet
        <5>3. CASE Granting(p) # {}
          <6>1. PICK i : i \in Granting(p)
            BY <5>3
          <6>2. Granting(p) = {i}
            BY <5>1, <6>1
          <6>3. Cardinality({i}) = 1
            BY FS_Singleton
          <6> QED
            BY <6>2, <6>3
        <5> QED
          BY <5>2, <5>3
      <4>4. doubled' = doubled
        BY <3>2 DEF CheckRoles
      <4>5. CASE request' = [request EXCEPT ![w].pc = "check_system"]
        <5>1. PICK r : r = [request[w] EXCEPT !.pc = "check_system"]
          OBVIOUS
        <5>2. r.answer = request[w].answer /\ r.op = request[w].op /\ r.role = request[w].role
          BY <2>0, <5>1 DEF Request
        <5>3. request' = [request EXCEPT ![w] = r]
          BY <2>0, <4>5, <5>1
        <5> QED
          BY <1>2, <2>0, <4>4, <5>2, <5>3
      <4>6. CASE Answer(w, "granted")
        BY <2>3, <4>4, <4>6
      <4> QED
        BY <4>1, <4>3, <4>5, <4>6
    <3>3. CASE CheckSystem(w)
      <4>1. request[w].op = "check"
        BY <1>2, <3>3, InvFacts DEF CheckSystem, At, Good, Shape, Request
      <4>2. PICK answer \in {"granted", "denied", "error"} :
              Answer(w, answer) /\ (answer = "error" => request[w].role \in doubled)
        BY <3>3 DEF CheckSystem
      <4>3. doubled' = doubled
        BY <3>3 DEF CheckSystem
      <4> QED
        BY <2>3, <4>1, <4>2, <4>3
    <3>4. CASE \E requested \in SUBSET Perms : TokenBegin(w, requested)
      <4>1. PICK requested \in SUBSET Perms : TokenBegin(w, requested)
        BY <3>4
      <4>2. PICK r, held : /\ held = HeldPerms
                           /\ r = [Idle EXCEPT !.op = "token", !.pc = "claim", !.role = role,
                                     !.perms = requested, !.loaded = {}, !.held = held]
                           /\ request' = [request EXCEPT ![w] = r] /\ doubled' = doubled
        BY <4>1 DEF TokenBegin, Start
      <4>3. r.answer # "error"
        BY <4>2 DEF Idle
      <4> QED
        BY <2>1, <4>2, <4>3
    <3>5. CASE BuildClaim(w)
      <4> DEFINE requested == request[w].perms
                 allowed == PackRole[request[w].role] \cup AssignedPerms
                 claim == IF requested = {} THEN allowed ELSE allowed \cap requested
                 invalid == requested # {} /\ (claim = {} \/ (Strict /\ claim # requested))
      <4>1. PICK r : r = [request[w] EXCEPT !.pc = "answered",
                                            !.answer = IF invalid THEN "denied" ELSE "granted",
                                            !.loaded = IF invalid THEN {} ELSE claim]
        OBVIOUS
      <4>2. r.answer \in {"granted", "denied"}
        BY <2>0, <4>1 DEF Request
      <4>3. request' = [request EXCEPT ![w] = r] /\ doubled' = doubled
        BY <2>0, <3>5, <4>1 DEF BuildClaim
      <4> QED
        BY <2>1, <4>2, <4>3
    <3>6. CASE Respond(w) \/ Abandon(w)
      BY <2>2, <3>6 DEF Respond, Abandon
    <3>7. CASE \E q \in CustomRoles, perms \in SUBSET Perms : ReplaceBegin(w, q, perms)
      <4>1. PICK q \in CustomRoles, perms \in SUBSET Perms : ReplaceBegin(w, q, perms)
        BY <3>7
      <4>2. PICK r : /\ r = [Idle EXCEPT !.op = "replace", !.pc = "replace", !.role = q,
                               !.perms = perms, !.loaded = granted[q], !.held = {}]
                     /\ request' = [request EXCEPT ![w] = r] /\ doubled' = doubled
        BY <4>1 DEF ReplaceBegin, Start
      <4>3. r.answer # "error"
        BY <4>2 DEF Idle
      <4> QED
        BY <2>1, <4>2, <4>3
    <3>8. CASE Replace(w)
      <4>1. PICK q, seen, new : /\ q = request[w].role /\ seen = request[w].loaded
                                /\ new = request[w].perms
        OBVIOUS
      <4>2. PICK requests : requests = [v \in Workers |->
              IF v = w THEN Idle
              ELSE IF request[v].op = "replace" /\ request[v].role = q
                THEN [request[v] EXCEPT !.loaded = @ \ seen, !.others = @ \cup new]
                ELSE request[v]]
        OBVIOUS
      <4>3. doubled' = doubled /\ (request' = Witness(requests) \/ Finish(w))
        BY <3>8, <4>1, <4>2 DEF Replace
      <4>4. new \subseteq Perms
        BY <2>0, <4>1 DEF Request
      <4>5. ASSUME NEW v \in Workers
            PROVE  requests[v] \in Request /\ Excused(requests[v])
        <5>1. PICK x \in Request : x = request[v] /\ Excused(x)
          BY <1>2, <2>0
        <5>2. PICK y : y = [x EXCEPT !.loaded = @ \ seen, !.others = @ \cup new]
          OBVIOUS
        <5>3. /\ y.answer = x.answer /\ y.op = x.op /\ y.role = x.role
              /\ y \in Request
          BY <4>4, <5>1, <5>2 DEF Request
        <5>4. Idle \in Request /\ Idle.answer # "error"
          BY IdleGood DEF Idle
        <5>5. requests[v] \in {Idle, x, y}
          BY <4>2, <5>1, <5>2
        <5> QED
          BY <5>1, <5>3, <5>4, <5>5
      <4>6. requests \in [Workers -> Request]
        BY <4>2, <4>5
      <4> QED
        BY <2>2, <2>4, <4>3, <4>5, <4>6
    <3> QED
      BY <2>5, <3>1, <3>2, <3>3, <3>4, <3>5, <3>6, <3>7, <3>8 DEF Serve
  <2>6. ASSUME request' = Witness(request), doubled' = doubled
        PROVE  \A v \in Workers : Excused(request[v])'
    <3>1. PICK requests \in [Workers -> Request] : requests = request
      BY <2>0
    <3> QED
      BY <1>2, <2>4, <2>6, <3>1
  <2>7. ASSUME NEW q \in CustomRoles, DeleteRole(q) PROVE \A v \in Workers : Excused(request[v])'
    <3>1. PICK requests : requests = [w \in Workers |->
                           IF request[w].op = "replace" /\ request[w].role = q
                             THEN [request[w] EXCEPT !.role = None] ELSE request[w]]
      OBVIOUS
    <3>2. ASSUME NEW v \in Workers
          PROVE  requests[v] \in Request /\ Excused(requests[v])
      <4>1. PICK x \in Request : x = request[v] /\ Excused(x)
        BY <1>2, <2>0
      <4>2. PICK y : y = [x EXCEPT !.role = None]
        OBVIOUS
      <4>3. y.answer = x.answer /\ y.op = x.op /\ y \in Request
        BY <4>1, <4>2 DEF Request
      <4>4. CASE requests[v] = x
        BY <4>1, <4>4
      <4>5. CASE x.op = "replace" /\ requests[v] = y
        BY <4>1, <4>3, <4>5
      <4> QED
        BY <3>1, <4>1, <4>2, <4>4, <4>5
    <3>3. /\ requests \in [Workers -> Request] /\ request' = Witness(requests)
          /\ doubled' = doubled
      BY <2>7, <3>1, <3>2 DEF DeleteRole
    <3> QED
      BY <2>4, <3>2, <3>3
  <2>8. CASE Administer
    <3>1. CASE \E r \in SystemRoles \ doubled : SeedAgain(r)
      BY <1>2, <3>1 DEF SeedAgain
    <3> QED
      BY <2>6, <2>7, <2>8, <3>1
         DEF Administer, SetRole, CreateRole, AssignRole, RemoveRole
  <2>9. CASE UNCHANGED vars
    BY <1>2, <2>9 DEF vars
  <2> QED
    BY <1>2, <2>5, <2>8, <2>9 DEF Next
<1>3. I /\ PermissionsApart /\ [Next]_vars => I'
  BY <1>2, StepInv
<1>4. I => InheritsFromAllRoles
  BY DEF InheritsFromAllRoles, AnsweredTo
<1> HIDE DEF I
<1> QED
  BY <1>1, <1>3, <1>4, PTL DEF Spec

===============================================================================
