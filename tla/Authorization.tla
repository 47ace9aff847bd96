---------------------------- MODULE Authorization ----------------------------
(***************************************************************************)
(* What one user may do: the legacy role of the user, custom roles and     *)
(* their permissions, role assignments, and the two ways the service       *)
(* answers from them, the runtime gate check_permission and the scope      *)
(* claim of an access token.                                               *)
(*                                                                         *)
(* Both answers take several statements, each of which reads what is       *)
(* committed by then; administration goes on in between.  A replacement of *)
(* a role's permissions is one transaction of several statements, with     *)
(* PostgreSQL's READ COMMITTED: a DELETE removes the rows it saw, and      *)
(* waits for another transaction that is removing the same rows.           *)
(*                                                                         *)
(* No code of the service writes direct_grants, resource_ownership or      *)
(* users.allowed_scopes: they are taken to be empty.                       *)
(***************************************************************************)
EXTENDS Naturals, FiniteSets

CONSTANTS
    Perms,          \* the permissions of the active pack
    LegacyRoles,    \* values of users.role, and so names of system roles
    PackRole,       \* PackRole[r]: permissions_for_role(r), as seeded for system role r
    CustomRoles,    \* roles that administrators create
    Rows,           \* identities of the user's rows in user_roles
    Workers,        \* requests in flight at once, over all replicas
    Strict,         \* settings.strict_scopes
    None            \* no role

SystemRoles == LegacyRoles

ASSUME AuthorizationAssumption ==
    /\ "admin" \in LegacyRoles
    /\ PackRole \in [LegacyRoles -> SUBSET Perms]
    /\ PackRole["admin"] = Perms
    /\ CustomRoles \cap LegacyRoles = {}
    /\ None \notin CustomRoles \cup LegacyRoles
    /\ IsFiniteSet(Rows)
    /\ Strict \in BOOLEAN

VARIABLES
    role,       \* users.role
    granted,    \* role_permissions of the custom roles that exist
    assigned,   \* assigned[i]: the role of row i of user_roles, or None
    doubled,    \* system roles with a second row in roles, and its permissions
    request     \* request[w]: what worker w is serving

vars == <<role, granted, assigned, doubled, request>>

-------------------------------------------------------------------------------
(* Types.                                                                  *)

Points == {"idle", "check_roles", "check_system", "claim", "replace", "answered"}

Idle == [op |-> "none", pc |-> "idle", role |-> None, perms |-> {}, loaded |-> {},
         others |-> {}, answer |-> "none", held |-> {}, quiet |-> TRUE]

\* role is the legacy role the user was loaded with, or the role being changed; perms
\* the permission to check, the scopes requested, or the permissions to set; loaded the
\* rows a DELETE has marked, or the scope claim.  The rest are no locals: what other
\* replacements of the role stored since, what the user held at some moment since the
\* request was read, and whether nothing was changed since.
Request == [op : {"none", "check", "token", "replace"}, pc : Points,
            role : LegacyRoles \cup CustomRoles \cup {None}, perms : SUBSET Perms,
            loaded : SUBSET Perms, others : SUBSET Perms,
            answer : {"none", "granted", "denied", "error"},
            held : SUBSET Perms, quiet : BOOLEAN]

Existing == DOMAIN granted

TypeOK ==
    /\ role \in LegacyRoles
    /\ Existing \subseteq CustomRoles
    /\ granted \in [Existing -> SUBSET Perms]
    /\ assigned \in [Rows -> SystemRoles \cup Existing \cup {None}]
    /\ doubled \subseteq SystemRoles
    /\ request \in [Workers -> Request]

Init ==
    /\ role \in LegacyRoles
    /\ granted = [r \in {} |-> {}]
    /\ assigned = [i \in Rows |-> None]
    /\ doubled = {}
    /\ request = [w \in Workers |-> Idle]

-------------------------------------------------------------------------------
(* Queries.                                                                *)

PermissionsOf(r) == IF r \in Existing THEN granted[r] ELSE PackRole[r]

\* Mutant: the join is not restricted to the user's assignments.
GrantingAnyUser(p) == {r \in SystemRoles \cup Existing : p \in PermissionsOf(r)}

\* user_roles JOIN roles JOIN role_permissions: one row for every assignment that
\* leads to p.
Granting(p) == {i \in Rows : assigned[i] # None /\ p \in PermissionsOf(assigned[i])}

\* fetch_user_role_permissions.
AssignedPerms == {p \in Perms : Granting(p) # {}}

\* What the documents promise: admins may do everything, other users what their legacy
\* role or any of their assigned roles gives.
HeldPerms ==
    IF role = "admin" THEN Perms
    ELSE PackRole[role] \cup UNION {PermissionsOf(assigned[i]) :
                                      i \in {j \in Rows : assigned[j] # None}}

-------------------------------------------------------------------------------
(* Steps the handlers are made of.                                         *)

At(w, point) == request[w].pc = point

Start(w, op, point, r, perms, loaded) ==
    /\ At(w, "idle")
    /\ request' = [request EXCEPT ![w] =
                     [Idle EXCEPT !.op = op, !.pc = point, !.role = r, !.perms = perms,
                                  !.loaded = loaded,
                                  !.held = IF op = "replace" THEN {} ELSE HeldPerms]]

Finish(w) == request' = [request EXCEPT ![w] = Idle]

\* What the checks and the token requests in flight live to see of a commit.
Witness(requests) ==
    [w \in Workers |->
        IF requests[w].op \notin {"check", "token"} THEN requests[w]
        ELSE [requests[w] EXCEPT !.quiet = FALSE,
                                 !.held = IF At(w, "answered") THEN @ ELSE @ \cup HeldPerms']]

-------------------------------------------------------------------------------
(* check_permission.                                                       *)

Answer(w, answer) ==
    request' = [request EXCEPT ![w].pc = "answered", ![w].answer = answer]

\* The user is loaded; admins pass.
CheckBegin(w, p) ==
    /\ \/ /\ role = "admin"
          /\ At(w, "idle")
          /\ request' = [request EXCEPT ![w] =
                           [Idle EXCEPT !.op = "check", !.pc = "answered", !.role = role,
                                        !.perms = {p}, !.answer = "granted",
                                        !.held = HeldPerms]]
       \/ /\ role # "admin"
          /\ Start(w, "check", "check_roles", role, {p}, {})
    /\ UNCHANGED <<role, granted, assigned, doubled>>

\* The assigned roles: scalar_one_or_none raises on a second row.
CheckRoles(w) ==
    /\ At(w, "check_roles")
    /\ \E p \in request[w].perms :
          \/ Granting(p) = {} /\ request' = [request EXCEPT ![w].pc = "check_system"]
          \/ Cardinality(Granting(p)) = 1 /\ Answer(w, "granted")
          \/ Cardinality(Granting(p)) > 1 /\ Answer(w, "error")
    /\ UNCHANGED <<role, granted, assigned, doubled>>

\* Mutant: the mapping of the legacy role is left out.
CheckSystemNone(w) ==
    /\ At(w, "check_system")
    /\ Answer(w, "denied")
    /\ UNCHANGED <<role, granted, assigned, doubled>>

\* The system roles named like the legacy role: scalar_one_or_none raises if two rows of
\* that name have the permission.  Without one, direct grants and ownership are looked
\* up, of which there are none.
CheckSystem(w) ==
    LET r == request[w].role
        has == request[w].perms \subseteq PackRole[r]
    IN  /\ At(w, "check_system")
        /\ \/ ~has /\ Answer(w, "denied")
           \/ has /\ r \notin doubled /\ Answer(w, "granted")
           \/ has /\ r \in doubled /\ Answer(w, "error")
        /\ UNCHANGED <<role, granted, assigned, doubled>>

-------------------------------------------------------------------------------
(* The scope claim.                                                        *)

\* login, refresh_token, issue_sso_tokens: the user is loaded; only login passes on
\* the scopes it was asked for.
TokenBegin(w, requested) ==
    /\ Start(w, "token", "claim", role, requested, {})
    /\ UNCHANGED <<role, granted, assigned, doubled>>

\* resolve_effective_user_scopes and grant_scopes: the expansion of the loaded role and
\* the assigned roles, narrowed to the request; invalid_scope ends the request.
BuildClaim(w) ==
    LET requested == request[w].perms
        allowed == PackRole[request[w].role] \cup AssignedPerms
        claim == IF requested = {} THEN allowed ELSE allowed \cap requested
        invalid == requested # {} /\ (claim = {} \/ (Strict /\ claim # requested))
    IN  /\ At(w, "claim")
        /\ request' = [request EXCEPT ![w].pc = "answered",
                                      ![w].answer = IF invalid THEN "denied" ELSE "granted",
                                      ![w].loaded = IF invalid THEN {} ELSE claim]
        /\ UNCHANGED <<role, granted, assigned, doubled>>

\* The answer goes out.
Respond(w) ==
    /\ At(w, "answered")
    /\ Finish(w)
    /\ UNCHANGED <<role, granted, assigned, doubled>>

-------------------------------------------------------------------------------
(* Administration, and a replica that starts.                              *)

\* update_user with a role.
SetRole(r) ==
    /\ role' = r
    /\ UNCHANGED <<granted, assigned, doubled>>
    /\ request' = Witness(request)

\* create_role; a role is created without permissions.
CreateRole(r) ==
    /\ r \notin Existing
    /\ granted' = [q \in Existing \cup {r} |-> IF q = r THEN {} ELSE granted[q]]
    /\ UNCHANGED <<role, assigned, doubled>>
    /\ request' = Witness(request)

\* Mutant: the assignments stay behind.
DeleteRoleOnly(r) ==
    /\ r \in Existing
    /\ granted' = [q \in Existing \ {r} |-> granted[q]]
    /\ UNCHANGED <<role, assigned, doubled>>
    /\ UNCHANGED request

\* delete_role (403 for a system role): its permissions and assignments go with it, and
\* a replacement under way finds it gone, even if one of that name is created again.
DeleteRole(r) ==
    /\ r \in Existing
    /\ granted' = [q \in Existing \ {r} |-> granted[q]]
    /\ assigned' = [i \in Rows |-> IF assigned[i] = r THEN None ELSE assigned[i]]
    /\ UNCHANGED <<role, doubled>>
    /\ request' = Witness([w \in Workers |->
                             IF request[w].op = "replace" /\ request[w].role = r
                               THEN [request[w] EXCEPT !.role = None] ELSE request[w]])

\* assign_user_role, apply_claim_mappings: a row more, also for a role the user has.
AssignRole(i, r) ==
    /\ assigned[i] = None
    /\ r \in SystemRoles \cup Existing
    /\ assigned' = [assigned EXCEPT ![i] = r]
    /\ UNCHANGED <<role, granted, doubled>>
    /\ request' = Witness(request)

\* remove_user_role.
RemoveRole(i) ==
    /\ assigned[i] # None
    /\ assigned' = [assigned EXCEPT ![i] = None]
    /\ UNCHANGED <<role, granted, doubled>>
    /\ request' = Witness(request)

\* set_role_permissions: the DELETE marks the rows of the role.
ReplaceBegin(w, r, perms) ==
    /\ r \in Existing
    /\ Start(w, "replace", "replace", r, perms, granted[r])
    /\ UNCHANGED <<role, granted, assigned, doubled>>

\* Mutant: the rows that are there are not deleted.
KeptAll(w) == granted[request[w].role]

\* The rows of the role that the DELETE of this transaction left alone.
Kept(w) == granted[request[w].role] \ request[w].loaded

\* A row that is already there breaks the primary key, a role that is gone the foreign key.
Storable(w) == request[w].role \in Existing /\ Kept(w) \cap request[w].perms = {}

\* set_role_permissions, the INSERTs and the COMMIT, or 500 and all is rolled back.
\* Rows deleted here are not there any more for others whose DELETE saw them.
Replace(w) ==
    LET r == request[w].role
        new == request[w].perms
    IN  /\ At(w, "replace")
        /\ UNCHANGED <<role, assigned, doubled>>
        /\ \/ /\ Storable(w)
              /\ granted' = [granted EXCEPT ![r] = Kept(w) \cup new]
              /\ request' = Witness([v \in Workers |->
                   IF v = w THEN Idle
                   ELSE IF request[v].op = "replace" /\ request[v].role = r
                     THEN [request[v] EXCEPT !.loaded = @ \ request[w].loaded,
                                             !.others = @ \cup new]
                     ELSE request[v]])
           \/ ~Storable(w) /\ Finish(w) /\ UNCHANGED granted

\* seed_roles_and_permissions of a replica that found no such role while another was
\* about to create it: the unique constraint lets a second row pass (tenant_id is NULL),
\* and its permissions are those of the first.  Module Startup has the race itself.
SeedAgain(r) ==
    /\ doubled' = doubled \cup {r}
    /\ UNCHANGED <<role, granted, assigned, request>>

-------------------------------------------------------------------------------

\* A handler ends early; an open transaction is rolled back.
Abandon(w) ==
    /\ At(w, "check_roles") \/ At(w, "check_system") \/ At(w, "claim") \/ At(w, "replace")
    /\ Finish(w)
    /\ UNCHANGED <<role, granted, assigned, doubled>>

Serve(w) ==
    \/ \E p \in Perms : CheckBegin(w, p)
    \/ CheckRoles(w)
    \/ CheckSystem(w)
    \/ \E requested \in SUBSET Perms : TokenBegin(w, requested)
    \/ BuildClaim(w)
    \/ Respond(w)
    \/ \E r \in CustomRoles, perms \in SUBSET Perms : ReplaceBegin(w, r, perms)
    \/ Replace(w)
    \/ Abandon(w)

Administer ==
    \/ \E r \in LegacyRoles : SetRole(r)
    \/ \E r \in CustomRoles : CreateRole(r) \/ DeleteRole(r)
    \/ \E i \in Rows :
        \/ \E r \in SystemRoles \cup CustomRoles : AssignRole(i, r)
        \/ RemoveRole(i)
    \/ \E r \in SystemRoles \ doubled : SeedAgain(r)

Next == (\E w \in Workers : Serve(w)) \/ Administer

Spec == Init /\ [][Next]_vars

-------------------------------------------------------------------------------
(* Properties.                                                             *)

AnsweredTo(op) == {w \in Workers : At(w, "answered") /\ request[w].op = op}

\* However check_permission and the issuing of a token interleave with administration, a
\* permission is only granted, and a scope only stamped on a token, if the user held it
\* at some moment while the request was served: legacy role and assignments are read in
\* different statements, and together they must not add up to more than there ever was.
AnswersWereHeld ==
    /\ \A w \in AnsweredTo("check") :
          request[w].answer = "granted" => request[w].perms \subseteq request[w].held
    /\ \A w \in AnsweredTo("token") : request[w].loaded \subseteq request[w].held

\* With no administration in between, both answers are what the roles say, so that the
\* gate and the scope claim agree (the docstring of resolve_effective_user_scopes): the
\* check denies exactly what the user does not hold, though it fails on a permission
\* that two rows give, and the claim is all the user holds of what was asked.
AnswersExact ==
    /\ \A w \in AnsweredTo("check") :
          request[w].quiet =>
            (request[w].answer = "denied" <=> ~(request[w].perms \subseteq HeldPerms))
    /\ \A w \in AnsweredTo("token") :
          request[w].quiet /\ request[w].answer = "granted" =>
            request[w].loaded = IF request[w].perms = {} THEN HeldPerms
                                ELSE HeldPerms \cap request[w].perms

\* Violated.  A user inherits all permissions from all assigned roles (docs/rbac.md:9),
\* so the check has an answer for each, unless start-up seeded the legacy role twice
\* (module Startup): but a permission that two assigned roles share makes two rows as
\* well, and scalar_one_or_none raises.
InheritsFromAllRoles ==
    \A w \in AnsweredTo("check") :
       request[w].answer = "error" => request[w].role \in doubled

\* No permission reaches the user by two assignments.
PermissionsApart == \A i, j \in Rows : \A p \in Perms : {i, j} \subseteq Granting(p) => i = j

\* set_role_permissions replaces: after it, the role has no permission but those of this
\* request and of replacements that were stored while this one was under way.  The rest
\* is gone, whatever the order of the statements of several replacements.
RemovedPermissionsGo ==
    [][\A w \in Workers :
         Replace(w) /\ Storable(w) =>
           granted'[request[w].role] \subseteq request[w].perms \cup request[w].others]_vars

===============================================================================
