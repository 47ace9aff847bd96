------------------------------ MODULE Directory -------------------------------
(***************************************************************************)
(* How accounts come into being and are given roles, by the replicas of    *)
(* module Startup once they serve: registration, which makes the first     *)
(* account an administrator; provisioning by SCIM; sign-in by an identity  *)
(* provider, which makes the account and assigns the roles that the claim  *)
(* mappings of the provider lead to; and administrators, who assign and    *)
(* remove roles, and create and delete mappings.  The audit record of a    *)
(* change of a mapping follows the change in a transaction of its own; the *)
(* records of the other handlers are left out.  (What the roles allow is   *)
(* in module Authorization.)                                               *)
(*                                                                         *)
(* A request dies with the process that serves it, and may fail alone.     *)
(***************************************************************************)
EXTENDS Startup

CONSTANTS
    Workers,        \* requests in flight at once, over all replicas
    Home,           \* Home[w]: the replica that serves the requests of worker w
    Emails,         \* the accounts that may come into being, by users.email
    AutoAdmin,      \* settings.auto_admin_first_user
    Matching,       \* the accounts with the claim that the mappings look for
    Mapped,         \* bound: the roles that mappings lead to
    MaxMappings,    \* bound: mappings created over time
    AdminRows       \* bound: the rows of user_roles that administrators may add

ASSUME DirectoryAssumption ==
    /\ IsFiniteSet(Workers)
    /\ Home \in [Workers -> Replicas]
    /\ AutoAdmin \in BOOLEAN
    /\ Matching \subseteq Emails
    /\ Mapped \subseteq Places
    /\ MaxMappings \in Nat
    /\ AdminRows \subseteq [email : Emails, role : Mapped, number : Nat]
    /\ IsFiniteSet(AdminRows)

VARIABLES
    users,      \* users[e]: users.role of the account of e
    mappings,   \* the claim mappings of the provider by id: the role each leads to
    dropped,    \* ids of the mappings that were deleted
    assigned,   \* assigned[e][role]: number of rows of user_roles that sign-ins added
    given,      \* the rows of user_roles that administrators added (granted_by)
    audit,      \* the changes of mappings that audit_logs has records of
    lost,       \* no table: changes whose request ended before it recorded them
    request     \* request[w]: what worker w is serving

people == <<users, assigned, given>>
rules == <<mappings, dropped, audit, lost>>
directory == <<users, mappings, dropped, assigned, given, audit, lost, request>>
vars == <<engine, schema, permissions, roles, grants, replica, crashes,
          users, mappings, dropped, assigned, given, audit, lost, request>>

-------------------------------------------------------------------------------
(* Types.                                                                  *)

\* The role an account is made with; "none": there is no such account.
UserRoles == {"none", "admin", "user", "pending"}

RequestPoints == {"idle", "count", "insert", "provision", "mappings", "assign",
                  "refresh", "log_create", "delete", "log_delete"}

\* The e-mail of the request, the role the account is to be made with, and whether a
\* registration found accounts when it arrived; the roles whose mappings are still to be
\* looked at, and those being assigned; the id of the mapping that is changed.
Request == [pc : RequestPoints, email : Emails \cup {"none"}, role : UserRoles, late : BOOLEAN,
            left : SUBSET Mapped, adding : SUBSET Mapped, mapping : 0..MaxMappings]

Idle == [pc |-> "idle", email |-> "none", role |-> "none", late |-> FALSE,
         left |-> {}, adding |-> {}, mapping |-> 0]

Changes == {"create", "delete"} \X (1..MaxMappings)

TypeOK ==
    /\ StartupTypeOK
    /\ users \in [Emails -> UserRoles]
    /\ mappings \in Seq(Mapped) /\ Len(mappings) <= MaxMappings
    /\ dropped \subseteq DOMAIN mappings
    /\ assigned \in [Emails -> [Mapped -> Nat]]
    /\ given \subseteq AdminRows
    /\ audit \subseteq Changes /\ lost \subseteq Changes
    /\ request \in [Workers -> Request]

Init ==
    /\ StartupInit
    /\ users = [e \in Emails |-> "none"]
    /\ mappings = <<>> /\ dropped = {} /\ audit = {} /\ lost = {}
    /\ assigned = [e \in Emails |-> [place \in Mapped |-> 0]]
    /\ given = {}
    /\ request = [w \in Workers |-> Idle]

-------------------------------------------------------------------------------
(* Steps the handlers are made of.                                         *)

Accounts == {e \in Emails : users[e] # "none"}

Live == DOMAIN mappings \ dropped

Serving(w, point) == At(Home[w], "serving") /\ request[w].pc = point

Finish(w) == request' = [request EXCEPT ![w] = Idle]

\* A request that makes an account for an e-mail that has none yet.
Begin(w, e, point, role, late) ==
    /\ Serving(w, "idle")
    /\ e \notin Accounts
    /\ request' = [request EXCEPT ![w] =
         [Idle EXCEPT !.pc = point, !.email = e, !.role = role, !.late = late]]
    /\ UNCHANGED <<people, rules>>

-------------------------------------------------------------------------------
(* Accounts.                                                               *)

\* register: the e-mail is free (or 409).
Register(w, e) == Begin(w, e, "count", "pending", Accounts # {})

\* Mutant: only accounts that registered themselves are counted.
UserCountRegistered == Cardinality({e \in Accounts : users[e] # "user"})

UserCount == Cardinality(Accounts)

\* register: the first account is an administrator.
CountUsers(w) ==
    /\ Serving(w, "count")
    /\ request' = [request EXCEPT
         ![w].pc = "insert",
         ![w].role = IF UserCount = 0 /\ AutoAdmin THEN "admin" ELSE "pending"]
    /\ UNCHANGED <<people, rules>>

\* scim_create_user.
ScimCreate(w, e) == Begin(w, e, "insert", "user", FALSE)

\* jit_provision_user for an e-mail without an account.
Provision(w, e) == Begin(w, e, "provision", "user", FALSE)

\* The INSERT and its COMMIT; users.email is unique.  A sign-in goes on to the mappings.
InsertUser(w) ==
    LET e == request[w].email
    IN  /\ Serving(w, "insert") \/ Serving(w, "provision")
        /\ \/ /\ e \notin Accounts
              /\ users' = [users EXCEPT ![e] = request[w].role]
              /\ request' = [request EXCEPT ![w] =
                   IF Serving(w, "insert") THEN Idle
                   ELSE [Idle EXCEPT !.pc = "mappings", !.email = e]]
           \/ /\ e \in Accounts
              /\ Finish(w) /\ UNCHANGED users
        /\ UNCHANGED <<assigned, given, rules>>

\* jit_provision_user for an account that is there.
SignIn(w, e) ==
    /\ Serving(w, "idle")
    /\ e \in Accounts
    /\ request' = [request EXCEPT ![w] = [Idle EXCEPT !.pc = "mappings", !.email = e]]
    /\ UNCHANGED <<people, rules>>

-------------------------------------------------------------------------------
(* apply_claim_mappings.                                                   *)

\* The mappings of the provider; every one that matches counts, whatever its priority, and
\* of two that lead to one role the second finds the row that the first has flushed.
ReadMappings(w) ==
    /\ Serving(w, "mappings")
    /\ request' = [request EXCEPT ![w].pc = "assign",
         ![w].left = IF request[w].email \in Matching THEN {mappings[id] : id \in Live} ELSE {}]
    /\ UNCHANGED <<people, rules>>

\* Mutant: a role is assigned without a look at what the user has.
AssignmentsUnseen(w, place) == 0

\* The rows of user_roles for a role, whoever added them.
Assignments(w, place) ==
    LET e == request[w].email
    IN  assigned[e][place] + Cardinality({row \in given : row.email = e /\ row.role = place})

\* One mapping that matches: a role the user has not is added; scalar_one_or_none raises
\* if the user has it twice.
Consider(w, place) ==
    LET rows == Assignments(w, place)
    IN  /\ Serving(w, "assign")
        /\ place \in request[w].left
        /\ \/ /\ rows = 0
              /\ request' = [request EXCEPT ![w].left = @ \ {place},
                                            ![w].adding = @ \cup {place}]
           \/ /\ rows = 1
              /\ request' = [request EXCEPT ![w].left = @ \ {place}]
           \/ /\ rows > 1
              /\ Finish(w)
        /\ UNCHANGED <<people, rules>>

\* The COMMIT.  (The tokens that follow are in module Sessions.)
CommitRoles(w) ==
    LET e == request[w].email
    IN  /\ Serving(w, "assign")
        /\ request[w].left = {}
        /\ assigned' = [assigned EXCEPT ![e] =
             [place \in Mapped |-> @[place] + (IF place \in request[w].adding THEN 1 ELSE 0)]]
        /\ Finish(w)
        /\ UNCHANGED <<users, given, rules>>

-------------------------------------------------------------------------------
(* Administration.                                                         *)

\* assign_user_role: the account and the role exist; another row, whatever is there.
AssignRole(w, row) ==
    /\ Serving(w, "idle")
    /\ row.email \in Accounts /\ RowsOf(row.role) # {} /\ row \notin given
    /\ given' = given \cup {row}
    /\ UNCHANGED <<users, assigned, rules, request>>

\* remove_user_role, of a row that an administrator or a sign-in added.
RemoveRole(w, e, place) ==
    /\ Serving(w, "idle")
    /\ \/ \E row \in given : /\ row.email = e /\ row.role = place
                            /\ given' = given \ {row} /\ UNCHANGED assigned
       \/ /\ assigned[e][place] > 0
          /\ assigned' = [assigned EXCEPT ![e][place] = @ - 1] /\ UNCHANGED given
    /\ UNCHANGED <<users, rules, request>>

\* What request w has committed and not recorded yet.
Owed(w) ==
    LET id == request[w].mapping
    IN  IF request[w].pc \in {"refresh", "log_create"} THEN {<<"create", id>>}
        ELSE IF request[w].pc = "log_delete" THEN {<<"delete", id>>}
        ELSE {}

\* create_claim_mapping, the COMMIT: for a role that exists, by its id (of a role that was
\* doubled, the first row).
CreateMapping(w, place) ==
    /\ Serving(w, "idle")
    /\ RowsOf(place) # {} /\ Len(mappings) < MaxMappings
    /\ mappings' = Append(mappings, place)
    /\ request' = [request EXCEPT ![w] =
         [Idle EXCEPT !.pc = "refresh", !.mapping = Len(mappings) + 1]]
    /\ UNCHANGED <<people, dropped, audit, lost>>

\* db.refresh raises if the row is gone by then, and nothing is recorded.
RefreshMapping(w) ==
    /\ Serving(w, "refresh")
    /\ \/ request[w].mapping \in Live /\ request' = [request EXCEPT ![w].pc = "log_create"]
       \/ request[w].mapping \notin Live /\ Finish(w)
    /\ UNCHANGED <<people, rules>>

\* Mutant: the request goes on if there is no such mapping.
FindMappingUnchecked(w, id) ==
    /\ Serving(w, "idle")
    /\ request' = [request EXCEPT ![w] = [Idle EXCEPT !.pc = "delete", !.mapping = id]]
    /\ UNCHANGED <<people, rules>>

\* Mutant: the record is committed before the deletion.
FindMappingRecorded(w, id) ==
    /\ Serving(w, "idle")
    /\ id \in Live
    /\ request' = [request EXCEPT ![w] = [Idle EXCEPT !.pc = "delete", !.mapping = id]]
    /\ audit' = audit \cup {<<"delete", id>>}
    /\ UNCHANGED <<people, mappings, dropped, lost>>

\* delete_claim_mapping, the SELECT (or 404).
FindMapping(w, id) ==
    /\ Serving(w, "idle")
    /\ id \in Live
    /\ request' = [request EXCEPT ![w] = [Idle EXCEPT !.pc = "delete", !.mapping = id]]
    /\ UNCHANGED <<people, rules>>

\* The DELETE and the COMMIT; that another request was first is no error.
DropMapping(w) ==
    /\ Serving(w, "delete")
    /\ dropped' = dropped \cup {request[w].mapping}
    /\ request' = [request EXCEPT ![w].pc = "log_delete"]
    /\ UNCHANGED <<people, mappings, audit, lost>>

\* log_audit, with a COMMIT of its own.
LogAudit(w) ==
    /\ Serving(w, "log_create") \/ Serving(w, "log_delete")
    /\ audit' = audit \cup Owed(w)
    /\ Finish(w)
    /\ UNCHANGED <<people, mappings, dropped, lost>>

-------------------------------------------------------------------------------
(* The specification.                                                      *)

\* A statement or a COMMIT of the request fails: it is a 500, and what it has committed
\* before stays.
Abandon(w) ==
    /\ At(Home[w], "serving") /\ request[w].pc # "idle"
    /\ Finish(w)
    /\ lost' = lost \cup Owed(w)
    /\ UNCHANGED <<people, mappings, dropped, audit>>

Serve(w) ==
    /\ \/ \E e \in Emails : Register(w, e) \/ ScimCreate(w, e) \/ Provision(w, e) \/ SignIn(w, e)
       \/ CountUsers(w) \/ InsertUser(w)
       \/ ReadMappings(w) \/ CommitRoles(w)
       \/ \E place \in Mapped : Consider(w, place) \/ CreateMapping(w, place)
       \/ \E row \in AdminRows : AssignRole(w, row)
       \/ \E e \in Emails, place \in Mapped : RemoveRole(w, e, place)
       \/ \E id \in 1..MaxMappings : FindMapping(w, id)
       \/ RefreshMapping(w) \/ DropMapping(w) \/ LogAudit(w)
       \/ Abandon(w)
    /\ UNCHANGED startup

\* The requests that process r serves go with it.
Die(r) ==
    /\ Crash(r)
    /\ request' = [w \in Workers |-> IF Home[w] = r THEN Idle ELSE request[w]]
    /\ lost' = lost \cup UNION {Owed(w) : w \in {v \in Workers : Home[v] = r}}
    /\ UNCHANGED <<people, mappings, dropped, audit>>

Next ==
    \/ \E w \in Workers : Serve(w)
    \/ \E r \in Replicas : (Boot(r) /\ UNCHANGED directory) \/ Die(r)

Spec == Init /\ [][Next]_vars

\* A process that can run does, and Kubernetes starts the one that is down again.
FairSpec == Spec /\ \A r \in Replicas : WF_vars(Boot(r) /\ UNCHANGED directory)

-------------------------------------------------------------------------------
(* Properties.                                                             *)

Admins == {e \in Accounts : users[e] = "admin"}
Promoting == {w \in Workers : request[w].pc = "insert" /\ request[w].role = "admin"}

\* Registrations that race for the first account can all become administrators, but
\* never more than fit in flight at once, and once there is any account, made by whatever
\* means, no later registration does.
FirstAdminsBounded ==
    /\ Cardinality(Admins) + Cardinality(Promoting) <= Cardinality(Workers)
    /\ \A w \in Promoting : ~request[w].late

Adding(e, place) ==
    {w \in Workers : request[w].email = e /\ place \in request[w].adding}

\* Of the sign-ins, only those that overlap give a user a role twice, whatever roles
\* administrators assign and remove meanwhile: the rows that sign-ins added and the
\* sign-ins about to add one are together never more than the requests that fit in flight
\* at once.  (Rows that administrators add come on top: assign_user_role never looks.)
AssignmentsBounded ==
    \A e \in Emails, place \in Mapped :
        assigned[e][place] + Cardinality(Adding(e, place)) <= Cardinality(Workers)

Made == {<<"create", id>> : id \in DOMAIN mappings} \cup {<<"delete", id>> : id \in dropped}

\* The audit log has no record of a change that was not made (though two deletions of a
\* mapping that overlap both record it), and each change that is made is recorded, is
\* about to be, or was lost with a request that died or failed in between; or it is the
\* creation of a mapping that was deleted before its creator read it back.
AuditGapsExplained ==
    /\ audit \subseteq Made
    /\ \A change \in Made \ audit :
          \/ change \in lost
          \/ \E w \in Workers : change \in Owed(w)
          \/ \E id \in dropped : change = <<"create", id>>

-------------------------------------------------------------------------------
(* The bounds by the overlap that is met.                                  *)

\* With k registrations in flight together at most, at most k accounts become
\* administrators by being first; k = 1 is what auto_admin_first_user says.
Registering == {w \in Workers : /\ request[w].pc \in {"count", "insert"}
                                /\ request[w].role # "user"}
RegistrationsWithin(k) == Cardinality(Registering) <= k
FirstAdminsWithin(k) == Cardinality(Admins) + Cardinality(Promoting) <= k

\* With k sign-ins of one account in flight together at most, they add at most k rows of
\* a role; one at a time, they add none to a row that is there.
Mapping(e) == {w \in Workers : request[w].email = e /\ request[w].pc = "assign"}
SignInsWithin(k) == \A e \in Emails : Cardinality(Mapping(e)) <= k
AssignmentsWithin(k) ==
    \A e \in Emails, place \in Mapped : assigned[e][place] + Cardinality(Adding(e, place)) <= k

===============================================================================
