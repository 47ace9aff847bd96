------------------------------- MODULE Startup --------------------------------
(***************************************************************************)
(* The start of the replicas of a deployment, against one database: each   *)
(* migrates the schema, seeds the permissions and roles of its pack and    *)
(* then serves.  A start-up that raises ends the process, a process can    *)
(* die at any time, and a process that is down is started again.           *)
(*                                                                         *)
(* Seeding checks and then inserts, in several transactions, with nothing  *)
(* to keep two replicas apart but the constraints of the tables.  An       *)
(* INSERT waits for another transaction that has inserted the same key,    *)
(* and all replicas insert in the same order, so that the conflict can be  *)
(* judged at the COMMIT.                                                   *)
(*                                                                         *)
(* The signing key that a start-up makes last is in module SigningKeys.    *)
(***************************************************************************)
EXTENDS Naturals, Sequences, FiniteSets

CONSTANTS
    Replicas,       \* the processes of the deployment
    Engines,        \* the database engines considered
    Revisions,      \* number of revisions of the schema
    Permissions,    \* PackAuthModel.permissions
    PackRoles,      \* PackAuthModel.roles, in order
    PackGrants,     \* PackGrants[i]: permissions_for_role(PackRoles[i])
    MaxCrashes      \* bound: processes that die

\* _validate_consistency of PackAuthModel; the roles of a pack are distinct.
ASSUME StartupAssumption ==
    /\ IsFiniteSet(Replicas)
    /\ Engines \subseteq {"oracle", "postgres"}
    /\ Revisions \in Nat
    /\ PackRoles \in Seq(STRING)
    /\ \A i, j \in 1..Len(PackRoles) : PackRoles[i] = PackRoles[j] => i = j
    /\ PackGrants \in [1..Len(PackRoles) -> SUBSET Permissions]
    /\ MaxCrashes \in Nat

VARIABLES
    engine,         \* the database engine of this deployment
    schema,         \* the revision stamped, and the last one whose objects exist
    permissions,    \* the table permissions
    roles,          \* the system roles: roles[i] is the place in PackRoles of row i
    grants,         \* role_permissions: pairs of a row of roles and a permission
    replica,        \* replica[r]: what process r is doing
    crashes         \* processes that died

database == <<engine, schema, permissions, roles, grants>>
startup == <<engine, schema, permissions, roles, grants, replica, crashes>>

-------------------------------------------------------------------------------
(* Types.                                                                  *)

Places == 1..Len(PackRoles)

Points == {"down", "migrate", "stamp", "permissions", "commit_permissions", "roles",
           "insert_role", "grants", "serving"}

\* The locals of a start-up: the revision the schema is at, the place of the role it is
\* seeding, that role's row, and what its open transaction has inserted.
Replica == [pc : Points, revision : Nat, place : 1..(Len(PackRoles) + 1), row : Nat,
            missing : SUBSET Permissions, pending : SUBSET (Nat \X Permissions)]

Down == [pc |-> "down", revision |-> 0, place |-> 1, row |-> 0,
         missing |-> {}, pending |-> {}]

StartupTypeOK ==
    /\ engine \in Engines
    /\ schema \in [version : 0..Revisions, objects : 0..Revisions]
    /\ permissions \subseteq Permissions
    /\ roles \in Seq(Places)
    /\ grants \subseteq (DOMAIN roles) \X Permissions
    /\ replica \in [Replicas -> Replica]
    /\ crashes \in 0..MaxCrashes

StartupInit ==
    /\ engine \in Engines
    /\ schema = [version |-> 0, objects |-> 0]
    /\ permissions = {}
    /\ roles = <<>>
    /\ grants = {}
    /\ replica = [r \in Replicas |-> Down]
    /\ crashes = 0

-------------------------------------------------------------------------------
(* Steps the start-up is made of.                                          *)

At(r, point) == replica[r].pc = point

Goto(r, point) == replica' = [replica EXCEPT ![r].pc = point]

\* The start-up raises: what is not committed is rolled back and the process ends.
Fail(r) == replica' = [replica EXCEPT ![r] = Down] /\ UNCHANGED database

RowsOf(place) == {i \in DOMAIN roles : roles[i] = place}

\* Mutant: the constraint of the table is taken to bind the system roles on no engine.
NameTakenNowhere(place) == FALSE

\* uq_role_tenant_name refuses a second row of the name.  The tenant of a system role is
\* NULL: Oracle compares what is left of the key, PostgreSQL takes NULLs as distinct.
NameTaken(place) == engine = "oracle" /\ RowsOf(place) # {}

\* The primary key of role_permissions.
GrantTaken(r) == replica[r].pending \cap grants # {}

-------------------------------------------------------------------------------
(* init_db.                                                                *)

\* The process starts; alembic reads the version of the schema.
Start(r) ==
    /\ At(r, "down")
    /\ replica' = [replica EXCEPT ![r] = [Down EXCEPT !.pc = "migrate",
                                                      !.revision = schema.version]]
    /\ UNCHANGED database

\* The schema is up to date.
Migrated(r) ==
    /\ At(r, "migrate") /\ replica[r].revision = Revisions
    /\ Goto(r, "permissions")
    /\ UNCHANGED database

\* PostgreSQL: one transaction takes the schema to the head, with the stamp; it finds
\* the objects of another that has committed since the version was read.
Upgrade(r) ==
    /\ At(r, "migrate") /\ replica[r].revision < Revisions
    /\ engine = "postgres"
    /\ \/ /\ schema.version = replica[r].revision
          /\ schema' = [version |-> Revisions, objects |-> Revisions]
          /\ Goto(r, "permissions")
          /\ UNCHANGED <<engine, permissions, roles, grants>>
       \/ /\ schema.version # replica[r].revision
          /\ Fail(r)

\* Oracle commits each statement that changes the schema: the objects of the next
\* revision, which must not exist.
CreateObjects(r) ==
    /\ At(r, "migrate") /\ replica[r].revision < Revisions
    /\ engine = "oracle"
    /\ \/ /\ schema.objects = replica[r].revision
          /\ schema' = [schema EXCEPT !.objects = @ + 1]
          /\ Goto(r, "stamp")
          /\ UNCHANGED <<engine, permissions, roles, grants>>
       \/ /\ schema.objects # replica[r].revision
          /\ Fail(r)

\* Oracle: then the revision is stamped.
Stamp(r) ==
    /\ At(r, "stamp")
    /\ schema' = [schema EXCEPT !.version = replica[r].revision + 1]
    /\ replica' = [replica EXCEPT ![r].pc = "migrate", ![r].revision = @ + 1]
    /\ UNCHANGED <<engine, permissions, roles, grants>>

-------------------------------------------------------------------------------
(* seed_roles_and_permissions.                                             *)

\* Mutant: the permissions are inserted without a look at the table.
ReadPermissionsBlind(r) ==
    /\ At(r, "permissions")
    /\ replica' = [replica EXCEPT ![r].pc = "commit_permissions",
                                  ![r].missing = Permissions]
    /\ UNCHANGED database

\* The permissions that are missing, inserted one by one.
ReadPermissions(r) ==
    /\ At(r, "permissions")
    /\ replica' = [replica EXCEPT ![r].pc = "commit_permissions",
                                  ![r].missing = Permissions \ permissions]
    /\ UNCHANGED database

\* permissions.codename is unique.
CommitPermissions(r) ==
    /\ At(r, "commit_permissions")
    /\ \/ /\ replica[r].missing \cap permissions = {}
          /\ permissions' = permissions \cup replica[r].missing
          /\ replica' = [replica EXCEPT ![r].pc = "roles", ![r].missing = {}]
          /\ UNCHANGED <<engine, schema, roles, grants>>
       \/ /\ replica[r].missing \cap permissions # {}
          /\ Fail(r)

\* The row of the next role: scalar_one_or_none raises on a second one.
SelectRole(r) ==
    LET rows == RowsOf(replica[r].place)
    IN  /\ At(r, "roles") /\ replica[r].place \in Places
        /\ \/ /\ rows = {}
              /\ Goto(r, "insert_role") /\ UNCHANGED database
           \/ /\ Cardinality(rows) = 1
              /\ replica' = [replica EXCEPT ![r].pc = "grants",
                                            ![r].row = CHOOSE i \in rows : TRUE]
              /\ UNCHANGED database
           \/ /\ Cardinality(rows) > 1
              /\ Fail(r)

\* The role is inserted, and committed with the grants of the roles before it.
InsertRole(r) ==
    LET place == replica[r].place
    IN  /\ At(r, "insert_role")
        /\ \/ /\ ~NameTaken(place) /\ ~GrantTaken(r)
              /\ roles' = Append(roles, place)
              /\ grants' = grants \cup replica[r].pending
              /\ replica' = [replica EXCEPT ![r].pc = "grants", ![r].row = Len(roles) + 1,
                                            ![r].pending = {}]
              /\ UNCHANGED <<engine, schema, permissions>>
           \/ /\ NameTaken(place) \/ GrantTaken(r)
              /\ Fail(r)

\* Mutant: the look-up of a grant leaves out the role.
UngrantedToAny(r) ==
    {<<replica[r].row, p>> : p \in {q \in PackGrants[replica[r].place] :
                                      \A g \in grants \cup replica[r].pending : g[2] # q}}

\* What the row of the role is not granted yet.
Ungranted(r) == ({replica[r].row} \X PackGrants[replica[r].place]) \ grants

GrantPermissions(r) ==
    /\ At(r, "grants")
    /\ replica' = [replica EXCEPT ![r].pc = "roles", ![r].place = @ + 1, ![r].row = 0,
                                  ![r].pending = @ \cup Ungranted(r)]
    /\ UNCHANGED database

\* The last COMMIT; the replica begins to serve.
Seeded(r) ==
    /\ At(r, "roles") /\ replica[r].place \notin Places
    /\ \/ /\ ~GrantTaken(r)
          /\ grants' = grants \cup replica[r].pending
          /\ replica' = [replica EXCEPT ![r] = [Down EXCEPT !.pc = "serving"]]
          /\ UNCHANGED <<engine, schema, permissions, roles>>
       \/ /\ GrantTaken(r)
          /\ Fail(r)

-------------------------------------------------------------------------------
(* The specification.                                                      *)

\* A step of lifespan.
Boot(r) ==
    /\ \/ Start(r)
       \/ Migrated(r) \/ Upgrade(r) \/ CreateObjects(r) \/ Stamp(r)
       \/ ReadPermissions(r) \/ CommitPermissions(r)
       \/ SelectRole(r) \/ InsertRole(r) \/ GrantPermissions(r) \/ Seeded(r)
    /\ UNCHANGED crashes

\* The process dies.
Crash(r) ==
    /\ ~At(r, "down")
    /\ crashes < MaxCrashes
    /\ crashes' = crashes + 1
    /\ Fail(r)

StartupNext == \E r \in Replicas : Boot(r) \/ Crash(r)

StartupSpec == StartupInit /\ [][StartupNext]_startup

-------------------------------------------------------------------------------
(* Properties.                                                             *)

\* The replicas that found no row of a role and are about to insert one.
Inserting(place) == {r \in Replicas : At(r, "insert_role") /\ replica[r].place = place}

\* Nothing but the start-ups that overlap can double a role, and no crash, failure or
\* restart adds to it: rows and start-ups about to insert one are together never more
\* than the replicas, and on Oracle the constraint leaves one row.
RoleRowsBounded ==
    \A place \in Places :
        /\ Cardinality(RowsOf(place)) + Cardinality(Inserting(place)) <= Cardinality(Replicas)
        /\ engine = "oracle" => Cardinality(RowsOf(place)) <= 1

\* A replica that serves runs against the schema of the head and finds every permission
\* and, for each role of the pack, a row with all its permissions, whoever seeded what
\* and whichever start-ups died half-way.
SeededWhenServing ==
    \A r \in Replicas : At(r, "serving") =>
        /\ schema.version = Revisions
        /\ permissions = Permissions
        /\ \A place \in Places :
              \E row \in RowsOf(place) : {row} \X PackGrants[place] \subseteq grants

\* A role has two rows: from then on its look-up raises.
Doubled == \E place \in Places : Cardinality(RowsOf(place)) > 1

\* Objects of a revision exist that nobody will stamp: a process died in between.
HalfMigrated == schema.objects > schema.version /\ \A r \in Replicas : ~At(r, "stamp")

\* Start-ups that collide fail, are restarted and get there: every replica comes to serve
\* for good, unless a role has been doubled or a crash has left a migration half-way.
StartupsSucceed ==
    \A r \in Replicas : <>[]At(r, "serving") \/ <>[](Doubled \/ HalfMigrated)

-------------------------------------------------------------------------------
(* What the overlap of the start-ups decides.                              *)

\* With k start-ups in flight together at most, there are at most k rows of a role; with
\* one replica at a time, none is ever doubled.
Starting == {r \in Replicas : replica[r].pc \notin {"down", "serving"}}
StartsWithin(k) == Cardinality(Starting) <= k
RoleRowsWithin(k) ==
    \A place \in Places : Cardinality(RowsOf(place)) + Cardinality(Inserting(place)) <= k

\* Replicas are started one at a time, as a rolling update starts them.
StartsApart == \A r, q \in Starting : r = q

\* Nothing that start-up finds makes it raise: a process that ends has been killed, or
\* meets the migration that a killed one left half-way.
NoStartupRaises ==
    [][\A r \in Replicas : ~At(r, "down") /\ replica'[r].pc = "down" =>
          crashes' = crashes + 1 \/ HalfMigrated]_startup

===============================================================================
