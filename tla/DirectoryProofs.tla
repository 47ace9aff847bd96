--------------------------- MODULE DirectoryProofs ---------------------------
(***************************************************************************)
(* Proofs about modules Startup and Directory, for any replicas, revisions *)
(* and pack, and any accounts and requests in flight.                      *)
(***************************************************************************)
EXTENDS Directory, FiniteSetTheorems, TLAPS

-------------------------------------------------------------------------------
(* The invariant of the start-up.                                          *)

\* The schema is at a revision, or half-way to the next.
SchemaOK ==
    /\ schema.objects \in {schema.version, schema.version + 1}
    /\ engine = "postgres" => schema.objects = schema.version

\* What a start-up knows of the schema: one that is to stamp a revision has made it.
SafeMigration(x) ==
    /\ x.pc = "migrate" => x.revision <= schema.version
    /\ x.pc = "stamp" => /\ engine = "oracle"
                         /\ x.revision = schema.version
                         /\ schema.objects = x.revision + 1
    /\ x.pc \in {"permissions", "commit_permissions", "roles", "insert_role", "grants", "serving"}
         => schema.version = Revisions

\* A role has a row with all its permissions, if what is pending is committed.
Granted(place, pending) ==
    \E row \in RowsOf(place) : {row} \X PackGrants[place] \subseteq grants \cup pending

\* What a start-up knows of the tables it seeds.
SafeSeeding(x) ==
    /\ x.pc \in {"migrate", "stamp", "permissions", "commit_permissions"} =>
          x.place = 1 /\ x.pending = {}
    /\ x.pc = "commit_permissions" =>
          x.missing \subseteq Permissions /\ Permissions \subseteq permissions \cup x.missing
    /\ x.pc \in {"roles", "insert_role", "grants", "serving"} => permissions = Permissions
    /\ x.pc \in {"insert_role", "grants"} => x.place \in Places
    /\ x.pc = "grants" => x.row \in RowsOf(x.place)
    /\ x.pc \in {"roles", "insert_role", "grants"} =>
          /\ x.pending \subseteq (DOMAIN roles) \X Permissions
          /\ \A place \in Places : place < x.place => Granted(place, x.pending)
    /\ x.pc = "serving" => \A place \in Places : Granted(place, {})

\* RowsOf and those about to insert, for any bound on the start-ups in flight together.
RowsInv(k) ==
    \A place \in Places :
        /\ Cardinality(RowsOf(place)) + Cardinality(Inserting(place)) <= k
        /\ engine = "oracle" => Cardinality(RowsOf(place)) <= 1

StartupInv(k) ==
    /\ StartupTypeOK
    /\ SchemaOK
    /\ \A r \in Replicas : SafeMigration(replica[r]) /\ SafeSeeding(replica[r])
    /\ \A r, q \in Replicas : At(r, "stamp") /\ At(q, "stamp") => r = q
    /\ RowsInv(k)

DatabaseOK ==
    /\ engine \in Engines
    /\ schema \in [version : 0..Revisions, objects : 0..Revisions]
    /\ permissions \subseteq Permissions
    /\ roles \in Seq(Places)
    /\ grants \subseteq (DOMAIN roles) \X Permissions
    /\ crashes \in 0..MaxCrashes

\* Seeding takes nothing away.
Grows ==
    /\ permissions \subseteq permissions'
    /\ DOMAIN roles \subseteq DOMAIN roles'
    /\ \A i \in DOMAIN roles : roles'[i] = roles[i]
    /\ grants \subseteq grants'

LEMMA StartupFacts ==
    ASSUME NEW k, StartupInv(k)
    PROVE  /\ DatabaseOK /\ SchemaOK
           /\ replica \in [Replicas -> Replica]
           /\ \A r \in Replicas : /\ replica[r] \in Replica
                                  /\ SafeMigration(replica[r]) /\ SafeSeeding(replica[r])
BY DEF StartupInv, StartupTypeOK, DatabaseOK

LEMMA SeedingIsStable ==
    ASSUME DatabaseOK', Grows, NEW x \in Replica, SafeSeeding(x)
    PROVE  SafeSeeding(x)'
<1>1. ASSUME NEW place \in Places PROVE RowsOf(place) \subseteq RowsOf(place)'
  BY DEF Grows, RowsOf
<1>2. ASSUME NEW place \in Places, NEW pending, Granted(place, pending)
      PROVE  Granted(place, pending)'
  BY <1>1, <1>2 DEF Granted, Grows
<1>3. permissions' \subseteq Permissions /\ permissions \subseteq permissions'
  BY DEF DatabaseOK, Grows
<1>4. (DOMAIN roles) \X Permissions \subseteq (DOMAIN roles') \X Permissions
  BY DEF Grows
<1> QED
  BY <1>1, <1>2, <1>3, <1>4 DEF SafeSeeding

\* A replica moves while the tables grow.
LEMMA Moves ==
    ASSUME NEW k \in Nat, StartupInv(k), StartsWithin(k)', NEW r \in Replicas, NEW x \in Replica,
           replica' = [replica EXCEPT ![r] = x],
           DatabaseOK', SchemaOK', RowsInv(k)', Grows,
           SafeMigration(x)', SafeSeeding(x)',
           \A q \in Replicas \ {r} : SafeMigration(replica[q])',
           x.pc = "stamp" => \A q \in Replicas \ {r} : ~At(q, "stamp")
    PROVE  StartupInv(k)'
<1>1. StartupTypeOK'
  BY DEF StartupInv, StartupTypeOK, DatabaseOK
<1>2. ASSUME NEW q \in Replicas PROVE SafeMigration(replica[q])' /\ SafeSeeding(replica[q])'
  <2>1. CASE q = r
    <3>1. replica'[q] = x
      BY <2>1, StartupFacts
    <3> QED
      BY <3>1 DEF SafeMigration, SafeSeeding
  <2>2. CASE q # r
    <3>1. PICK y \in Replica : y = replica[q] /\ SafeSeeding(y)
      BY StartupFacts
    <3>2. SafeMigration(y)' /\ SafeSeeding(y)'
      BY <2>2, <3>1, SeedingIsStable
    <3>3. replica'[q] = y
      BY <2>2, <3>1
    <3> QED
      BY <3>2, <3>3 DEF SafeMigration, SafeSeeding
  <2> QED
    BY <2>1, <2>2
<1>3. \A p, q \in Replicas : At(p, "stamp")' /\ At(q, "stamp")' => p = q
  BY StartupFacts DEF StartupInv, At
<1> QED
  BY <1>1, <1>2, <1>3 DEF StartupInv

-------------------------------------------------------------------------------
(* How many rows a role has.                                               *)

LEMMA RowsFinite ==
    ASSUME DatabaseOK, NEW place \in Places
    PROVE  /\ IsFiniteSet(RowsOf(place)) /\ Cardinality(RowsOf(place)) \in Nat
           /\ IsFiniteSet(Inserting(place)) /\ Cardinality(Inserting(place)) \in Nat
           /\ Cardinality(Inserting(place)) <= Cardinality(Replicas)
<1>1. IsFiniteSet(DOMAIN roles) /\ RowsOf(place) \in SUBSET DOMAIN roles
  <2>1. Len(roles) \in Nat /\ DOMAIN roles = 1..Len(roles)
    BY DEF DatabaseOK
  <2> QED
    BY <2>1, FS_Interval DEF RowsOf
<1>2. IsFiniteSet(Replicas) /\ Inserting(place) \in SUBSET Replicas
  BY StartupAssumption DEF Inserting
<1> QED
  BY <1>1, <1>2, FS_Subset, FS_CardinalityType

\* The tables stay, and the replica that moves is not about to insert a role that exists.
LEMMA MovesOnly ==
    ASSUME NEW k \in Nat, StartupInv(k), StartsWithin(k)', NEW r \in Replicas, NEW x \in Replica,
           replica' = [replica EXCEPT ![r] = x], UNCHANGED database,
           crashes' \in 0..MaxCrashes,
           SafeMigration(x), SafeSeeding(x), x.pc # "stamp",
           x.pc = "insert_role" => RowsOf(x.place) = {}
    PROVE  StartupInv(k)'
<1>1. UNCHANGED <<engine, schema, permissions, roles, grants>>
  BY DEF database
<1>2. DatabaseOK' /\ SchemaOK' /\ Grows
  BY <1>1, StartupFacts DEF DatabaseOK, SchemaOK, Grows
<1>3. SafeMigration(x)' /\ SafeSeeding(x)'
  BY <1>1 DEF SafeMigration, SafeSeeding, Granted, RowsOf
<1>4. \A q \in Replicas \ {r} : SafeMigration(replica[q])'
  BY <1>1, StartupFacts DEF SafeMigration
<1>5. ASSUME NEW place \in Places
      PROVE  /\ Cardinality(RowsOf(place)') + Cardinality(Inserting(place)') <= k
             /\ engine' = "oracle" => Cardinality(RowsOf(place)') <= 1
  <2>1. RowsOf(place)' = RowsOf(place) /\ engine' = engine
    BY <1>1 DEF RowsOf
  <2>2. /\ Cardinality(RowsOf(place)) + Cardinality(Inserting(place)) <= k
        /\ engine = "oracle" => Cardinality(RowsOf(place)) <= 1
    BY DEF StartupInv, RowsInv
  <2>3. /\ Cardinality(RowsOf(place)) \in Nat /\ Cardinality(Inserting(place)) \in Nat
        /\ IsFiniteSet(Inserting(place)) /\ Cardinality({}) = 0
        /\ IsFiniteSet(Replicas) /\ Cardinality(Replicas) \in Nat
    BY StartupFacts, RowsFinite, FS_EmptySet, FS_CardinalityType, StartupAssumption
  <2>4. CASE x.pc = "insert_role" /\ x.place = place
    <3>1. Inserting(place)' \in SUBSET Starting' /\ Starting' \in SUBSET Replicas
      BY DEF Inserting, Starting, At
    <3>2. /\ Cardinality(Inserting(place)') \in Nat /\ Cardinality(Starting') \in Nat
          /\ Cardinality(Inserting(place)') <= Cardinality(Starting')
      BY <2>3, <3>1, FS_Subset, FS_CardinalityType
    <3>3. Cardinality(Inserting(place)') <= k
      BY <3>2 DEF StartsWithin
    <3> QED
      BY <2>1, <2>3, <2>4, <3>2, <3>3
  <2>5. CASE ~(x.pc = "insert_role" /\ x.place = place)
    <3>1. Inserting(place)' \in SUBSET Inserting(place)
      BY <2>5, StartupFacts DEF Inserting, At
    <3>2. Cardinality(Inserting(place)') \in Nat
          /\ Cardinality(Inserting(place)') <= Cardinality(Inserting(place))
      BY <2>3, <3>1, FS_Subset, FS_CardinalityType
    <3> QED
      BY <2>1, <2>2, <2>3, <3>2
  <2> QED
    BY <2>4, <2>5
<1>6. RowsInv(k)'
  BY <1>5 DEF RowsInv
<1> QED
  BY <1>2, <1>3, <1>4, <1>6, Moves

\* The rows stay, and the replica that moves does not go on to insert one.
LEMMA RowsKept ==
    ASSUME NEW k \in Nat, StartupInv(k), StartsWithin(k)', NEW r \in Replicas, NEW x \in Replica,
           replica' = [replica EXCEPT ![r] = x], UNCHANGED <<engine, roles>>,
           x.pc # "insert_role"
    PROVE  RowsInv(k)'
<1> SUFFICES ASSUME NEW place \in Places
             PROVE  /\ Cardinality(RowsOf(place)') + Cardinality(Inserting(place)')
                         <= k
                    /\ engine' = "oracle" => Cardinality(RowsOf(place)') <= 1
  BY DEF RowsInv
<1>1. RowsOf(place)' = RowsOf(place)
  BY DEF RowsOf
<1>2. Inserting(place)' \in SUBSET Inserting(place)
  BY StartupFacts DEF Inserting, At
<1>3. /\ Cardinality(RowsOf(place)) + Cardinality(Inserting(place)) <= k
      /\ engine = "oracle" => Cardinality(RowsOf(place)) <= 1
  BY DEF StartupInv, RowsInv
<1>4. /\ Cardinality(RowsOf(place)) \in Nat /\ Cardinality(Inserting(place)) \in Nat
      /\ IsFiniteSet(Inserting(place)) /\ Cardinality(Replicas) \in Nat
  BY StartupFacts, RowsFinite, FS_CardinalityType, StartupAssumption
<1>5. Cardinality(Inserting(place)') \in Nat
      /\ Cardinality(Inserting(place)') <= Cardinality(Inserting(place))
  BY <1>2, <1>4, FS_Subset, FS_CardinalityType
<1> QED
  BY <1>1, <1>3, <1>4, <1>5

-------------------------------------------------------------------------------
(* The steps of a start-up.                                                *)

LEMMA DownSafe ==
    /\ Down \in Replica /\ Down.pc = "down"
    /\ SafeMigration(Down) /\ SafeSeeding(Down)
<1>1. /\ Down.pc = "down" /\ Down.revision = 0 /\ Down.place = 1 /\ Down.row = 0
      /\ Down.missing = {} /\ Down.pending = {}
  BY DEF Down
<1>2. 1 \in 1..(Len(PackRoles) + 1)
  BY StartupAssumption
<1>3. Down \in Replica
  BY <1>2 DEF Down, Replica, Points
<1>4. SafeMigration(Down) /\ SafeSeeding(Down)
  BY <1>1 DEF SafeMigration, SafeSeeding
<1> QED
  BY <1>1, <1>3, <1>4

LEMMA FailStep ==
    ASSUME NEW k \in Nat, StartupInv(k), StartsWithin(k)', NEW r \in Replicas, Fail(r), crashes' \in 0..MaxCrashes
    PROVE  StartupInv(k)'
BY DownSafe, MovesOnly DEF Fail

LEMMA StartStep ==
    ASSUME NEW k \in Nat, StartupInv(k), StartsWithin(k)', NEW r \in Replicas, Start(r), UNCHANGED crashes
    PROVE  StartupInv(k)'
<1>0. DatabaseOK
  BY StartupFacts
<1>1. PICK x : x = [Down EXCEPT !.pc = "migrate", !.revision = schema.version]
  OBVIOUS
<1>2. /\ x.pc = "migrate" /\ x.revision = schema.version /\ x.place = 1
      /\ x.missing = {} /\ x.pending = {}
  BY <1>1 DEF Down
<1>3. x \in Replica
  <2>1. Down \in Replica /\ schema.version \in Nat
    BY <1>0, DownSafe, StartupAssumption DEF DatabaseOK
  <2> QED
    BY <1>1, <2>1 DEF Replica, Points
<1>4. SafeMigration(x) /\ SafeSeeding(x)
  BY <1>0, <1>2, StartupAssumption DEF SafeMigration, SafeSeeding, DatabaseOK
<1>5. replica' = [replica EXCEPT ![r] = x] /\ UNCHANGED database
  BY <1>1 DEF Start
<1> QED
  BY <1>0, <1>2, <1>3, <1>4, <1>5, MovesOnly DEF DatabaseOK

\* A replica goes to a point without a change of its other locals.
LEMMA GotoShape ==
    ASSUME NEW k \in Nat, StartupInv(k), StartsWithin(k)', NEW r \in Replicas, NEW point \in Points, Goto(r, point)
    PROVE  \E x \in Replica :
              /\ replica' = [replica EXCEPT ![r] = x]
              /\ x.pc = point /\ x.revision = replica[r].revision /\ x.place = replica[r].place
              /\ x.row = replica[r].row /\ x.missing = replica[r].missing
              /\ x.pending = replica[r].pending
<1>1. PICK y \in Replica : y = replica[r]
  BY StartupFacts
<1>2. PICK x : x = [y EXCEPT !.pc = point]
  OBVIOUS
<1>3. x \in Replica
  BY <1>2 DEF Replica
<1>4. /\ x.pc = point /\ x.revision = y.revision /\ x.place = y.place
      /\ x.row = y.row /\ x.missing = y.missing /\ x.pending = y.pending
  BY <1>2 DEF Replica
<1>5. replica' = [replica EXCEPT ![r] = x]
  BY <1>1, <1>2, StartupFacts DEF Goto
<1> QED
  BY <1>1, <1>3, <1>4, <1>5

LEMMA MigratedStep ==
    ASSUME NEW k \in Nat, StartupInv(k), StartsWithin(k)', NEW r \in Replicas, Migrated(r), UNCHANGED crashes
    PROVE  StartupInv(k)'
<1>0. /\ DatabaseOK /\ replica[r] \in Replica
      /\ SafeMigration(replica[r]) /\ SafeSeeding(replica[r])
  BY StartupFacts
<1>1. Goto(r, "permissions") /\ "permissions" \in Points /\ UNCHANGED database
  BY DEF Migrated, Points
<1>2. PICK x \in Replica :
         /\ replica' = [replica EXCEPT ![r] = x]
         /\ x.pc = "permissions" /\ x.place = replica[r].place
         /\ x.pending = replica[r].pending
  BY <1>1, GotoShape
<1>3. schema.version = Revisions
  BY <1>0, StartupAssumption DEF Migrated, At, SafeMigration, DatabaseOK
<1>4. SafeMigration(x) /\ SafeSeeding(x)
  BY <1>0, <1>2, <1>3 DEF Migrated, At, SafeMigration, SafeSeeding
<1> QED
  BY <1>0, <1>1, <1>2, <1>4, MovesOnly DEF DatabaseOK

LEMMA UpgradeStep ==
    ASSUME NEW k \in Nat, StartupInv(k), StartsWithin(k)', NEW r \in Replicas, Upgrade(r), UNCHANGED crashes
    PROVE  StartupInv(k)'
<1>0. /\ DatabaseOK /\ SchemaOK /\ replica[r] \in Replica
      /\ \A q \in Replicas : SafeMigration(replica[q]) /\ SafeSeeding(replica[q])
  BY StartupFacts
<1>1. CASE schema.version = replica[r].revision
  <2>1. /\ Goto(r, "permissions") /\ "permissions" \in Points /\ engine = "postgres"
        /\ schema' = [version |-> Revisions, objects |-> Revisions]
        /\ UNCHANGED <<engine, permissions, roles, grants>>
        /\ At(r, "migrate")
    BY <1>1 DEF Upgrade, Points
  <2>2. PICK x \in Replica :
           /\ replica' = [replica EXCEPT ![r] = x]
           /\ x.pc = "permissions" /\ x.place = replica[r].place
           /\ x.pending = replica[r].pending
    BY <2>1, GotoShape
  <2>3. schema'.version = Revisions /\ schema'.objects = Revisions
    BY <2>1
  <2>4. schema' \in [version : 0..Revisions, objects : 0..Revisions] /\ Revisions \in Nat
    BY <2>1, StartupAssumption
  <2>5. DatabaseOK' /\ SchemaOK' /\ Grows
    BY <1>0, <2>1, <2>3, <2>4 DEF DatabaseOK, SchemaOK, Grows
  <2>6. SafeMigration(x)'
    BY <2>2, <2>3 DEF SafeMigration
  <2>7. SafeSeeding(x)'
    BY <1>0, <2>1, <2>2 DEF SafeSeeding, At
  <2>8. ASSUME NEW q \in Replicas \ {r} PROVE SafeMigration(replica[q])'
    <3>1. replica'[q] = replica[q] /\ replica[q] \in Replica /\ SafeMigration(replica[q])
      BY <1>0, <2>2, StartupFacts
    <3>2. schema.version \in 0..Revisions /\ replica[q].revision \in Nat
      BY <1>0, <3>1 DEF DatabaseOK, Replica
    <3> QED
      BY <2>1, <2>3, <2>4, <3>1, <3>2 DEF SafeMigration
  <2>9. RowsInv(k)'
    BY <2>1, <2>2, RowsKept
  <2> QED
    BY <2>2, <2>5, <2>6, <2>7, <2>8, <2>9, Moves
<1>2. CASE schema.version # replica[r].revision
  BY <1>0, <1>2, FailStep DEF Upgrade, DatabaseOK
<1> QED
  BY <1>1, <1>2

LEMMA CreateObjectsStep ==
    ASSUME NEW k \in Nat, StartupInv(k), StartsWithin(k)', NEW r \in Replicas, CreateObjects(r), UNCHANGED crashes
    PROVE  StartupInv(k)'
<1>0. /\ DatabaseOK /\ SchemaOK /\ replica[r] \in Replica
      /\ \A q \in Replicas : SafeMigration(replica[q]) /\ SafeSeeding(replica[q])
  BY StartupFacts
<1>1. CASE schema.objects = replica[r].revision
  <2>1. /\ Goto(r, "stamp") /\ "stamp" \in Points /\ engine = "oracle"
        /\ schema' = [schema EXCEPT !.objects = @ + 1]
        /\ UNCHANGED <<engine, permissions, roles, grants>>
        /\ At(r, "migrate") /\ replica[r].revision < Revisions
    BY <1>1 DEF CreateObjects, Points
  <2>2. PICK x \in Replica :
           /\ replica' = [replica EXCEPT ![r] = x]
           /\ x.pc = "stamp" /\ x.place = replica[r].place
           /\ x.revision = replica[r].revision /\ x.pending = replica[r].pending
    BY <2>1, GotoShape
  <2>3. /\ schema'.version = schema.version /\ schema'.objects = schema.objects + 1
        /\ schema.version \in Nat /\ schema.objects \in Nat /\ replica[r].revision \in Nat
        /\ Revisions \in Nat
    BY <1>0, <2>1, StartupAssumption DEF DatabaseOK, Replica
  <2>4. schema.version = replica[r].revision /\ schema.objects = schema.version
    BY <1>0, <1>1, <2>1, <2>3 DEF SafeMigration, SchemaOK, At
  <2>5. schema' \in [version : 0..Revisions, objects : 0..Revisions]
    <3>1. schema.objects + 1 \in 0..Revisions
      BY <2>1, <2>3, <2>4
    <3> QED
      BY <1>0, <2>1, <3>1 DEF DatabaseOK
  <2>6. DatabaseOK' /\ SchemaOK' /\ Grows
    BY <1>0, <2>1, <2>3, <2>4, <2>5 DEF DatabaseOK, SchemaOK, Grows
  <2>7. SafeMigration(x)'
    BY <2>1, <2>2, <2>3, <2>4 DEF SafeMigration
  <2>8. SafeSeeding(x)'
    BY <1>0, <2>1, <2>2 DEF SafeSeeding, At
  <2>9. ASSUME NEW q \in Replicas \ {r} PROVE SafeMigration(replica[q])' /\ ~At(q, "stamp")
    <3>1. replica'[q] = replica[q] /\ SafeMigration(replica[q])
      BY <1>0, <2>2, StartupFacts
    <3> QED
      BY <2>1, <2>3, <2>4, <3>1 DEF SafeMigration, At
  <2>10. RowsInv(k)'
    BY <2>1, <2>2, RowsKept
  <2> QED
    BY <2>2, <2>6, <2>7, <2>8, <2>9, <2>10, Moves
<1>2. CASE schema.objects # replica[r].revision
  BY <1>0, <1>2, FailStep DEF CreateObjects, DatabaseOK
<1> QED
  BY <1>1, <1>2

LEMMA StampStep ==
    ASSUME NEW k \in Nat, StartupInv(k), StartsWithin(k)', NEW r \in Replicas, Stamp(r), UNCHANGED crashes
    PROVE  StartupInv(k)'
<1>0. /\ DatabaseOK /\ SchemaOK /\ replica[r] \in Replica
      /\ \A q \in Replicas : SafeMigration(replica[q]) /\ SafeSeeding(replica[q])
  BY StartupFacts
<1>1. PICK y \in Replica : y = replica[r]
  BY <1>0
<1>2. PICK x : x = [y EXCEPT !.pc = "migrate", !.revision = @ + 1]
  OBVIOUS
<1>3. x \in Replica
  <2>1. PICK n \in Nat : n = y.revision + 1
    BY DEF Replica
  <2>2. x = [y EXCEPT !.pc = "migrate", !.revision = n]
    BY <1>2, <2>1
  <2> QED
    BY <2>2 DEF Replica, Points
<1>4. x.pc = "migrate" /\ x.revision = y.revision + 1 /\ x.place = y.place /\ x.pending = y.pending
  BY <1>2 DEF Replica
<1>5. replica' = [replica EXCEPT ![r] = x]
  BY <1>1, <1>2, StartupFacts DEF Stamp
<1>6. /\ y.pc = "stamp" /\ schema' = [schema EXCEPT !.version = y.revision + 1]
      /\ UNCHANGED <<engine, permissions, roles, grants>>
  BY <1>1 DEF Stamp, At
<1>7. /\ engine = "oracle" /\ y.revision = schema.version /\ schema.objects = y.revision + 1
      /\ y.place = 1 /\ y.pending = {}
  BY <1>0, <1>1, <1>6 DEF SafeMigration, SafeSeeding
<1>8. /\ schema'.version = schema.version + 1 /\ schema'.objects = schema.version + 1
      /\ schema.version \in Nat /\ schema.version + 1 \in 0..Revisions
      /\ Revisions \in Nat
  BY <1>0, <1>6, <1>7, StartupAssumption DEF DatabaseOK
<1>9. DatabaseOK' /\ SchemaOK' /\ Grows
  <2>1. schema' \in [version : 0..Revisions, objects : 0..Revisions]
    BY <1>0, <1>6, <1>7, <1>8 DEF DatabaseOK
  <2> QED
    BY <1>0, <1>6, <1>7, <1>8, <2>1 DEF DatabaseOK, SchemaOK, Grows
<1>10. SafeMigration(x)' /\ SafeSeeding(x)'
  BY <1>4, <1>7, <1>8 DEF SafeMigration, SafeSeeding
<1>11. ASSUME NEW q \in Replicas \ {r} PROVE SafeMigration(replica[q])'
  <2>1. replica'[q] = replica[q] /\ SafeMigration(replica[q]) /\ replica[q] \in Replica
    BY <1>0, <1>5, StartupFacts
  <2>2. replica[q].pc # "stamp" /\ replica[q].revision \in Nat
    BY <1>1, <1>6, <2>1 DEF StartupInv, At, Replica
  <2>3. schema.version # Revisions
    BY <1>8
  <2> QED
    BY <1>8, <2>1, <2>2, <2>3 DEF SafeMigration
<1>12. RowsInv(k)'
  BY <1>3, <1>4, <1>5, <1>6, RowsKept
<1> QED
  BY <1>3, <1>4, <1>5, <1>9, <1>10, <1>11, <1>12, Moves

LEMMA ReadPermissionsStep ==
    ASSUME NEW k \in Nat, StartupInv(k), StartsWithin(k)', NEW r \in Replicas, ReadPermissions(r), UNCHANGED crashes
    PROVE  StartupInv(k)'
<1>0. /\ DatabaseOK /\ SafeMigration(replica[r]) /\ SafeSeeding(replica[r])
  BY StartupFacts
<1>1. PICK y \in Replica : y = replica[r]
  BY StartupFacts
<1>2. PICK x : x = [y EXCEPT !.pc = "commit_permissions", !.missing = Permissions \ permissions]
  OBVIOUS
<1>3. x \in Replica
  BY <1>2 DEF Replica, Points
<1>4. /\ x.pc = "commit_permissions" /\ x.missing = Permissions \ permissions
      /\ x.place = y.place /\ x.pending = y.pending
  BY <1>2 DEF Replica
<1>5. replica' = [replica EXCEPT ![r] = x] /\ UNCHANGED database /\ y.pc = "permissions"
  BY <1>1, <1>2, StartupFacts DEF ReadPermissions, At
<1>6. SafeMigration(x) /\ SafeSeeding(x)
  BY <1>0, <1>1, <1>4, <1>5 DEF SafeMigration, SafeSeeding
<1> QED
  BY <1>0, <1>3, <1>4, <1>5, <1>6, MovesOnly DEF DatabaseOK

LEMMA CommitPermissionsStep ==
    ASSUME NEW k \in Nat, StartupInv(k), StartsWithin(k)', NEW r \in Replicas, CommitPermissions(r), UNCHANGED crashes
    PROVE  StartupInv(k)'
<1>0. /\ DatabaseOK /\ SchemaOK
      /\ \A q \in Replicas : SafeMigration(replica[q]) /\ SafeSeeding(replica[q])
  BY StartupFacts
<1>1. CASE replica[r].missing \cap permissions = {}
  <2>1. PICK y \in Replica : y = replica[r]
    BY StartupFacts
  <2>2. PICK x : x = [y EXCEPT !.pc = "roles", !.missing = {}]
    OBVIOUS
  <2>3. x \in Replica
    BY <2>2 DEF Replica, Points
  <2>4. x.pc = "roles" /\ x.place = y.place /\ x.pending = y.pending
    BY <2>2 DEF Replica
  <2>5. /\ replica' = [replica EXCEPT ![r] = x] /\ y.pc = "commit_permissions"
        /\ permissions' = permissions \cup y.missing
        /\ UNCHANGED <<engine, schema, roles, grants>>
    BY <1>1, <2>1, <2>2, StartupFacts DEF CommitPermissions, At
  <2>6. /\ y.place = 1 /\ y.pending = {} /\ y.missing \subseteq Permissions
        /\ Permissions \subseteq permissions \cup y.missing /\ schema.version = Revisions
    BY <1>0, <2>1, <2>5 DEF SafeSeeding, SafeMigration
  <2>7. permissions' = Permissions
    BY <1>0, <2>5, <2>6 DEF DatabaseOK
  <2>8. DatabaseOK' /\ SchemaOK' /\ Grows
    BY <1>0, <2>5, <2>7 DEF DatabaseOK, SchemaOK, Grows
  <2>9. SafeMigration(x)'
    BY <2>4, <2>5, <2>6 DEF SafeMigration
  <2>10. SafeSeeding(x)'
    BY <2>4, <2>6, <2>7 DEF SafeSeeding, Places
  <2>11. ASSUME NEW q \in Replicas \ {r} PROVE SafeMigration(replica[q])'
    BY <1>0, <2>5, StartupFacts DEF SafeMigration
  <2>12. RowsInv(k)'
    BY <2>3, <2>4, <2>5, RowsKept
  <2> QED
    BY <2>3, <2>4, <2>5, <2>8, <2>9, <2>10, <2>11, <2>12, Moves
<1>2. CASE replica[r].missing \cap permissions # {}
  BY <1>0, <1>2, FailStep DEF CommitPermissions, DatabaseOK
<1> QED
  BY <1>1, <1>2

LEMMA SelectRoleStep ==
    ASSUME NEW k \in Nat, StartupInv(k), StartsWithin(k)', NEW r \in Replicas, SelectRole(r), UNCHANGED crashes
    PROVE  StartupInv(k)'
<1>0. /\ DatabaseOK /\ SafeMigration(replica[r]) /\ SafeSeeding(replica[r])
  BY StartupFacts
<1>1. PICK y \in Replica : y = replica[r]
  BY StartupFacts
<1>2. /\ y.pc = "roles" /\ y.place \in Places /\ permissions = Permissions
      /\ schema.version = Revisions /\ y.pending \subseteq (DOMAIN roles) \X Permissions
      /\ \A place \in Places : place < y.place => Granted(place, y.pending)
  BY <1>0, <1>1 DEF SelectRole, At, SafeMigration, SafeSeeding
<1>3. CASE RowsOf(y.place) = {} /\ Goto(r, "insert_role") /\ UNCHANGED database
  <2>1. PICK x \in Replica :
           /\ replica' = [replica EXCEPT ![r] = x]
           /\ x.pc = "insert_role" /\ x.place = y.place /\ x.pending = y.pending
    <3>1. "insert_role" \in Points
      BY DEF Points
    <3> QED
      BY <1>1, <1>3, <3>1, GotoShape
  <2>2. SafeMigration(x) /\ SafeSeeding(x)
    BY <1>2, <2>1 DEF SafeMigration, SafeSeeding
  <2> QED
    BY <1>0, <1>3, <2>1, <2>2, MovesOnly DEF DatabaseOK
<1>4. CASE /\ Cardinality(RowsOf(y.place)) = 1 /\ UNCHANGED database
           /\ replica' = [replica EXCEPT ![r].pc = "grants",
                                         ![r].row = CHOOSE i \in RowsOf(y.place) : TRUE]
  <2>1. PICK row : row = CHOOSE i \in RowsOf(y.place) : TRUE
    OBVIOUS
  <2>2. RowsOf(y.place) # {}
    BY <1>4, FS_EmptySet
  <2>3. row \in RowsOf(y.place) /\ row \in Nat
    BY <1>0, <2>1, <2>2 DEF RowsOf, DatabaseOK
  <2>4. PICK x : x = [y EXCEPT !.pc = "grants", !.row = row]
    OBVIOUS
  <2>5. x \in Replica
    BY <2>3, <2>4 DEF Replica, Points
  <2>6. x.pc = "grants" /\ x.row = row /\ x.place = y.place /\ x.pending = y.pending
    BY <2>4 DEF Replica
  <2>7. replica' = [replica EXCEPT ![r] = x]
    <3>1. replica' = [replica EXCEPT ![r].pc = "grants", ![r].row = row]
      BY <1>4, <2>1, Zenon
    <3> QED
      BY <1>1, <2>4, <3>1, StartupFacts
  <2>8. SafeMigration(x) /\ SafeSeeding(x)
    BY <1>2, <2>3, <2>6 DEF SafeMigration, SafeSeeding
  <2> QED
    BY <1>0, <1>4, <2>5, <2>6, <2>7, <2>8, MovesOnly DEF DatabaseOK
<1>5. CASE Fail(r)
  BY <1>0, <1>5, FailStep DEF DatabaseOK
<1> QED
  BY <1>1, <1>3, <1>4, <1>5 DEF SelectRole

LEMMA GrantPermissionsStep ==
    ASSUME NEW k \in Nat, StartupInv(k), StartsWithin(k)', NEW r \in Replicas, GrantPermissions(r), UNCHANGED crashes
    PROVE  StartupInv(k)'
<1>0. /\ DatabaseOK /\ SafeMigration(replica[r]) /\ SafeSeeding(replica[r])
  BY StartupFacts
<1>1. PICK y \in Replica : y = replica[r]
  BY StartupFacts
<1>2. /\ y.pc = "grants" /\ y.place \in Places /\ permissions = Permissions
      /\ schema.version = Revisions /\ y.pending \subseteq (DOMAIN roles) \X Permissions
      /\ \A place \in Places : place < y.place => Granted(place, y.pending)
      /\ y.row \in RowsOf(y.place)
  BY <1>0, <1>1 DEF GrantPermissions, At, SafeMigration, SafeSeeding
<1>3. PICK new : new = ({y.row} \X PackGrants[y.place]) \ grants
  OBVIOUS
<1>4. PackGrants[y.place] \subseteq Permissions /\ y.row \in DOMAIN roles /\ y.row \in Nat
  BY <1>0, <1>2, StartupAssumption DEF Places, RowsOf, DatabaseOK
<1>5. new \subseteq (DOMAIN roles) \X Permissions /\ new \subseteq Nat \X Permissions
  BY <1>3, <1>4
<1>6. PICK x : x = [y EXCEPT !.pc = "roles", !.place = @ + 1, !.row = 0, !.pending = @ \cup new]
  OBVIOUS
<1>7. y.place + 1 \in 1..(Len(PackRoles) + 1) /\ y.place \in Nat
  BY <1>2, StartupAssumption DEF Places
<1>8. x \in Replica
  <2>1. PICK next : next = y.place + 1
    OBVIOUS
  <2>2. PICK pending : pending = y.pending \cup new /\ pending \subseteq Nat \X Permissions
    BY <1>5 DEF Replica
  <2>3. x = [y EXCEPT !.pc = "roles", !.place = next, !.row = 0, !.pending = pending]
    BY <1>6, <2>1, <2>2
  <2> QED
    BY <1>7, <2>1, <2>2, <2>3 DEF Replica, Points
<1>9. x.pc = "roles" /\ x.place = y.place + 1 /\ x.pending = y.pending \cup new
  BY <1>6 DEF Replica
<1>10. replica' = [replica EXCEPT ![r] = x] /\ UNCHANGED database
  BY <1>1, <1>3, <1>6, StartupFacts DEF GrantPermissions, Ungranted
<1>11. ASSUME NEW place \in Places, place < x.place PROVE Granted(place, x.pending)
  <2>1. CASE place = y.place
    <3>1. {y.row} \X PackGrants[place] \subseteq grants \cup x.pending
      BY <1>3, <1>9, <2>1
    <3> QED
      BY <1>2, <2>1, <3>1 DEF Granted
  <2>2. CASE place # y.place
    <3>1. place < y.place
      BY <1>7, <1>9, <1>11, <2>2 DEF Places
    <3>2. Granted(place, y.pending)
      BY <1>2, <3>1
    <3> QED
      BY <1>9, <3>2 DEF Granted
  <2> QED
    BY <2>1, <2>2
<1>12. SafeMigration(x) /\ SafeSeeding(x)
  BY <1>2, <1>5, <1>9, <1>11 DEF SafeMigration, SafeSeeding
<1> QED
  BY <1>0, <1>8, <1>9, <1>10, <1>12, MovesOnly DEF DatabaseOK

LEMMA SeededStep ==
    ASSUME NEW k \in Nat, StartupInv(k), StartsWithin(k)', NEW r \in Replicas, Seeded(r), UNCHANGED crashes
    PROVE  StartupInv(k)'
<1>0. /\ DatabaseOK /\ SchemaOK
      /\ \A q \in Replicas : SafeMigration(replica[q]) /\ SafeSeeding(replica[q])
  BY StartupFacts
<1>1. CASE ~GrantTaken(r)
  <2>1. PICK y \in Replica : y = replica[r]
    BY StartupFacts
  <2>2. PICK x : x = [Down EXCEPT !.pc = "serving"]
    OBVIOUS
  <2>3. x \in Replica
    BY <2>2, DownSafe DEF Replica, Points
  <2>4. x.pc = "serving"
    BY <2>2 DEF Down
  <2>5. /\ replica' = [replica EXCEPT ![r] = x] /\ y.pc = "roles" /\ y.place \notin Places
        /\ grants' = grants \cup y.pending
        /\ UNCHANGED <<engine, schema, permissions, roles>>
    BY <1>1, <2>1, <2>2 DEF Seeded, At
  <2>6. /\ permissions = Permissions /\ schema.version = Revisions
        /\ y.pending \subseteq (DOMAIN roles) \X Permissions
        /\ \A place \in Places : place < y.place => Granted(place, y.pending)
    BY <1>0, <2>1, <2>5 DEF SafeSeeding, SafeMigration
  <2>7. \A place \in Places : place < y.place
    <3>1. y.place \in 1..(Len(PackRoles) + 1) /\ Len(PackRoles) \in Nat
      BY StartupAssumption DEF Replica
    <3> QED
      BY <2>5, <3>1 DEF Places
  <2>8. DatabaseOK' /\ SchemaOK' /\ Grows
    BY <1>0, <2>5, <2>6 DEF DatabaseOK, SchemaOK, Grows
  <2>9. SafeMigration(x)'
    BY <2>4, <2>5, <2>6 DEF SafeMigration
  <2>10. ASSUME NEW place \in Places PROVE Granted(place, {})'
    <3>1. Granted(place, y.pending)
      BY <2>6, <2>7
    <3> QED
      BY <2>5, <3>1 DEF Granted, RowsOf
  <2>11. SafeSeeding(x)'
    BY <2>4, <2>5, <2>6, <2>10 DEF SafeSeeding
  <2>12. ASSUME NEW q \in Replicas \ {r} PROVE SafeMigration(replica[q])'
    BY <1>0, <2>5, StartupFacts DEF SafeMigration
  <2>13. RowsInv(k)'
    BY <2>3, <2>4, <2>5, RowsKept
  <2> QED
    BY <2>3, <2>4, <2>5, <2>8, <2>9, <2>11, <2>12, <2>13, Moves
<1>2. CASE GrantTaken(r)
  BY <1>0, <1>2, FailStep DEF Seeded, DatabaseOK
<1> QED
  BY <1>1, <1>2

LEMMA InsertRoleStep ==
    ASSUME NEW k \in Nat, StartupInv(k), StartsWithin(k)', NEW r \in Replicas, InsertRole(r), UNCHANGED crashes
    PROVE  StartupInv(k)'
<1>0. /\ DatabaseOK /\ SchemaOK
      /\ \A q \in Replicas : SafeMigration(replica[q]) /\ SafeSeeding(replica[q])
  BY StartupFacts
<1>1. PICK y \in Replica : y = replica[r]
  BY StartupFacts
<1>2. CASE ~NameTaken(y.place) /\ ~GrantTaken(r)
  <2>1. PICK new \in Nat : new = Len(roles) + 1
    BY <1>0 DEF DatabaseOK
  <2>2. PICK x : x = [y EXCEPT !.pc = "grants", !.row = new, !.pending = {}]
    OBVIOUS
  <2>3. x \in Replica
    BY <2>2 DEF Replica, Points
  <2>4. x.pc = "grants" /\ x.row = new /\ x.place = y.place /\ x.pending = {}
    BY <2>2 DEF Replica
  <2>5. /\ replica' = [replica EXCEPT ![r] = x] /\ y.pc = "insert_role"
        /\ roles' = Append(roles, y.place)
        /\ grants' = grants \cup y.pending
        /\ UNCHANGED <<engine, schema, permissions>>
    BY <1>1, <1>2, <2>1, <2>2, StartupFacts DEF InsertRole, At
  <2>6. /\ permissions = Permissions /\ schema.version = Revisions /\ y.place \in Places
        /\ y.pending \subseteq (DOMAIN roles) \X Permissions
        /\ \A place \in Places : place < y.place => Granted(place, y.pending)
    BY <1>0, <1>1, <2>5 DEF SafeSeeding, SafeMigration
  <2>7. /\ roles' \in Seq(Places) /\ DOMAIN roles' = DOMAIN roles \cup {new}
        /\ new \notin DOMAIN roles
        /\ \A i \in DOMAIN roles : roles'[i] = roles[i]
        /\ roles'[new] = y.place
    BY <1>0, <2>1, <2>5, <2>6 DEF DatabaseOK
  <2>8. DatabaseOK' /\ SchemaOK' /\ Grows
    BY <1>0, <2>5, <2>6, <2>7 DEF DatabaseOK, SchemaOK, Grows
  <2>9. SafeMigration(x)'
    BY <2>4, <2>5, <2>6 DEF SafeMigration
  <2>10. /\ RowsOf(y.place)' = RowsOf(y.place) \cup {new}
         /\ \A place \in Places \ {y.place} : RowsOf(place)' = RowsOf(place)
         /\ new \notin RowsOf(y.place)
    BY <2>7 DEF RowsOf
  <2>11. ASSUME NEW place \in Places, place < x.place PROVE Granted(place, {})'
    <3>1. Granted(place, y.pending)
      BY <2>4, <2>6, <2>11
    <3>2. RowsOf(place) \subseteq RowsOf(place)'
      BY <2>10
    <3> QED
      BY <2>5, <3>1, <3>2 DEF Granted
  <2>12. SafeSeeding(x)'
    BY <2>4, <2>5, <2>6, <2>10, <2>11 DEF SafeSeeding
  <2>13. ASSUME NEW q \in Replicas \ {r} PROVE SafeMigration(replica[q])'
    BY <1>0, <2>5, StartupFacts DEF SafeMigration
  <2>14. ASSUME NEW place \in Places
         PROVE  /\ Cardinality(RowsOf(place)') + Cardinality(Inserting(place)')
                      <= k
                /\ engine' = "oracle" => Cardinality(RowsOf(place)') <= 1
    <3>1. /\ Cardinality(RowsOf(place)) \in Nat /\ Cardinality(Inserting(place)) \in Nat
          /\ IsFiniteSet(RowsOf(place)) /\ IsFiniteSet(Inserting(place))
          /\ Cardinality(Replicas) \in Nat
      BY <1>0, RowsFinite, FS_CardinalityType, StartupAssumption
    <3>2. /\ Cardinality(RowsOf(place)) + Cardinality(Inserting(place)) <= k
          /\ engine = "oracle" => Cardinality(RowsOf(place)) <= 1
      BY DEF StartupInv, RowsInv
    <3>3. CASE place = y.place
      <4>1. Inserting(place)' = Inserting(place) \ {r} /\ r \in Inserting(place)
        BY <1>1, <2>4, <2>5, <3>3, StartupFacts DEF Inserting, At
      <4>2. Cardinality(Inserting(place)') = Cardinality(Inserting(place)) - 1
        BY <3>1, <4>1, FS_RemoveElement
      <4>3. Cardinality(RowsOf(place)') = Cardinality(RowsOf(place)) + 1
        BY <2>10, <3>1, <3>3, FS_AddElement
      <4>4. engine = "oracle" => Cardinality(RowsOf(place)) = 0
        <5>1. engine = "oracle" => RowsOf(place) = {}
          BY <1>2, <3>3 DEF NameTaken
        <5> QED
          BY <5>1, FS_EmptySet
      <4>5. Cardinality(RowsOf(place)') + Cardinality(Inserting(place)') <= k
        BY <3>1, <3>2, <4>2, <4>3
      <4>6. engine' = "oracle" => Cardinality(RowsOf(place)') <= 1
        BY <2>5, <3>1, <4>3, <4>4
      <4> QED
        BY <4>5, <4>6
    <3>4. CASE place # y.place
      <4>1. Inserting(place)' = Inserting(place) /\ RowsOf(place)' = RowsOf(place)
        BY <1>1, <2>4, <2>5, <2>10, <3>4, StartupFacts DEF Inserting, At
      <4> QED
        BY <2>5, <3>2, <4>1
    <3> QED
      BY <3>3, <3>4
  <2>15. RowsInv(k)'
    BY <2>14 DEF RowsInv
  <2> QED
    BY <2>3, <2>4, <2>5, <2>8, <2>9, <2>12, <2>13, <2>15, Moves
<1>3. CASE NameTaken(y.place) \/ GrantTaken(r)
  BY <1>0, <1>1, <1>3, FailStep DEF InsertRole, DatabaseOK
<1> QED
  BY <1>2, <1>3

LEMMA StartupStep ==
    ASSUME NEW k \in Nat, StartupInv(k), StartsWithin(k)', [StartupNext]_startup
    PROVE  StartupInv(k)'
<1>1. ASSUME NEW r \in Replicas, Boot(r) PROVE StartupInv(k)'
  BY <1>1, StartStep, MigratedStep, UpgradeStep, CreateObjectsStep, StampStep,
     ReadPermissionsStep, CommitPermissionsStep, SelectRoleStep, InsertRoleStep,
     GrantPermissionsStep, SeededStep DEF Boot
<1>2. ASSUME NEW r \in Replicas, Crash(r) PROVE StartupInv(k)'
  <2>1. crashes' \in 0..MaxCrashes
    BY <1>2, StartupFacts, StartupAssumption DEF Crash, DatabaseOK
  <2> QED
    BY <1>2, <2>1, FailStep DEF Crash
<1>3. CASE UNCHANGED startup
  <2>1. UNCHANGED <<engine, schema, permissions, roles, grants, replica, crashes>>
    BY <1>3 DEF startup
  <2>2. StartupTypeOK' /\ SchemaOK'
    BY <2>1 DEF StartupInv, StartupTypeOK, SchemaOK
  <2>3. \A r \in Replicas : SafeMigration(replica[r])' /\ SafeSeeding(replica[r])'
    BY <2>1, StartupFacts DEF SafeMigration, SafeSeeding, Granted, RowsOf
  <2>4. \A r, q \in Replicas : At(r, "stamp")' /\ At(q, "stamp")' => r = q
    BY <2>1 DEF StartupInv, At
  <2>5. RowsInv(k)'
    BY <2>1 DEF StartupInv, RowsInv, RowsOf, Inserting, At
  <2> QED
    BY <2>2, <2>3, <2>4, <2>5 DEF StartupInv
<1> QED
  BY <1>1, <1>2, <1>3 DEF StartupNext

LEMMA StartupInit_Inv ==
    ASSUME NEW k \in Nat, StartupInit
    PROVE  StartupInv(k)
<1>1. StartupTypeOK
  <2>1. \A r \in Replicas : replica[r] = Down
    BY DEF StartupInit
  <2> QED
    BY DownSafe, StartupAssumption DEF StartupInit, StartupTypeOK
<1>2. SchemaOK
  BY DEF StartupInit, SchemaOK
<1>3. \A r \in Replicas : SafeMigration(replica[r]) /\ SafeSeeding(replica[r])
  BY DownSafe DEF StartupInit
<1>4. \A r \in Replicas : replica[r].pc = "down"
  BY DownSafe DEF StartupInit
<1>5. \A place \in Places : RowsOf(place) = {} /\ Inserting(place) = {}
  BY <1>4 DEF StartupInit, RowsOf, Inserting, At
<1>6. Cardinality({}) = 0 /\ Cardinality(Replicas) \in Nat
  BY FS_EmptySet, FS_CardinalityType, StartupAssumption
<1>7. RowsInv(k)
  BY <1>5, <1>6 DEF RowsInv
<1> QED
  BY <1>1, <1>2, <1>3, <1>4, <1>7 DEF StartupInv, At

-------------------------------------------------------------------------------
(* The invariant of the accounts and their roles.                          *)

RequestSafe(x) ==
    /\ x.pc \in {"count", "insert", "provision", "mappings", "assign"} => x.email \in Emails
    /\ x.pc \in {"insert", "provision"} => x.role \in {"admin", "user", "pending"}
    /\ x.pc = "provision" => x.role = "user"
    /\ x.pc = "insert" /\ x.role = "admin" => ~x.late
    /\ x.late => Accounts # {}
    /\ x.pc # "assign" => x.adding = {}

RulesOK ==
    /\ mappings \in Seq(Mapped) /\ Len(mappings) <= MaxMappings
    /\ dropped \subseteq DOMAIN mappings
    /\ audit \subseteq Changes /\ lost \subseteq Changes

DirectoryTypeOK ==
    /\ users \in [Emails -> UserRoles]
    /\ RulesOK
    /\ assigned \in [Emails -> [Mapped -> Nat]]
    /\ given \subseteq AdminRows
    /\ request \in [Workers -> Request]
    /\ crashes \in Nat

\* The overlap of registrations and of one account's sign-ins.
Overlaps(j, k) == RegistrationsWithin(j) /\ SignInsWithin(k)

\* The requests that change mappings, and what one of them owes the audit log.
Changing == {"refresh", "log_create", "delete", "log_delete"}

OwedBy(x) ==
    IF x.pc \in {"refresh", "log_create"} THEN {<<"create", x.mapping>>}
    ELSE IF x.pc = "log_delete" THEN {<<"delete", x.mapping>>}
    ELSE {}

MappingSafe(x) ==
    /\ x.pc \in Changing => x.mapping \in DOMAIN mappings
    /\ x.pc = "log_delete" => x.mapping \in dropped

Forgotten == {<<"create", id>> : id \in dropped}

AuditInv ==
    /\ \A w \in Workers : MappingSafe(request[w])
    /\ audit \subseteq Made
    /\ \A change \in Made \ audit :
          change \in lost \cup Forgotten \/ \E w \in Workers : change \in OwedBy(request[w])

\* Emails may be infinite, but accounts are made one by one.
DirectoryInv(j, k) ==
    /\ DirectoryTypeOK
    /\ IsFiniteSet(Accounts)
    /\ \A w \in Workers : RequestSafe(request[w])
    /\ FirstAdminsWithin(j)
    /\ AssignmentsWithin(k)
    /\ AuditInv

LEMMA WorkerSets ==
    /\ IsFiniteSet(Workers) /\ Cardinality(Workers) \in Nat
    /\ \A S \in SUBSET Workers : /\ IsFiniteSet(S) /\ Cardinality(S) \in Nat
                                 /\ Cardinality(S) <= Cardinality(Workers)
    /\ \A S \in SUBSET Workers : \A T \in SUBSET S : Cardinality(T) <= Cardinality(S)
BY DirectoryAssumption, FS_Subset, FS_CardinalityType

LEMMA InvSets ==
    ASSUME NEW j \in Nat, NEW k \in Nat, DirectoryInv(j, k)
    PROVE  /\ IsFiniteSet(Admins) /\ Cardinality(Admins) \in Nat
           /\ Promoting \in SUBSET Workers
           /\ \A e, place : Adding(e, place) \in SUBSET Workers
<1>1. Admins \in SUBSET Accounts
  BY DEF Admins
<1> QED
  BY <1>1, FS_Subset, FS_CardinalityType DEF DirectoryInv, Promoting, Adding

LEMMA MappingsNat == MaxMappings \in Nat
BY DirectoryAssumption

LEMMA IdleSafe ==
    /\ Idle \in Request /\ RequestSafe(Idle)
    /\ Idle.pc = "idle" /\ Idle.adding = {} /\ Idle.role = "none"
<1>1. /\ Idle.pc = "idle" /\ Idle.adding = {} /\ Idle.role = "none" /\ Idle.late = FALSE
  BY DEF Idle
<1>2. Idle \in Request
  BY DirectoryAssumption DEF Idle, Request, RequestPoints, UserRoles
<1> QED
  BY <1>1, <1>2 DEF RequestSafe

-------------------------------------------------------------------------------
(* What a request that moves leaves as it is.                              *)

LEMMA RequestsStaySafe ==
    ASSUME NEW j \in Nat, NEW k \in Nat, DirectoryInv(j, k), Overlaps(j, k)',
           NEW w \in Workers, NEW x \in Request,
           request' = [request EXCEPT ![w] = x],
           RequestSafe(x)', Accounts \subseteq Accounts'
    PROVE  /\ request' \in [Workers -> Request]
           /\ \A v \in Workers : RequestSafe(request[v])'
<1>1. request' \in [Workers -> Request]
  BY DEF DirectoryInv, DirectoryTypeOK
<1>2. ASSUME NEW v \in Workers PROVE RequestSafe(request[v])'
  <2>1. CASE v = w
    <3>1. request'[v] = x
      BY <2>1 DEF DirectoryInv, DirectoryTypeOK
    <3> QED
      BY <3>1 DEF RequestSafe
  <2>2. CASE v # w
    <3>1. request'[v] = request[v] /\ RequestSafe(request[v])
      BY <2>2 DEF DirectoryInv, DirectoryTypeOK
    <3> QED
      BY <3>1 DEF RequestSafe
  <2> QED
    BY <2>1, <2>2
<1> QED
  BY <1>1, <1>2

LEMMA AdminsKept ==
    ASSUME NEW j \in Nat, NEW k \in Nat, DirectoryInv(j, k), Overlaps(j, k)',
           NEW w \in Workers, NEW x \in Request,
           request' = [request EXCEPT ![w] = x],
           Admins' = Admins, ~(x.pc = "insert" /\ x.role = "admin")
    PROVE  FirstAdminsWithin(j)'
<1>1. Promoting' \in SUBSET Promoting /\ Promoting \in SUBSET Workers
  BY DEF Promoting, DirectoryInv, DirectoryTypeOK
<1>2. /\ Cardinality(Promoting') \in Nat /\ Cardinality(Promoting) \in Nat
      /\ Cardinality(Promoting') <= Cardinality(Promoting)
  BY <1>1, WorkerSets
<1>3. Cardinality(Admins) + Cardinality(Promoting) <= j
  BY DEF DirectoryInv, FirstAdminsWithin
<1> QED
  BY <1>2, <1>3, InvSets, WorkerSets DEF FirstAdminsWithin

LEMMA AssignmentsKept ==
    ASSUME NEW j \in Nat, NEW k \in Nat, DirectoryInv(j, k), Overlaps(j, k)',
           NEW w \in Workers, NEW x \in Request,
           request' = [request EXCEPT ![w] = x], UNCHANGED assigned,
           \A place \in x.adding : x.email = request[w].email /\ place \in request[w].adding
    PROVE  AssignmentsWithin(k)'
<1> SUFFICES ASSUME NEW e \in Emails, NEW place \in Mapped
             PROVE  assigned'[e][place] + Cardinality(Adding(e, place)') <= k
  BY DEF AssignmentsWithin
<1>1. Adding(e, place)' \in SUBSET Adding(e, place) /\ Adding(e, place) \in SUBSET Workers
  BY DEF Adding, DirectoryInv, DirectoryTypeOK
<1>2. /\ Cardinality(Adding(e, place)') \in Nat /\ Cardinality(Adding(e, place)) \in Nat
      /\ Cardinality(Adding(e, place)') <= Cardinality(Adding(e, place))
  BY <1>1, WorkerSets
<1>3. assigned[e][place] + Cardinality(Adding(e, place)) <= k
  BY DEF DirectoryInv, AssignmentsWithin
<1>4. assigned[e][place] \in Nat
  BY DEF DirectoryInv, DirectoryTypeOK
<1> QED
  BY <1>2, <1>3, <1>4, WorkerSets

\* What the changes of mappings and their records amount to, if a request moves.
LEMMA AuditMoves ==
    ASSUME NEW j \in Nat, NEW k \in Nat, DirectoryInv(j, k),
           NEW w \in Workers, NEW x \in Request,
           request' = [request EXCEPT ![w] = x],
           DOMAIN mappings \subseteq DOMAIN mappings', dropped \subseteq dropped',
           audit \subseteq audit', lost \subseteq lost',
           MappingSafe(x)', audit' \subseteq Made',
           Made' \subseteq Made \cup OwedBy(x),
           OwedBy(request[w]) \subseteq OwedBy(x) \cup audit' \cup lost' \cup Forgotten'
    PROVE  AuditInv'
<1>0. request \in [Workers -> Request] /\ AuditInv
  BY DEF DirectoryInv, DirectoryTypeOK
<1>1. request'[w] = x /\ \A v \in Workers \ {w} : request'[v] = request[v]
  BY <1>0
<1>2. ASSUME NEW v \in Workers PROVE MappingSafe(request[v])'
  <2>1. CASE v = w
    BY <1>1, <2>1 DEF MappingSafe
  <2>2. CASE v # w
    BY <1>0, <1>1, <2>2 DEF MappingSafe, AuditInv
  <2> QED
    BY <2>1, <2>2
<1>3. Forgotten \subseteq Forgotten'
  BY DEF Forgotten
<1>4. ASSUME NEW change \in Made' \ audit'
      PROVE  change \in lost' \cup Forgotten' \/ \E v \in Workers : change \in OwedBy(request'[v])
  <2>1. CASE change \in OwedBy(x)
    BY <1>1, <2>1
  <2>2. CASE change \in Made /\ change \notin OwedBy(x)
    <3>1. CASE change \in lost \cup Forgotten
      BY <1>3, <3>1
    <3>2. CASE \E v \in Workers : change \in OwedBy(request[v])
      <4>1. PICK v \in Workers : change \in OwedBy(request[v])
        BY <3>2
      <4>2. CASE v = w
        BY <1>4, <2>2, <4>1, <4>2
      <4>3. CASE v # w
        BY <1>1, <4>1, <4>3
      <4> QED
        BY <4>2, <4>3
    <3> QED
      BY <1>0, <1>4, <2>2, <3>1, <3>2 DEF AuditInv
  <2> QED
    BY <1>4, <2>1, <2>2
<1>5. \A change \in (Made \ audit)' :
         (change \in lost \cup Forgotten)' \/ \E v \in Workers : (change \in OwedBy(request[v]))'
  BY <1>4 DEF OwedBy
<1> QED
  BY <1>2, <1>5 DEF AuditInv

\* A request that owes nothing goes on with something else.
LEMMA AuditKept ==
    ASSUME NEW j \in Nat, NEW k \in Nat, DirectoryInv(j, k),
           NEW w \in Workers, NEW x \in Request,
           request' = [request EXCEPT ![w] = x], UNCHANGED rules,
           x.pc \notin Changing, request[w].pc \notin Changing
    PROVE  AuditInv'
<1>1. UNCHANGED <<mappings, dropped, audit, lost>>
  BY DEF rules
<1>2. Made' = Made /\ audit \subseteq Made
  BY <1>1 DEF Made, DirectoryInv, AuditInv
<1>3. OwedBy(request[w]) = {} /\ MappingSafe(x)'
  BY DEF OwedBy, MappingSafe, Changing
<1> QED
  BY <1>1, <1>2, <1>3, AuditMoves

\* A request moves, accounts and their roles stay.
LEMMA RequestMoves ==
    ASSUME NEW j \in Nat, NEW k \in Nat, DirectoryInv(j, k), Overlaps(j, k)',
           NEW w \in Workers, NEW x \in Request,
           request' = [request EXCEPT ![w] = x],
           UNCHANGED <<users, assigned, given, crashes>>, RulesOK', AuditInv',
           RequestSafe(x), ~(x.pc = "insert" /\ x.role = "admin"),
           \A place \in x.adding : x.email = request[w].email /\ place \in request[w].adding
    PROVE  DirectoryInv(j, k)'
<1>1. Accounts' = Accounts /\ Admins' = Admins
  BY DEF Accounts, Admins
<1>2. RequestSafe(x)'
  BY <1>1 DEF RequestSafe
<1>3. request' \in [Workers -> Request] /\ \A v \in Workers : RequestSafe(request[v])'
  BY <1>1, <1>2, RequestsStaySafe
<1>4. DirectoryTypeOK'
  BY <1>3 DEF DirectoryInv, DirectoryTypeOK
<1>5. FirstAdminsWithin(j)' /\ AssignmentsWithin(k)'
  BY <1>1, AdminsKept, AssignmentsKept
<1> QED
  BY <1>1, <1>3, <1>4, <1>5 DEF DirectoryInv

\* The rules stay, too.
LEMMA RulesStay ==
    ASSUME NEW j \in Nat, NEW k \in Nat, DirectoryInv(j, k), UNCHANGED rules
    PROVE  RulesOK'
BY DEF DirectoryInv, DirectoryTypeOK, RulesOK, rules

\* The roles of accounts change, but no sign-in adds one; the requests stay.
LEMMA TablesMove ==
    ASSUME NEW j \in Nat, NEW k \in Nat, DirectoryInv(j, k), Overlaps(j, k)',
           UNCHANGED <<users, request, crashes>>, UNCHANGED rules,
           given' \subseteq AdminRows, assigned' \in [Emails -> [Mapped -> Nat]],
           \A e \in Emails, place \in Mapped : assigned'[e][place] <= assigned[e][place]
    PROVE  DirectoryInv(j, k)'
<1>1. Accounts' = Accounts /\ Admins' = Admins /\ Promoting' = Promoting
  BY DEF Accounts, Admins, Promoting
<1>2. DirectoryTypeOK' /\ FirstAdminsWithin(j)'
  BY <1>1, RulesStay DEF DirectoryInv, DirectoryTypeOK, FirstAdminsWithin
<1>3. \A w \in Workers : RequestSafe(request[w])'
  BY <1>1 DEF DirectoryInv, RequestSafe
<1>4. ASSUME NEW e \in Emails, NEW place \in Mapped
      PROVE  assigned'[e][place] + Cardinality(Adding(e, place)') <= k
  <2>1. Adding(e, place)' = Adding(e, place)
    BY DEF Adding
  <2>2. /\ assigned'[e][place] \in Nat /\ assigned[e][place] \in Nat
        /\ Cardinality(Adding(e, place)) \in Nat
        /\ assigned[e][place] + Cardinality(Adding(e, place)) <= k
    BY InvSets, WorkerSets DEF DirectoryInv, DirectoryTypeOK, AssignmentsWithin
  <2>3. assigned'[e][place] <= assigned[e][place]
    OBVIOUS
  <2> QED
    BY <2>1, <2>2, <2>3
<1>5. AssignmentsWithin(k)'
  BY <1>4 DEF AssignmentsWithin
<1>6. AuditInv'
  BY DEF DirectoryInv, AuditInv, MappingSafe, Made, Forgotten, OwedBy, rules
<1> QED
  BY <1>1, <1>2, <1>3, <1>5, <1>6 DEF DirectoryInv

LEMMA DirectoryStays ==
    ASSUME NEW j \in Nat, NEW k \in Nat, DirectoryInv(j, k), Overlaps(j, k)',
           UNCHANGED <<users, assigned, given, request, crashes>>, UNCHANGED rules
    PROVE  DirectoryInv(j, k)'
<1>1. /\ given' \subseteq AdminRows /\ assigned' \in [Emails -> [Mapped -> Nat]]
      /\ \A e \in Emails, place \in Mapped : assigned'[e][place] <= assigned[e][place]
  BY DEF DirectoryInv, DirectoryTypeOK
<1> QED
  BY <1>1, TablesMove

LEMMA QuietMoves ==
    ASSUME NEW j \in Nat, NEW k \in Nat, DirectoryInv(j, k), Overlaps(j, k)',
           NEW w \in Workers, NEW x \in Request,
           request' = [request EXCEPT ![w] = x],
           UNCHANGED <<users, assigned, given, crashes>>, UNCHANGED rules,
           RequestSafe(x), ~(x.pc = "insert" /\ x.role = "admin"),
           \A place \in x.adding : x.email = request[w].email /\ place \in request[w].adding,
           x.pc \notin Changing, request[w].pc \notin Changing
    PROVE  DirectoryInv(j, k)'
BY AuditKept, RulesStay, RequestMoves

LEMMA FinishMoves ==
    ASSUME NEW j \in Nat, NEW k \in Nat, DirectoryInv(j, k), Overlaps(j, k)',
           NEW w \in Workers, Finish(w), request[w].pc \notin Changing,
           UNCHANGED <<users, assigned, given, crashes>>, UNCHANGED rules
    PROVE  DirectoryInv(j, k)'
BY IdleSafe, QuietMoves DEF Finish, Changing

-------------------------------------------------------------------------------
(* The steps of the requests.                                              *)

LEMMA BeginStep ==
    ASSUME NEW j \in Nat, NEW k \in Nat, DirectoryInv(j, k), Overlaps(j, k)',
           NEW w \in Workers, NEW e \in Emails,
           NEW point \in {"count", "insert", "provision"}, NEW role \in {"user", "pending"},
           NEW late \in BOOLEAN, late => Accounts # {}, point = "provision" => role = "user",
           Begin(w, e, point, role, late), UNCHANGED crashes
    PROVE  DirectoryInv(j, k)'
<1>1. PICK x : x = [Idle EXCEPT !.pc = point, !.email = e, !.role = role, !.late = late]
  OBVIOUS
<1>2. x.pc = point /\ x.email = e /\ x.role = role /\ x.late = late /\ x.adding = {}
  BY <1>1 DEF Idle
<1>3. x \in Request
  <2>1. x = [pc |-> point, email |-> e, role |-> role, late |-> late,
             left |-> {}, adding |-> {}, mapping |-> 0]
    BY <1>1 DEF Idle
  <2>2. 0 \in 0..MaxMappings
    BY MappingsNat
  <2> QED
    BY <2>1, <2>2 DEF Request, RequestPoints, UserRoles
<1>4. RequestSafe(x)
  BY <1>2 DEF RequestSafe
<1>5. /\ request' = [request EXCEPT ![w] = x] /\ request[w].pc = "idle"
      /\ UNCHANGED <<users, assigned, given>> /\ UNCHANGED rules
  BY <1>1 DEF Begin, Serving, people
<1> QED
  BY <1>2, <1>3, <1>4, <1>5, QuietMoves DEF Changing

\* A sign-in has its account.
LEMMA ToMappings ==
    ASSUME NEW e \in Emails
    PROVE  \E x \in Request :
              /\ x = [Idle EXCEPT !.pc = "mappings", !.email = e]
              /\ x.pc = "mappings" /\ x.adding = {} /\ x.role = "none" /\ RequestSafe(x)
<1>1. PICK x : x = [Idle EXCEPT !.pc = "mappings", !.email = e]
  OBVIOUS
<1>2. x.pc = "mappings" /\ x.email = e /\ x.role = "none" /\ x.late = FALSE /\ x.adding = {}
  BY <1>1 DEF Idle
<1>3. x \in Request
  <2>1. x = [pc |-> "mappings", email |-> e, role |-> "none", late |-> FALSE,
             left |-> {}, adding |-> {}, mapping |-> 0]
    BY <1>1 DEF Idle
  <2>2. 0 \in 0..MaxMappings
    BY MappingsNat
  <2> QED
    BY <2>1, <2>2 DEF Request, RequestPoints, UserRoles
<1>4. RequestSafe(x)
  BY <1>2 DEF RequestSafe
<1> QED
  BY <1>1, <1>2, <1>3, <1>4

LEMMA SignInStep ==
    ASSUME NEW j \in Nat, NEW k \in Nat, DirectoryInv(j, k), Overlaps(j, k)',
           NEW w \in Workers, NEW e \in Emails, SignIn(w, e), UNCHANGED crashes
    PROVE  DirectoryInv(j, k)'
<1>1. PICK x \in Request :
         /\ x = [Idle EXCEPT !.pc = "mappings", !.email = e]
         /\ x.pc = "mappings" /\ x.adding = {} /\ x.role = "none" /\ RequestSafe(x)
  BY ToMappings
<1>2. /\ request' = [request EXCEPT ![w] = x] /\ request[w].pc = "idle"
      /\ UNCHANGED <<users, assigned, given>> /\ UNCHANGED rules
  BY <1>1 DEF SignIn, Serving, people
<1> QED
  BY <1>1, <1>2, QuietMoves DEF Changing

LEMMA CountUsersStep ==
    ASSUME NEW j \in Nat, NEW k \in Nat, DirectoryInv(j, k), Overlaps(j, k)',
           NEW w \in Workers, CountUsers(w), UNCHANGED crashes
    PROVE  DirectoryInv(j, k)'
<1>1. PICK y \in Request : y = request[w] /\ RequestSafe(y)
  BY DEF DirectoryInv, DirectoryTypeOK
<1>2. PICK role \in {"admin", "pending"} :
         role = (IF UserCount = 0 /\ AutoAdmin THEN "admin" ELSE "pending")
  OBVIOUS
<1>3. PICK x : x = [y EXCEPT !.pc = "insert", !.role = role]
  OBVIOUS
<1>4. /\ x.pc = "insert" /\ x.role = role /\ x.email = y.email /\ x.late = y.late
      /\ x.adding = y.adding
  BY <1>3 DEF Request
<1>5. x \in Request
  BY <1>3 DEF Request, RequestPoints, UserRoles
<1>6. /\ request' = [request EXCEPT ![w] = x] /\ y.pc = "count"
      /\ UNCHANGED <<users, assigned, given>> /\ UNCHANGED rules
  <2>1. request' = [request EXCEPT ![w].pc = "insert", ![w].role = role]
    BY <1>2 DEF CountUsers
  <2> QED
    BY <1>1, <1>3, <2>1 DEF CountUsers, Serving, people, DirectoryInv, DirectoryTypeOK
<1>7. role = "admin" => Accounts = {}
  BY <1>2, FS_EmptySet DEF UserCount, DirectoryInv
<1>8. RequestSafe(x)
  BY <1>1, <1>4, <1>6, <1>7 DEF RequestSafe
<1>9. Accounts' = Accounts /\ Admins' = Admins
  BY <1>6 DEF Accounts, Admins
<1>10. RequestSafe(x)'
  BY <1>8, <1>9 DEF RequestSafe
<1>11. request' \in [Workers -> Request] /\ \A v \in Workers : RequestSafe(request[v])'
  BY <1>5, <1>6, <1>9, <1>10, RequestsStaySafe
<1>12. FirstAdminsWithin(j)'
  <2>1. CASE role = "admin"
    <3>1. Cardinality(Admins') = 0
      BY <1>7, <1>9, <2>1, FS_EmptySet DEF Admins
    <3>2. Promoting' \in SUBSET Registering' /\ Registering' \in SUBSET Workers
      BY DEF Promoting, Registering
    <3>3. /\ Cardinality(Promoting') \in Nat /\ Cardinality(Registering') \in Nat
          /\ Cardinality(Promoting') <= Cardinality(Registering')
      BY <3>2, WorkerSets
    <3>4. Cardinality(Promoting') <= j
      BY <3>3 DEF Overlaps, RegistrationsWithin
    <3> QED
      BY <3>1, <3>3, <3>4 DEF FirstAdminsWithin
  <2>2. CASE role # "admin"
    BY <1>4, <1>5, <1>6, <1>9, <2>2, AdminsKept
  <2> QED
    BY <2>1, <2>2
<1>13. AssignmentsWithin(k)' /\ AuditInv'
  BY <1>1, <1>4, <1>5, <1>6, AssignmentsKept, AuditKept DEF Changing
<1>14. DirectoryTypeOK'
  BY <1>6, <1>11, RulesStay DEF DirectoryInv, DirectoryTypeOK
<1> QED
  BY <1>9, <1>11, <1>12, <1>13, <1>14 DEF DirectoryInv

LEMMA InsertUserStep ==
    ASSUME NEW j \in Nat, NEW k \in Nat, DirectoryInv(j, k), Overlaps(j, k)',
           NEW w \in Workers, InsertUser(w), UNCHANGED crashes
    PROVE  DirectoryInv(j, k)'
<1>1. PICK y \in Request : y = request[w] /\ RequestSafe(y)
  BY DEF DirectoryInv, DirectoryTypeOK
<1>2. /\ y.pc \in {"insert", "provision"} /\ y.email \in Emails
      /\ y.role \in {"admin", "user", "pending"}
      /\ y.role = "admin" => y.pc = "insert"
      /\ UNCHANGED <<assigned, given>> /\ UNCHANGED rules
  BY <1>1 DEF InsertUser, Serving, people, RequestSafe
<1>3. CASE y.email \notin Accounts
  <2>1. PICK x \in Request :
           /\ RequestSafe(x) /\ x.pc \in {"idle", "mappings"} /\ x.adding = {}
           /\ x = IF Serving(w, "insert") THEN Idle
                  ELSE [Idle EXCEPT !.pc = "mappings", !.email = y.email]
    BY <1>2, IdleSafe, ToMappings
  <2>2. /\ users' = [users EXCEPT ![y.email] = y.role]
        /\ request' = [request EXCEPT ![w] = x]
    BY <1>1, <1>3, <2>1 DEF InsertUser
  <2>3. users' \in [Emails -> UserRoles] /\ users \in [Emails -> UserRoles]
    BY <1>2, <2>2 DEF DirectoryInv, DirectoryTypeOK, UserRoles
  <2>4. /\ Accounts' = Accounts \cup {y.email} /\ y.email \notin Admins
        /\ Admins' = IF y.role = "admin" THEN Admins \cup {y.email} ELSE Admins
    BY <1>2, <1>3, <2>2, <2>3 DEF Accounts, Admins
  <2>5. IsFiniteSet(Accounts')
    BY <2>4, FS_AddElement DEF DirectoryInv
  <2>6. RequestSafe(x)'
    BY <2>1, <2>4 DEF RequestSafe
  <2>7. request' \in [Workers -> Request] /\ \A v \in Workers : RequestSafe(request[v])'
    BY <2>2, <2>4, <2>6, RequestsStaySafe
  <2>8. FirstAdminsWithin(j)'
    <3>1. CASE y.role = "admin"
      <4>1. Promoting' = Promoting \ {w} /\ w \in Promoting
        BY <1>1, <1>2, <2>1, <2>2, <3>1 DEF Promoting, DirectoryInv, DirectoryTypeOK
      <4>2. IsFiniteSet(Promoting) /\ Cardinality(Promoting) \in Nat
        BY InvSets, WorkerSets
      <4>3. Cardinality(Promoting') = Cardinality(Promoting) - 1
        BY <4>1, <4>2, FS_RemoveElement
      <4>4. Cardinality(Admins') = Cardinality(Admins) + 1
        BY <2>4, <3>1, InvSets, FS_AddElement
      <4>5. Cardinality(Admins) + Cardinality(Promoting) <= j
        BY DEF DirectoryInv, FirstAdminsWithin
      <4> QED
        BY <4>2, <4>3, <4>4, <4>5, InvSets, WorkerSets DEF FirstAdminsWithin
    <3>2. CASE y.role # "admin"
      BY <2>1, <2>2, <2>4, <3>2, AdminsKept
    <3> QED
      BY <3>1, <3>2
  <2>9. AssignmentsWithin(k)' /\ AuditInv'
    BY <1>1, <1>2, <2>1, <2>2, AssignmentsKept, AuditKept DEF Changing
  <2>10. DirectoryTypeOK'
    BY <1>2, <2>3, <2>7, RulesStay DEF DirectoryInv, DirectoryTypeOK
  <2> QED
    BY <2>5, <2>7, <2>8, <2>9, <2>10 DEF DirectoryInv
<1>4. CASE y.email \in Accounts
  <2>1. Finish(w) /\ UNCHANGED users
    BY <1>1, <1>4 DEF InsertUser
  <2> QED
    BY <1>1, <1>2, <2>1, FinishMoves DEF Changing
<1> QED
  BY <1>3, <1>4

LEMMA ReadMappingsStep ==
    ASSUME NEW j \in Nat, NEW k \in Nat, DirectoryInv(j, k), Overlaps(j, k)',
           NEW w \in Workers, ReadMappings(w), UNCHANGED crashes
    PROVE  DirectoryInv(j, k)'
<1>1. PICK y \in Request : y = request[w] /\ RequestSafe(y)
  BY DEF DirectoryInv, DirectoryTypeOK
<1>2. PICK left \in SUBSET Mapped : left = IF y.email \in Matching THEN {mappings[id] : id \in Live} ELSE {}
  <2>1. \A id \in Live : mappings[id] \in Mapped
    BY DEF Live, DirectoryInv, DirectoryTypeOK, RulesOK
  <2> QED
    BY <2>1
<1>3. PICK x : x = [y EXCEPT !.pc = "assign", !.left = left]
  OBVIOUS
<1>4. /\ x.pc = "assign" /\ x.role = y.role /\ x.email = y.email /\ x.late = y.late
      /\ x.adding = y.adding
  BY <1>3 DEF Request
<1>5. x \in Request
  BY <1>3 DEF Request, RequestPoints
<1>6. /\ request' = [request EXCEPT ![w] = x] /\ y.pc = "mappings"
      /\ UNCHANGED <<users, assigned, given>> /\ UNCHANGED rules
  <2>1. request' = [request EXCEPT ![w].pc = "assign", ![w].left = left]
    BY <1>1, <1>2 DEF ReadMappings
  <2> QED
    BY <1>1, <1>3, <2>1 DEF ReadMappings, Serving, people, DirectoryInv, DirectoryTypeOK
<1>7. RequestSafe(x)
  BY <1>1, <1>4, <1>6 DEF RequestSafe
<1> QED
  BY <1>1, <1>4, <1>5, <1>6, <1>7, QuietMoves DEF Changing

LEMMA ConsiderStep ==
    ASSUME NEW j \in Nat, NEW k \in Nat, DirectoryInv(j, k), Overlaps(j, k)',
           NEW w \in Workers, NEW place \in Mapped,
           Consider(w, place), UNCHANGED crashes
    PROVE  DirectoryInv(j, k)'
<1>1. PICK y \in Request : y = request[w] /\ RequestSafe(y)
  BY DEF DirectoryInv, DirectoryTypeOK
<1>2. /\ y.pc = "assign" /\ y.email \in Emails
      /\ UNCHANGED <<users, assigned, given>> /\ UNCHANGED rules
  BY <1>1 DEF Consider, Serving, people, RequestSafe
<1>3. CASE /\ Assignments(w, place) = 0
           /\ request' = [request EXCEPT ![w].left = @ \ {place},
                                         ![w].adding = @ \cup {place}]
  <2>1. PICK x : x = [y EXCEPT !.left = @ \ {place}, !.adding = @ \cup {place}]
    OBVIOUS
  <2>2. /\ x.pc = y.pc /\ x.role = y.role /\ x.email = y.email /\ x.late = y.late
        /\ x.adding = y.adding \cup {place}
    BY <2>1 DEF Request
  <2>3. x \in Request
    BY <2>1 DEF Request
  <2>4. request' = [request EXCEPT ![w] = x]
    BY <1>1, <1>3, <2>1 DEF DirectoryInv, DirectoryTypeOK
  <2>5. Accounts' = Accounts /\ Admins' = Admins
    BY <1>2 DEF Accounts, Admins
  <2>6. RequestSafe(x)'
    BY <1>1, <1>2, <2>2, <2>5 DEF RequestSafe
  <2>7. request' \in [Workers -> Request] /\ \A v \in Workers : RequestSafe(request[v])'
    BY <2>3, <2>4, <2>5, <2>6, RequestsStaySafe
  <2>8. FirstAdminsWithin(j)' /\ AuditInv'
    BY <1>1, <1>2, <2>2, <2>3, <2>4, <2>5, AdminsKept, AuditKept DEF Changing
  <2>9. ASSUME NEW e \in Emails, NEW other \in Mapped
        PROVE  assigned'[e][other] + Cardinality(Adding(e, other)') <= k
    <3>1. Adding(e, other)' \in SUBSET Mapping(e)' /\ Mapping(e)' \in SUBSET Workers
      BY <2>7 DEF Adding, Mapping, RequestSafe
    <3>2. Cardinality(Adding(e, other)') \in Nat
          /\ Cardinality(Adding(e, other)') <= k
      <4>1. /\ Cardinality(Adding(e, other)') \in Nat /\ Cardinality(Mapping(e)') \in Nat
            /\ Cardinality(Adding(e, other)') <= Cardinality(Mapping(e)')
        BY <3>1, WorkerSets
      <4>2. Cardinality(Mapping(e)') <= k
        BY DEF Overlaps, SignInsWithin
      <4> QED
        BY <4>1, <4>2
    <3>3. CASE e = y.email /\ other = place
      <4>1. assigned'[e][other] = 0
        <5>1. PICK rows : rows = {row \in given : row.email = y.email /\ row.role = place}
          OBVIOUS
        <5>2. rows \subseteq AdminRows
          BY <5>1 DEF DirectoryInv, DirectoryTypeOK
        <5>3. Cardinality(rows) \in Nat
          BY <5>2, DirectoryAssumption, FS_Subset, FS_CardinalityType
        <5>4. assigned[y.email][place] + Cardinality(rows) = 0
          BY <1>1, <1>3, <5>1 DEF Assignments
        <5>5. assigned[y.email][place] \in Nat
          BY <1>2 DEF DirectoryInv, DirectoryTypeOK
        <5> QED
          BY <1>2, <3>3, <5>3, <5>4, <5>5
      <4> QED
        BY <3>2, <4>1, WorkerSets
    <3>4. CASE ~(e = y.email /\ other = place)
      <4>1. Adding(e, other)' = Adding(e, other)
        BY <1>1, <2>2, <2>4, <3>4 DEF Adding, DirectoryInv, DirectoryTypeOK
      <4> QED
        BY <1>2, <4>1 DEF DirectoryInv, AssignmentsWithin
    <3> QED
      BY <3>3, <3>4
  <2>10. AssignmentsWithin(k)'
    BY <2>9 DEF AssignmentsWithin
  <2>11. DirectoryTypeOK'
    BY <1>2, <2>7, RulesStay DEF DirectoryInv, DirectoryTypeOK
  <2> QED
    BY <2>5, <2>7, <2>8, <2>10, <2>11 DEF DirectoryInv
<1>4. CASE request' = [request EXCEPT ![w].left = @ \ {place}]
  <2>1. PICK x : x = [y EXCEPT !.left = @ \ {place}]
    OBVIOUS
  <2>2. /\ x.pc = y.pc /\ x.role = y.role /\ x.email = y.email /\ x.late = y.late
        /\ x.adding = y.adding
    BY <2>1 DEF Request
  <2>3. x \in Request
    BY <2>1 DEF Request
  <2>4. request' = [request EXCEPT ![w] = x]
    BY <1>1, <1>4, <2>1 DEF DirectoryInv, DirectoryTypeOK
  <2>5. RequestSafe(x)
    BY <1>1, <2>2 DEF RequestSafe
  <2> QED
    BY <1>1, <1>2, <2>2, <2>3, <2>4, <2>5, QuietMoves DEF Changing
<1>5. CASE Finish(w)
  BY <1>1, <1>2, <1>5, FinishMoves DEF Changing
<1> QED
  BY <1>3, <1>4, <1>5 DEF Consider

LEMMA CommitRolesStep ==
    ASSUME NEW j \in Nat, NEW k \in Nat, DirectoryInv(j, k), Overlaps(j, k)',
           NEW w \in Workers, CommitRoles(w), UNCHANGED crashes
    PROVE  DirectoryInv(j, k)'
<1>1. PICK y \in Request : y = request[w] /\ RequestSafe(y)
  BY DEF DirectoryInv, DirectoryTypeOK
<1>2. /\ y.pc = "assign" /\ y.email \in Emails /\ Finish(w)
      /\ UNCHANGED <<users, given>> /\ UNCHANGED rules
  BY <1>1 DEF CommitRoles, Serving, people, RequestSafe
<1>3. assigned \in [Emails -> [Mapped -> Nat]]
  BY DEF DirectoryInv, DirectoryTypeOK
<1>4. assigned' = [assigned EXCEPT ![y.email] =
         [place \in Mapped |-> assigned[y.email][place] + (IF place \in y.adding THEN 1 ELSE 0)]]
  BY <1>1, <1>2, <1>3 DEF CommitRoles
<1>5. /\ assigned' \in [Emails -> [Mapped -> Nat]]
      /\ \A e \in Emails, place \in Mapped : assigned'[e][place] =
            IF e = y.email /\ place \in y.adding THEN assigned[e][place] + 1
            ELSE assigned[e][place]
  BY <1>2, <1>3, <1>4
<1>6. PICK x \in Request : /\ x = Idle /\ RequestSafe(x) /\ x.pc = "idle" /\ x.adding = {}
                           /\ request' = [request EXCEPT ![w] = x]
  BY <1>2, IdleSafe DEF Finish
<1>7. Accounts' = Accounts /\ Admins' = Admins
  BY <1>2 DEF Accounts, Admins
<1>8. RequestSafe(x)'
  BY <1>6, <1>7 DEF RequestSafe
<1>9. request' \in [Workers -> Request] /\ \A v \in Workers : RequestSafe(request[v])'
  BY <1>6, <1>7, <1>8, RequestsStaySafe
<1>10. FirstAdminsWithin(j)' /\ AuditInv'
  BY <1>1, <1>2, <1>6, <1>7, AdminsKept, AuditKept DEF Changing
<1>11. ASSUME NEW e \in Emails, NEW place \in Mapped
       PROVE  assigned'[e][place] + Cardinality(Adding(e, place)') <= k
  <2>1. /\ IsFiniteSet(Adding(e, place)) /\ Cardinality(Adding(e, place)) \in Nat
        /\ assigned[e][place] + Cardinality(Adding(e, place)) <= k
        /\ assigned[e][place] \in Nat
    BY <1>3, InvSets, WorkerSets DEF DirectoryInv, AssignmentsWithin
  <2>2. CASE e = y.email /\ place \in y.adding
    <3>1. Adding(e, place)' = Adding(e, place) \ {w} /\ w \in Adding(e, place)
      BY <1>1, <1>6, <2>2 DEF Adding, DirectoryInv, DirectoryTypeOK
    <3>2. Cardinality(Adding(e, place)') = Cardinality(Adding(e, place)) - 1
      BY <2>1, <3>1, FS_RemoveElement
    <3>3. assigned'[e][place] = assigned[e][place] + 1
      BY <1>5, <2>2
    <3> QED
      BY <2>1, <3>2, <3>3, WorkerSets
  <2>3. CASE ~(e = y.email /\ place \in y.adding)
    <3>1. Adding(e, place)' = Adding(e, place)
      BY <1>1, <1>6, <2>3 DEF Adding, DirectoryInv, DirectoryTypeOK
    <3>2. assigned'[e][place] = assigned[e][place]
      BY <1>5, <2>3
    <3> QED
      BY <2>1, <3>1, <3>2
  <2> QED
    BY <2>2, <2>3
<1>12. AssignmentsWithin(k)'
  BY <1>11 DEF AssignmentsWithin
<1>13. DirectoryTypeOK'
  BY <1>2, <1>5, <1>9, RulesStay DEF DirectoryInv, DirectoryTypeOK
<1> QED
  BY <1>7, <1>9, <1>10, <1>12, <1>13 DEF DirectoryInv

-------------------------------------------------------------------------------
(* The steps of administration.                                            *)

LEMMA AssignRoleStep ==
    ASSUME NEW j \in Nat, NEW k \in Nat, DirectoryInv(j, k), Overlaps(j, k)',
           NEW w \in Workers, NEW row \in AdminRows, AssignRole(w, row), UNCHANGED crashes
    PROVE  DirectoryInv(j, k)'
<1>1. /\ given' \subseteq AdminRows
      /\ UNCHANGED <<users, assigned, request, crashes>> /\ UNCHANGED rules
  BY DEF AssignRole, DirectoryInv, DirectoryTypeOK
<1>2. assigned \in [Emails -> [Mapped -> Nat]]
  BY DEF DirectoryInv, DirectoryTypeOK
<1>3. \A d \in Emails, other \in Mapped : assigned'[d][other] <= assigned[d][other]
  BY <1>1, <1>2
<1> QED
  BY <1>1, <1>2, <1>3, TablesMove

LEMMA RemoveRoleStep ==
    ASSUME NEW j \in Nat, NEW k \in Nat, DirectoryInv(j, k), Overlaps(j, k)',
           NEW w \in Workers, NEW e \in Emails, NEW place \in Mapped,
           RemoveRole(w, e, place), UNCHANGED crashes
    PROVE  DirectoryInv(j, k)'
<1>0. assigned \in [Emails -> [Mapped -> Nat]] /\ given \subseteq AdminRows
  BY DEF DirectoryInv, DirectoryTypeOK
<1>1. UNCHANGED <<users, request, crashes>> /\ UNCHANGED rules
  BY DEF RemoveRole
<1>2. CASE given' \subseteq given /\ UNCHANGED assigned
  BY <1>0, <1>1, <1>2, TablesMove
<1>3. CASE /\ assigned[e][place] > 0 /\ UNCHANGED given
           /\ assigned' = [assigned EXCEPT ![e][place] = @ - 1]
  <2>1. assigned' \in [Emails -> [Mapped -> Nat]]
    BY <1>0, <1>3
  <2>2. \A d \in Emails, other \in Mapped : assigned'[d][other] <= assigned[d][other]
    BY <1>0, <1>3
  <2> QED
    BY <1>0, <1>1, <1>3, <2>1, <2>2, TablesMove
<1> QED
  BY <1>2, <1>3 DEF RemoveRole

LEMMA CreateMappingStep ==
    ASSUME NEW j \in Nat, NEW k \in Nat, DirectoryInv(j, k), Overlaps(j, k)',
           NEW w \in Workers, NEW place \in Mapped, CreateMapping(w, place), UNCHANGED crashes
    PROVE  DirectoryInv(j, k)'
<1>0. RulesOK /\ Len(mappings) \in Nat /\ Len(mappings) < MaxMappings
  BY DEF CreateMapping, DirectoryInv, DirectoryTypeOK, RulesOK
<1>1. PICK x : x = [Idle EXCEPT !.pc = "refresh", !.mapping = Len(mappings) + 1]
  OBVIOUS
<1>2. /\ x.pc = "refresh" /\ x.mapping = Len(mappings) + 1
      /\ x.role = "none" /\ x.late = FALSE /\ x.adding = {}
  BY <1>1 DEF Idle
<1>3. x \in Request
  <2>1. x = [pc |-> "refresh", email |-> "none", role |-> "none", late |-> FALSE,
             left |-> {}, adding |-> {}, mapping |-> Len(mappings) + 1]
    BY <1>1 DEF Idle
  <2>2. Len(mappings) + 1 \in 0..MaxMappings
    BY <1>0, MappingsNat
  <2> QED
    BY <2>1, <2>2 DEF Request, RequestPoints, UserRoles
<1>4. /\ request' = [request EXCEPT ![w] = x] /\ request[w].pc = "idle"
      /\ mappings' = Append(mappings, place)
      /\ UNCHANGED <<users, assigned, given, dropped, audit, lost, crashes>>
  BY <1>1 DEF CreateMapping, Serving, people
<1>5. /\ mappings' \in Seq(Mapped) /\ Len(mappings') = Len(mappings) + 1
      /\ DOMAIN mappings = 1..Len(mappings) /\ DOMAIN mappings' = 1..(Len(mappings) + 1)
  BY <1>0, <1>4 DEF RulesOK
<1>6. DOMAIN mappings' = DOMAIN mappings \cup {x.mapping}
  BY <1>0, <1>2, <1>5
<1>7. RulesOK'
  BY <1>0, <1>4, <1>5, <1>6, DirectoryAssumption DEF RulesOK, Changes
<1>8. /\ Made' = Made \cup {<<"create", x.mapping>>} /\ audit \subseteq Made
      /\ OwedBy(x) = {<<"create", x.mapping>>} /\ OwedBy(request[w]) = {}
  BY <1>2, <1>4, <1>6 DEF Made, DirectoryInv, AuditInv, OwedBy
<1>9. MappingSafe(x)'
  BY <1>2, <1>6 DEF MappingSafe
<1>10. AuditInv'
  BY <1>3, <1>4, <1>6, <1>8, <1>9, AuditMoves
<1> QED
  BY <1>2, <1>3, <1>4, <1>7, <1>10, RequestMoves DEF RequestSafe

LEMMA RefreshMappingStep ==
    ASSUME NEW j \in Nat, NEW k \in Nat, DirectoryInv(j, k), Overlaps(j, k)',
           NEW w \in Workers, RefreshMapping(w), UNCHANGED crashes
    PROVE  DirectoryInv(j, k)'
<1>1. PICK y \in Request : y = request[w] /\ RequestSafe(y) /\ MappingSafe(y)
  BY DEF DirectoryInv, DirectoryTypeOK, AuditInv
<1>2. /\ y.pc = "refresh" /\ UNCHANGED <<users, assigned, given, crashes>> /\ UNCHANGED rules
      /\ UNCHANGED <<mappings, dropped, audit, lost>>
      /\ y.mapping \in DOMAIN mappings
  BY <1>1 DEF RefreshMapping, Serving, MappingSafe, Changing, people, rules
<1>3. RulesOK' /\ Made' = Made /\ audit \subseteq Made /\ Forgotten' = Forgotten
  BY <1>2, RulesStay DEF Made, Forgotten, DirectoryInv, AuditInv
<1>4. CASE request' = [request EXCEPT ![w].pc = "log_create"]
  <2>1. PICK x : x = [y EXCEPT !.pc = "log_create"]
    OBVIOUS
  <2>2. /\ x.pc = "log_create" /\ x.mapping = y.mapping /\ x.role = y.role
        /\ x.late = y.late /\ x.adding = y.adding /\ x.email = y.email
    BY <2>1 DEF Request
  <2>3. x \in Request
    BY <2>1 DEF Request, RequestPoints
  <2>4. request' = [request EXCEPT ![w] = x]
    BY <1>1, <1>4, <2>1 DEF DirectoryInv, DirectoryTypeOK
  <2>5. RequestSafe(x)
    BY <1>1, <1>2, <2>2 DEF RequestSafe
  <2>6. OwedBy(y) = OwedBy(x) /\ MappingSafe(x)'
    BY <1>2, <2>2 DEF OwedBy, MappingSafe
  <2>7. AuditInv'
    BY <1>1, <1>2, <1>3, <2>3, <2>4, <2>6, AuditMoves
  <2> QED
    BY <1>1, <1>2, <1>3, <2>2, <2>3, <2>4, <2>5, <2>7, RequestMoves
<1>5. CASE y.mapping \notin Live /\ Finish(w)
  <2>1. OwedBy(y) \subseteq Forgotten
    BY <1>2, <1>5 DEF OwedBy, Forgotten, Live
  <2>2. MappingSafe(Idle)'
    BY IdleSafe DEF MappingSafe, Changing
  <2>3. request' = [request EXCEPT ![w] = Idle]
    BY <1>5 DEF Finish
  <2>4. AuditInv'
    BY <1>1, <1>2, <1>3, <2>1, <2>2, <2>3, IdleSafe, AuditMoves
  <2> QED
    BY <1>2, <1>3, <2>3, <2>4, IdleSafe, RequestMoves
<1> QED
  BY <1>1, <1>4, <1>5 DEF RefreshMapping

LEMMA FindMappingStep ==
    ASSUME NEW j \in Nat, NEW k \in Nat, DirectoryInv(j, k), Overlaps(j, k)',
           NEW w \in Workers, NEW id \in 1..MaxMappings, FindMapping(w, id), UNCHANGED crashes
    PROVE  DirectoryInv(j, k)'
<1>1. PICK x : x = [Idle EXCEPT !.pc = "delete", !.mapping = id]
  OBVIOUS
<1>2. /\ x.pc = "delete" /\ x.mapping = id
      /\ x.role = "none" /\ x.late = FALSE /\ x.adding = {}
  BY <1>1 DEF Idle
<1>3. x \in Request
  <2>1. x = [pc |-> "delete", email |-> "none", role |-> "none", late |-> FALSE,
             left |-> {}, adding |-> {}, mapping |-> id]
    BY <1>1 DEF Idle
  <2>2. id \in 0..MaxMappings
    BY MappingsNat
  <2> QED
    BY <2>1, <2>2 DEF Request, RequestPoints, UserRoles
<1>4. /\ request' = [request EXCEPT ![w] = x] /\ request[w].pc = "idle"
      /\ id \in DOMAIN mappings
      /\ UNCHANGED <<users, assigned, given, crashes>> /\ UNCHANGED rules
      /\ UNCHANGED <<mappings, dropped, audit, lost>>
  BY <1>1 DEF FindMapping, Serving, Live, people, rules
<1>5. RulesOK' /\ Made' = Made /\ audit \subseteq Made
  BY <1>4, RulesStay DEF Made, DirectoryInv, AuditInv
<1>6. OwedBy(request[w]) = {} /\ MappingSafe(x)'
  BY <1>2, <1>4 DEF OwedBy, MappingSafe
<1>7. AuditInv'
  BY <1>3, <1>4, <1>5, <1>6, AuditMoves
<1> QED
  BY <1>2, <1>3, <1>4, <1>5, <1>7, RequestMoves DEF RequestSafe

LEMMA DropMappingStep ==
    ASSUME NEW j \in Nat, NEW k \in Nat, DirectoryInv(j, k), Overlaps(j, k)',
           NEW w \in Workers, DropMapping(w), UNCHANGED crashes
    PROVE  DirectoryInv(j, k)'
<1>1. PICK y \in Request : y = request[w] /\ RequestSafe(y) /\ MappingSafe(y)
  BY DEF DirectoryInv, DirectoryTypeOK, AuditInv
<1>2. /\ y.pc = "delete" /\ y.mapping \in DOMAIN mappings
      /\ dropped' = dropped \cup {y.mapping}
      /\ request' = [request EXCEPT ![w].pc = "log_delete"]
      /\ UNCHANGED <<users, assigned, given, mappings, audit, lost, crashes>>
  BY <1>1 DEF DropMapping, Serving, MappingSafe, Changing, people
<1>3. PICK x : x = [y EXCEPT !.pc = "log_delete"]
  OBVIOUS
<1>4. /\ x.pc = "log_delete" /\ x.mapping = y.mapping /\ x.role = y.role
      /\ x.late = y.late /\ x.adding = y.adding /\ x.email = y.email
  BY <1>3 DEF Request
<1>5. x \in Request
  BY <1>3 DEF Request, RequestPoints
<1>6. request' = [request EXCEPT ![w] = x]
  BY <1>1, <1>2, <1>3 DEF DirectoryInv, DirectoryTypeOK
<1>7. RequestSafe(x)
  BY <1>1, <1>2, <1>4 DEF RequestSafe
<1>8. RulesOK'
  BY <1>2 DEF RulesOK, DirectoryInv, DirectoryTypeOK
<1>9. /\ Made' = Made \cup {<<"delete", x.mapping>>} /\ audit \subseteq Made
      /\ OwedBy(x) = {<<"delete", x.mapping>>} /\ OwedBy(y) = {} /\ MappingSafe(x)'
  BY <1>2, <1>4 DEF Made, DirectoryInv, AuditInv, OwedBy, MappingSafe
<1>10. AuditInv'
  BY <1>1, <1>2, <1>5, <1>6, <1>9, AuditMoves
<1> QED
  BY <1>1, <1>2, <1>4, <1>5, <1>6, <1>7, <1>8, <1>10, RequestMoves

\* What a request owes was made.
LEMMA OwedMade ==
    ASSUME NEW y, MappingSafe(y), RulesOK
    PROVE  OwedBy(y) \subseteq Made /\ OwedBy(y) \subseteq Changes
<1>1. Made \subseteq Changes
  <2>1. DOMAIN mappings \subseteq 1..MaxMappings /\ dropped \subseteq 1..MaxMappings
    BY MappingsNat DEF RulesOK
  <2> QED
    BY <2>1 DEF Made, Changes
<1>2. CASE y.pc \in {"refresh", "log_create"}
  <2>1. y.mapping \in DOMAIN mappings
    BY <1>2 DEF MappingSafe, Changing
  <2> QED
    BY <1>1, <1>2, <2>1 DEF OwedBy, Made
<1>3. CASE y.pc = "log_delete"
  BY <1>1, <1>3 DEF OwedBy, Made, MappingSafe
<1> QED
  BY <1>2, <1>3 DEF OwedBy

\* A request that changes a mapping ends: what it owed is recorded, or noted as lost.
LEMMA SettleStep ==
    ASSUME NEW j \in Nat, NEW k \in Nat, DirectoryInv(j, k), Overlaps(j, k)',
           NEW w \in Workers, Finish(w),
           \/ audit' = audit \cup Owed(w) /\ UNCHANGED lost
           \/ lost' = lost \cup Owed(w) /\ UNCHANGED audit,
           UNCHANGED <<users, assigned, given, mappings, dropped, crashes>>
    PROVE  DirectoryInv(j, k)'
<1>1. PICK y \in Request : y = request[w] /\ MappingSafe(y)
  BY DEF DirectoryInv, DirectoryTypeOK, AuditInv
<1>2. Made' = Made /\ audit \subseteq Made /\ RulesOK
  BY DEF Made, DirectoryInv, DirectoryTypeOK, AuditInv
<1>3. Owed(w) = OwedBy(y)
  BY <1>1 DEF Owed, OwedBy
<1>4. OwedBy(y) \subseteq Made /\ OwedBy(y) \subseteq Changes
  BY <1>1, <1>2, OwedMade
<1>5. RulesOK'
  BY <1>2, <1>3, <1>4 DEF RulesOK
<1>6. MappingSafe(Idle)'
  BY IdleSafe DEF MappingSafe, Changing
<1>7. request' = [request EXCEPT ![w] = Idle]
  BY DEF Finish
<1>8. AuditInv'
  <2>1. audit' \subseteq Made' /\ audit \subseteq audit' /\ lost \subseteq lost'
        /\ OwedBy(request[w]) \subseteq audit' \cup lost'
    BY <1>1, <1>2, <1>3, <1>4
  <2> QED
    BY <1>2, <1>6, <1>7, <2>1, IdleSafe, AuditMoves
<1> QED
  BY <1>5, <1>7, <1>8, IdleSafe, RequestMoves

LEMMA LogAuditStep ==
    ASSUME NEW j \in Nat, NEW k \in Nat, DirectoryInv(j, k), Overlaps(j, k)',
           NEW w \in Workers, LogAudit(w) \/ Abandon(w), UNCHANGED crashes
    PROVE  DirectoryInv(j, k)'
BY SettleStep DEF LogAudit, Abandon, people

LEMMA DieStep ==
    ASSUME NEW j \in Nat, NEW k \in Nat, DirectoryInv(j, k), Overlaps(j, k)',
           NEW r \in Replicas, Die(r)
    PROVE  DirectoryInv(j, k)'
<1>1. /\ request' = [w \in Workers |-> IF Home[w] = r THEN Idle ELSE request[w]]
      /\ crashes' = crashes + 1
      /\ lost' = lost \cup UNION {Owed(w) : w \in {v \in Workers : Home[v] = r}}
      /\ UNCHANGED <<users, assigned, given, mappings, dropped, audit>>
  BY DEF Die, Crash, people
<1>2. Accounts' = Accounts /\ Admins' = Admins
  BY <1>1 DEF Accounts, Admins
<1>3. \A w \in Workers : request'[w] \in {Idle, request[w]}
  BY <1>1
<1>4. ASSUME NEW w \in Workers PROVE RequestSafe(request[w])'
  BY <1>2, <1>3, IdleSafe DEF RequestSafe, DirectoryInv
<1>5. request' \in [Workers -> Request]
  BY <1>1, IdleSafe DEF DirectoryInv, DirectoryTypeOK
<1>6. FirstAdminsWithin(j)'
  <2>1. Promoting' \in SUBSET Promoting /\ Promoting \in SUBSET Workers
    BY <1>3, IdleSafe DEF Promoting
  <2>2. /\ Cardinality(Promoting') \in Nat /\ Cardinality(Promoting) \in Nat
        /\ Cardinality(Promoting') <= Cardinality(Promoting)
    BY <2>1, WorkerSets
  <2>3. Cardinality(Admins) + Cardinality(Promoting) <= j
    BY DEF DirectoryInv, FirstAdminsWithin
  <2> QED
    BY <1>2, <2>2, <2>3, InvSets, WorkerSets DEF FirstAdminsWithin
<1>7. ASSUME NEW e \in Emails, NEW place \in Mapped
      PROVE  assigned'[e][place] + Cardinality(Adding(e, place)') <= k
  <2>1. Adding(e, place)' \in SUBSET Adding(e, place) /\ Adding(e, place) \in SUBSET Workers
    BY <1>3, IdleSafe DEF Adding
  <2>2. /\ Cardinality(Adding(e, place)') \in Nat /\ Cardinality(Adding(e, place)) \in Nat
        /\ Cardinality(Adding(e, place)') <= Cardinality(Adding(e, place))
    BY <2>1, WorkerSets
  <2>3. /\ assigned[e][place] + Cardinality(Adding(e, place)) <= k
        /\ assigned[e][place] \in Nat
    BY DEF DirectoryInv, AssignmentsWithin, DirectoryTypeOK
  <2> QED
    BY <1>1, <2>2, <2>3, WorkerSets
<1>8. AssignmentsWithin(k)'
  BY <1>7 DEF AssignmentsWithin
<1>9. ASSUME NEW w \in Workers PROVE Owed(w) \subseteq Made /\ Owed(w) \subseteq Changes
  <2>1. MappingSafe(request[w]) /\ RulesOK
    BY DEF DirectoryInv, DirectoryTypeOK, AuditInv
  <2>2. Owed(w) = OwedBy(request[w])
    BY DEF Owed, OwedBy
  <2> QED
    BY <2>1, <2>2, OwedMade
<1>10. AuditInv'
  <2>1. Made' = Made /\ Forgotten' = Forgotten /\ audit' = audit /\ lost \subseteq lost'
    BY <1>1 DEF Made, Forgotten
  <2>2. ASSUME NEW w \in Workers PROVE MappingSafe(request[w])'
    BY <1>1, <1>3, IdleSafe DEF MappingSafe, Changing, DirectoryInv, AuditInv
  <2>3. ASSUME NEW change \in Made \ audit
        PROVE  change \in lost' \cup Forgotten \/ \E v \in Workers : change \in OwedBy(request'[v])
    <3>1. CASE change \in lost \cup Forgotten
      BY <2>1, <3>1
    <3>2. CASE \E v \in Workers : change \in OwedBy(request[v])
      <4>1. PICK v \in Workers : change \in OwedBy(request[v])
        BY <3>2
      <4>2. CASE Home[v] = r
        <5>1. change \in Owed(v)
          BY <4>1 DEF Owed, OwedBy
        <5> QED
          BY <1>1, <4>2, <5>1
      <4>3. CASE Home[v] # r
        BY <1>1, <4>1, <4>3
      <4> QED
        BY <4>2, <4>3
    <3> QED
      BY <3>1, <3>2 DEF DirectoryInv, AuditInv
  <2>4. \A change \in (Made \ audit)' :
           (change \in lost \cup Forgotten)' \/ \E v \in Workers : (change \in OwedBy(request[v]))'
    BY <2>1, <2>3 DEF OwedBy
  <2> QED
    BY <2>1, <2>2, <2>4 DEF AuditInv, DirectoryInv
<1>11. DirectoryTypeOK'
  <2>1. RulesOK' /\ crashes' \in Nat
    BY <1>1, <1>9 DEF DirectoryInv, DirectoryTypeOK, RulesOK
  <2> QED
    BY <1>1, <1>5, <2>1 DEF DirectoryInv, DirectoryTypeOK
<1> QED
  BY <1>2, <1>4, <1>6, <1>8, <1>10, <1>11 DEF DirectoryInv

LEMMA DirectoryInit ==
    ASSUME NEW j \in Nat, NEW k \in Nat, Init
    PROVE  DirectoryInv(j, k)
<1>1. \A w \in Workers : request[w] = Idle
  BY DEF Init
<1>2. Cardinality({}) = 0 /\ IsFiniteSet({})
  BY FS_EmptySet
<1>3. DirectoryTypeOK
  BY IdleSafe, DirectoryAssumption
     DEF Init, StartupInit, DirectoryTypeOK, RulesOK, UserRoles, Changes
<1>4. Accounts = {} /\ Admins = {}
  BY DEF Init, Accounts, Admins
<1>5. \A w \in Workers : RequestSafe(request[w])
  BY <1>1, IdleSafe
<1>6. Promoting = {}
  BY <1>1, IdleSafe DEF Promoting
<1>7. \A e \in Emails, place \in Mapped : Adding(e, place) = {} /\ assigned[e][place] = 0
  BY <1>1, IdleSafe DEF Init, Adding
<1>8. FirstAdminsWithin(j) /\ AssignmentsWithin(k)
  BY <1>2, <1>4, <1>6, <1>7, WorkerSets DEF FirstAdminsWithin, AssignmentsWithin
<1>9. AuditInv
  <2>1. Made = {} /\ audit = {}
    BY DEF Init, Made
  <2> QED
    BY <1>1, <2>1, IdleSafe DEF AuditInv, MappingSafe, Changing
<1> QED
  BY <1>2, <1>3, <1>4, <1>5, <1>8, <1>9 DEF DirectoryInv

-------------------------------------------------------------------------------
(* The theorems.                                                           *)

\* i start-ups, j registrations, k sign-ins of an account overlap at most.
Inv(i, j, k) == StartupInv(i) /\ DirectoryInv(j, k)

LEMMA InvStep ==
    ASSUME NEW i \in Nat, NEW j \in Nat, NEW k \in Nat,
           Inv(i, j, k), StartsWithin(i)', Overlaps(j, k)', [Next]_vars
    PROVE  Inv(i, j, k)'
<1>0. StartupInv(i) /\ DirectoryInv(j, k)
  BY DEF Inv
<1>1. ASSUME NEW w \in Workers, Serve(w) PROVE Inv(i, j, k)'
  <2>1. UNCHANGED startup /\ UNCHANGED crashes
    BY <1>1 DEF Serve, startup
  <2>2. StartupInv(i)'
    BY <1>0, <2>1, StartupStep
  <2>3. ASSUME NEW e \in Emails, Register(w, e) PROVE DirectoryInv(j, k)'
    <3>1. /\ (Accounts # {}) \in BOOLEAN
          /\ "count" \in {"count", "insert", "provision"} /\ "pending" \in {"user", "pending"}
          /\ "count" # "provision"
      OBVIOUS
    <3> QED
      BY <1>0, <2>1, <2>3, <3>1, BeginStep DEF Register
  <2>4. ASSUME NEW e \in Emails, ScimCreate(w, e) \/ Provision(w, e) PROVE DirectoryInv(j, k)'
    BY <1>0, <2>1, <2>4, BeginStep DEF ScimCreate, Provision
  <2>5. ASSUME NEW e \in Emails, SignIn(w, e) PROVE DirectoryInv(j, k)'
    BY <1>0, <2>1, <2>5, SignInStep
  <2>6. ASSUME CountUsers(w) PROVE DirectoryInv(j, k)'
    BY <1>0, <2>1, <2>6, CountUsersStep
  <2>7. ASSUME InsertUser(w) PROVE DirectoryInv(j, k)'
    BY <1>0, <2>1, <2>7, InsertUserStep
  <2>8. ASSUME ReadMappings(w) PROVE DirectoryInv(j, k)'
    BY <1>0, <2>1, <2>8, ReadMappingsStep
  <2>9. ASSUME CommitRoles(w) PROVE DirectoryInv(j, k)'
    BY <1>0, <2>1, <2>9, CommitRolesStep
  <2>10. ASSUME NEW place \in Mapped, Consider(w, place) PROVE DirectoryInv(j, k)'
    BY <1>0, <2>1, <2>10, ConsiderStep
  <2>11. ASSUME NEW row \in AdminRows, AssignRole(w, row) PROVE DirectoryInv(j, k)'
    BY <1>0, <2>1, <2>11, AssignRoleStep
  <2>12. ASSUME NEW e \in Emails, NEW place \in Mapped, RemoveRole(w, e, place)
         PROVE  DirectoryInv(j, k)'
    BY <1>0, <2>1, <2>12, RemoveRoleStep
  <2>13. ASSUME NEW place \in Mapped, CreateMapping(w, place) PROVE DirectoryInv(j, k)'
    BY <1>0, <2>1, <2>13, CreateMappingStep
  <2>14. ASSUME RefreshMapping(w) PROVE DirectoryInv(j, k)'
    BY <1>0, <2>1, <2>14, RefreshMappingStep
  <2>15. ASSUME NEW id \in 1..MaxMappings, FindMapping(w, id) PROVE DirectoryInv(j, k)'
    BY <1>0, <2>1, <2>15, FindMappingStep
  <2>16. ASSUME DropMapping(w) PROVE DirectoryInv(j, k)'
    BY <1>0, <2>1, <2>16, DropMappingStep
  <2>17. ASSUME LogAudit(w) \/ Abandon(w) PROVE DirectoryInv(j, k)'
    BY <1>0, <2>1, <2>17, LogAuditStep
  <2>18. DirectoryInv(j, k)'
    BY <1>1, <2>3, <2>4, <2>5, <2>6, <2>7, <2>8, <2>9, <2>10, <2>11, <2>12, <2>13, <2>14,
       <2>15, <2>16, <2>17 DEF Serve
  <2> QED
    BY <2>2, <2>18 DEF Inv
<1>2. ASSUME NEW r \in Replicas, Boot(r), UNCHANGED directory PROVE Inv(i, j, k)'
  <2>1. UNCHANGED <<users, assigned, given, request, crashes>> /\ UNCHANGED rules
    BY <1>2 DEF Boot, directory, rules
  <2>2. StartupInv(i)'
    BY <1>0, <1>2, StartupStep DEF StartupNext
  <2> QED
    BY <1>0, <2>1, <2>2, DirectoryStays DEF Inv
<1>3. ASSUME NEW r \in Replicas, Die(r) PROVE Inv(i, j, k)'
  <2>1. StartupInv(i)'
    BY <1>0, <1>3, StartupStep DEF StartupNext, Die
  <2> QED
    BY <1>0, <1>3, <2>1, DieStep DEF Inv
<1>4. CASE UNCHANGED vars
  <2>1. /\ UNCHANGED startup /\ UNCHANGED rules
        /\ UNCHANGED <<users, assigned, given, request, crashes>>
    BY <1>4 DEF vars, startup, rules
  <2> QED
    BY <1>0, <2>1, StartupStep, DirectoryStays DEF Inv
<1> QED
  BY <1>1, <1>2, <1>3, <1>4 DEF Next

\* Without a word on overlaps, it is bounded by the replicas and the workers there are.
Always == Inv(Cardinality(Replicas), Cardinality(Workers), Cardinality(Workers))

LEMMA NoMoreThanThereAre ==
    /\ StartsWithin(Cardinality(Replicas))
    /\ Overlaps(Cardinality(Workers), Cardinality(Workers))
<1>1. Starting \in SUBSET Replicas /\ IsFiniteSet(Replicas)
  BY StartupAssumption DEF Starting
<1>2. Registering \in SUBSET Workers /\ \A e \in Emails : Mapping(e) \in SUBSET Workers
  BY DEF Registering, Mapping
<1> QED
  BY <1>1, <1>2, WorkerSets, FS_Subset
     DEF StartsWithin, Overlaps, RegistrationsWithin, SignInsWithin

LEMMA CountsAreNat == Cardinality(Replicas) \in Nat /\ Cardinality(Workers) \in Nat
BY StartupAssumption, WorkerSets, FS_CardinalityType

LEMMA InvInit ==
    ASSUME NEW i \in Nat, NEW j \in Nat, NEW k \in Nat, Init
    PROVE  Inv(i, j, k)
BY StartupInit_Inv, DirectoryInit DEF Init, Inv

LEMMA Invariant == Spec => []Always
<1>1. Init => Always
  BY CountsAreNat, InvInit DEF Always
<1>2. Always /\ /\ StartsWithin(Cardinality(Replicas))'
                /\ Overlaps(Cardinality(Workers), Cardinality(Workers))'
             /\ [Next]_vars => Always'
  BY CountsAreNat, InvStep DEF Always
<1>3. Always /\ [Next]_vars => Always'
  BY <1>2, NoMoreThanThereAre, PTL
<1> QED
  BY <1>1, <1>3, PTL DEF Spec

\* Every variable keeps its type: the tables that replicas seed side by side and those
\* that requests write, whatever dies when.
THEOREM TypeCorrectness == Spec => []TypeOK
<1>1. Always => TypeOK
  BY DEF Always, Inv, StartupInv, DirectoryInv, DirectoryTypeOK, RulesOK, TypeOK
<1> QED
  BY <1>1, Invariant, PTL

\* seed_roles_and_permissions: however many replicas seed at once and however often they
\* fail and are restarted, the rows of a role are no more than the replicas, and on
\* Oracle there is one.
THEOREM RoleRows == Spec => []RoleRowsBounded
<1>1. Always => RoleRowsBounded
  BY DEF Always, Inv, StartupInv, RowsInv, RoleRowsBounded
<1> QED
  BY <1>1, Invariant, PTL

\* lifespan: a replica that serves has the schema of the head, every permission, and for
\* each role of the pack a row with all its permissions, whoever seeded them.
THEOREM Seeding == Spec => []SeededWhenServing
<1>1. ASSUME Always PROVE SeededWhenServing
  <2>1. SUFFICES ASSUME NEW r \in Replicas, At(r, "serving")
                 PROVE  /\ schema.version = Revisions
                        /\ permissions = Permissions
                        /\ \A place \in Places : Granted(place, {})
    BY DEF SeededWhenServing, Granted
  <2>2. SafeMigration(replica[r]) /\ SafeSeeding(replica[r]) /\ replica[r].pc = "serving"
    BY <1>1, <2>1 DEF Always, Inv, StartupInv, At
  <2> QED
    BY <2>2 DEF SafeMigration, SafeSeeding
<1> QED
  BY <1>1, Invariant, PTL

\* register: the registrations that race for the first account make at most as many
\* administrators as there are requests in flight, and none that found an account does.
THEOREM FirstAdmins == Spec => []FirstAdminsBounded
<1>1. ASSUME Always PROVE FirstAdminsBounded
  <2>1. Cardinality(Admins) + Cardinality(Promoting) <= Cardinality(Workers)
    BY <1>1 DEF Always, Inv, DirectoryInv, FirstAdminsWithin
  <2>2. \A w \in Promoting : ~request[w].late
    BY <1>1 DEF Always, Inv, DirectoryInv, RequestSafe, Promoting
  <2> QED
    BY <2>1, <2>2 DEF FirstAdminsBounded
<1> QED
  BY <1>1, Invariant, PTL

\* apply_claim_mappings: the rows of one role that sign-ins gave a user, with the sign-ins
\* about to add one, are no more than the requests in flight, whatever administrators
\* assign and remove.
THEOREM Assignment == Spec => []AssignmentsBounded
<1>1. Always => AssignmentsBounded
  BY DEF Always, Inv, DirectoryInv, AssignmentsWithin, AssignmentsBounded
<1> QED
  BY <1>1, Invariant, PTL

\* log_audit: nothing is recorded that was not done, and a change of a mapping without its
\* record is about to be recorded, was lost with a request that died or failed, or is the
\* creation of a mapping that was deleted before it was read back.
THEOREM AuditGaps == Spec => []AuditGapsExplained
<1>1. ASSUME Always PROVE AuditGapsExplained
  <2>1. AuditInv
    BY <1>1 DEF Always, Inv, DirectoryInv
  <2>2. \A w \in Workers : Owed(w) = OwedBy(request[w])
    BY DEF Owed, OwedBy
  <2>3. \A change \in Forgotten : \E id \in dropped : change = <<"create", id>>
    BY DEF Forgotten
  <2> QED
    BY <2>1, <2>2, <2>3 DEF AuditInv, AuditGapsExplained
<1> QED
  BY <1>1, Invariant, PTL

-------------------------------------------------------------------------------
(* Bounds by the overlap that is met.                                      *)

\* With at most k start-ups in flight together a role has at most k rows, however many
\* replicas there are and however often they are restarted.
THEOREM RoleRowsByOverlap ==
    ASSUME NEW k \in Nat
    PROVE  Spec /\ []StartsWithin(k) => []RoleRowsWithin(k)
<1> DEFINE W == Cardinality(Workers)
           I == Inv(k, W, W)
           Overlap == StartsWithin(k)
           Others == Overlaps(W, W)
           Rows == RoleRowsWithin(k)
<1>1. Init => I
  BY CountsAreNat, InvInit
<1>2. I /\ Overlap' /\ Others' /\ [Next]_vars => I'
  BY CountsAreNat, InvStep
<1>3. Others
  BY NoMoreThanThereAre
<1>4. I => Rows
  BY DEF Inv, StartupInv, RowsInv, RoleRowsWithin
<1> HIDE DEF I, Overlap, Others, Rows
<1>5. Spec /\ []Overlap => []Rows
  BY <1>1, <1>2, <1>3, <1>4, PTL DEF Spec
<1> QED
  BY <1>5 DEF Overlap, Rows

\* With at most k registrations in flight together at most k accounts become
\* administrators by being first: one, if no two overlap.
THEOREM FirstAdminsByOverlap ==
    ASSUME NEW k \in Nat
    PROVE  Spec /\ []RegistrationsWithin(k) => []FirstAdminsWithin(k)
<1> DEFINE W == Cardinality(Workers)
           R == Cardinality(Replicas)
           I == Inv(R, k, W)
           Overlap == RegistrationsWithin(k)
           Others == StartsWithin(R) /\ SignInsWithin(W)
           Within == FirstAdminsWithin(k)
<1>1. Init => I
  BY CountsAreNat, InvInit
<1>2. I /\ Overlap' /\ Others' /\ [Next]_vars => I'
  BY CountsAreNat, InvStep DEF Overlaps
<1>3. Others
  BY NoMoreThanThereAre DEF Overlaps
<1>4. I => Within
  BY DEF Inv, DirectoryInv
<1> HIDE DEF I, Overlap, Others, Within
<1>5. Spec /\ []Overlap => []Within
  BY <1>1, <1>2, <1>3, <1>4, PTL DEF Spec
<1> QED
  BY <1>5 DEF Overlap, Within

\* With at most k sign-ins of one account in flight together they give it at most k rows
\* of a role: if none overlap, apply_claim_mappings never adds a second one.
THEOREM AssignmentByOverlap ==
    ASSUME NEW k \in Nat
    PROVE  Spec /\ []SignInsWithin(k) => []AssignmentsWithin(k)
<1> DEFINE W == Cardinality(Workers)
           R == Cardinality(Replicas)
           I == Inv(R, W, k)
           Overlap == SignInsWithin(k)
           Others == StartsWithin(R) /\ RegistrationsWithin(W)
           Within == AssignmentsWithin(k)
<1>1. Init => I
  BY CountsAreNat, InvInit
<1>2. I /\ Overlap' /\ Others' /\ [Next]_vars => I'
  BY CountsAreNat, InvStep DEF Overlaps
<1>3. Others
  BY NoMoreThanThereAre DEF Overlaps
<1>4. I => Within
  BY DEF Inv, DirectoryInv
<1> HIDE DEF I, Overlap, Others, Within
<1>5. Spec /\ []Overlap => []Within
  BY <1>1, <1>2, <1>3, <1>4, PTL DEF Spec
<1> QED
  BY <1>5 DEF Overlap, Within

-------------------------------------------------------------------------------
(* Replicas that are started one at a time.                                *)

\* What a start-up has read is still so, as nobody else writes the tables.
InStep(x) ==
    /\ x.pc \in {"down", "serving"} => x.pending = {}
    /\ x.pc = "migrate" => x.revision = schema.version
    /\ x.pc = "commit_permissions" => x.missing \cap permissions = {}
    /\ x.pc = "insert_role" => RowsOf(x.place) = {}
    /\ x.pending \cap grants = {}

OneRowEach == \A i, j \in DOMAIN roles : roles[i] = roles[j] => i = j

LoneInv ==
    /\ OneRowEach
    /\ \A r \in Replicas : InStep(replica[r])

OthersRest(r) == \A q \in Replicas \ {r} : replica[q].pc \in {"down", "serving"}

\* The replica that starts moves, the others rest.
LEMMA LoneMoves ==
    ASSUME StartupTypeOK, LoneInv, NEW r \in Replicas, OthersRest(r), NEW x,
           replica' = [replica EXCEPT ![r] = x], InStep(x)', OneRowEach'
    PROVE  LoneInv' /\ replica'[r] = x
<1>1. replica'[r] = x
  BY DEF StartupTypeOK
<1>2. ASSUME NEW q \in Replicas PROVE InStep(replica[q])'
  <2>1. CASE q = r
    BY <1>1, <2>1 DEF InStep
  <2>2. CASE q # r
    <3>1. replica'[q] = replica[q] /\ replica[q].pc \in {"down", "serving"}
      BY <2>2 DEF StartupTypeOK, OthersRest
    <3>2. replica[q].pending = {}
      BY <3>1 DEF LoneInv, InStep
    <3> QED
      BY <3>1, <3>2 DEF InStep
  <2> QED
    BY <2>1, <2>2
<1> QED
  BY <1>1, <1>2 DEF LoneInv

\* The tables of the roles stay.
LEMMA RolesStay ==
    ASSUME LoneInv, UNCHANGED roles
    PROVE  OneRowEach' /\ \A place : RowsOf(place)' = RowsOf(place)
BY DEF LoneInv, OneRowEach, RowsOf

Raised(r) == replica'[r].pc = "down"

LEMMA LoneMigrates ==
    ASSUME NEW k, StartupInv(k), LoneInv, NEW r \in Replicas, OthersRest(r),
           Start(r) \/ Migrated(r) \/ Upgrade(r) \/ CreateObjects(r) \/ Stamp(r)
    PROVE  LoneInv' /\ (Raised(r) => HalfMigrated)
<1>1. /\ StartupTypeOK /\ DatabaseOK /\ SchemaOK /\ InStep(replica[r])
      /\ SafeMigration(replica[r]) /\ SafeSeeding(replica[r])
  BY StartupFacts DEF StartupInv, LoneInv
<1>2. PICK y \in Replica : y = replica[r]
  BY StartupFacts
<1>3. CASE Start(r)
  <2>1. PICK x : x = [Down EXCEPT !.pc = "migrate", !.revision = schema.version]
    OBVIOUS
  <2>2. x.pc = "migrate" /\ x.revision = schema.version /\ x.pending = {}
    BY <2>1 DEF Down
  <2>3. replica' = [replica EXCEPT ![r] = x] /\ UNCHANGED <<schema, permissions, roles, grants>>
    BY <1>3, <2>1 DEF Start, database
  <2>4. InStep(x)'
    BY <2>2, <2>3 DEF InStep
  <2>5. LoneInv' /\ replica'[r] = x
    BY <1>1, <2>3, <2>4, RolesStay, LoneMoves
  <2> QED
    BY <2>2, <2>5 DEF Raised
<1>4. ASSUME NEW point \in {"permissions", "stamp"}, Goto(r, point), UNCHANGED <<roles, grants>>,
             y.pc = "migrate"
      PROVE  LoneInv' /\ (Raised(r) => HalfMigrated)
  <2>1. PICK x : x = [y EXCEPT !.pc = point]
    OBVIOUS
  <2>2. x.pc = point /\ x.pending = y.pending
    BY <2>1 DEF Replica
  <2>3. replica' = [replica EXCEPT ![r] = x]
    BY <1>1, <1>2, <1>4, <2>1 DEF Goto, StartupTypeOK
  <2>4. y.pending = {}
    BY <1>1, <1>2, <1>4 DEF SafeSeeding
  <2>5. InStep(x)'
    BY <2>2, <2>4 DEF InStep
  <2>6. LoneInv' /\ replica'[r] = x
    BY <1>1, <1>4, <2>3, <2>5, RolesStay, LoneMoves
  <2> QED
    BY <2>2, <2>6 DEF Raised
<1>5. CASE Migrated(r)
  BY <1>2, <1>4, <1>5 DEF Migrated, At, database
<1>6. CASE Upgrade(r)
  <2>1. y.pc = "migrate" /\ y.revision = schema.version
    BY <1>1, <1>2, <1>6 DEF Upgrade, At, InStep
  <2> QED
    BY <1>2, <1>4, <1>6, <2>1 DEF Upgrade
<1>7. CASE CreateObjects(r)
  <2>1. y.pc = "migrate" /\ y.revision = schema.version
    BY <1>1, <1>2, <1>7 DEF CreateObjects, At, InStep
  <2>2. CASE schema.objects = y.revision
    BY <1>2, <1>4, <1>7, <2>1, <2>2 DEF CreateObjects
  <2>3. CASE schema.objects # y.revision
    <3>1. Fail(r)
      BY <1>2, <1>7, <2>3 DEF CreateObjects
    <3>2. schema.objects > schema.version
      BY <1>1, <2>1, <2>3 DEF SchemaOK, DatabaseOK
    <3>3. \A q \in Replicas : ~At(q, "stamp")
      BY <1>2, <2>1 DEF OthersRest, At
    <3>4. Down.pc = "down" /\ Down.pending = {}
      BY DEF Down
    <3>5. InStep(Down)'
      BY <3>4 DEF InStep
    <3>6. replica' = [replica EXCEPT ![r] = Down] /\ UNCHANGED roles
      BY <3>1 DEF Fail, database
    <3>7. LoneInv'
      BY <1>1, <3>5, <3>6, RolesStay, LoneMoves
    <3> QED
      BY <3>2, <3>3, <3>7 DEF HalfMigrated
  <2> QED
    BY <2>2, <2>3
<1>8. CASE Stamp(r)
  <2>1. y.pc = "stamp" /\ y.revision = schema.version /\ y.pending = {}
    BY <1>1, <1>2, <1>8 DEF Stamp, At, SafeMigration, SafeSeeding
  <2>2. PICK next : next = y.revision + 1
    OBVIOUS
  <2>3. PICK x : x = [y EXCEPT !.pc = "migrate", !.revision = next]
    OBVIOUS
  <2>4. x.pc = "migrate" /\ x.revision = next /\ x.pending = y.pending
    BY <2>3 DEF Replica
  <2>5. replica' = [replica EXCEPT ![r] = x]
    BY <1>1, <1>2, <1>8, <2>2, <2>3 DEF Stamp, StartupTypeOK
  <2>6. schema'.version = next /\ UNCHANGED <<roles, grants>>
    BY <1>1, <1>2, <1>8, <2>2 DEF Stamp, DatabaseOK
  <2>7. InStep(x)'
    BY <2>1, <2>4, <2>6 DEF InStep
  <2>8. LoneInv' /\ replica'[r] = x
    BY <1>1, <2>5, <2>6, <2>7, RolesStay, LoneMoves
  <2> QED
    BY <2>4, <2>8 DEF Raised
<1> QED
  BY <1>3, <1>5, <1>6, <1>7, <1>8

LEMMA LoneSeedsPermissions ==
    ASSUME NEW k, StartupInv(k), LoneInv, NEW r \in Replicas, OthersRest(r),
           ReadPermissions(r) \/ CommitPermissions(r)
    PROVE  LoneInv' /\ ~Raised(r)
<1>1. StartupTypeOK /\ InStep(replica[r]) /\ SafeSeeding(replica[r])
  BY StartupFacts DEF StartupInv, LoneInv
<1>2. PICK y \in Replica : y = replica[r]
  BY StartupFacts
<1>3. y.pc \in {"permissions", "commit_permissions"} /\ y.pending = {}
  BY <1>1, <1>2 DEF ReadPermissions, CommitPermissions, At, SafeSeeding
<1>4. CASE ReadPermissions(r)
  <2>1. PICK x : x = [y EXCEPT !.pc = "commit_permissions", !.missing = Permissions \ permissions]
    OBVIOUS
  <2>2. /\ x.pc = "commit_permissions" /\ x.missing = Permissions \ permissions
        /\ x.pending = y.pending
    BY <2>1 DEF Replica
  <2>3. replica' = [replica EXCEPT ![r] = x] /\ UNCHANGED <<permissions, roles>>
    BY <1>1, <1>2, <1>4, <2>1 DEF ReadPermissions, StartupTypeOK, database
  <2>4. InStep(x)'
    BY <1>3, <2>2, <2>3 DEF InStep
  <2>5. LoneInv' /\ replica'[r] = x
    BY <1>1, <2>3, <2>4, RolesStay, LoneMoves
  <2> QED
    BY <2>2, <2>5 DEF Raised
<1>5. CASE CommitPermissions(r)
  <2>1. y.missing \cap permissions = {}
    BY <1>1, <1>2, <1>5 DEF CommitPermissions, At, InStep
  <2>2. PICK x : x = [y EXCEPT !.pc = "roles", !.missing = {}]
    OBVIOUS
  <2>3. x.pc = "roles" /\ x.pending = y.pending
    BY <2>2 DEF Replica
  <2>4. replica' = [replica EXCEPT ![r] = x] /\ UNCHANGED roles
    BY <1>1, <1>2, <1>5, <2>1, <2>2 DEF CommitPermissions, StartupTypeOK
  <2>5. InStep(x)'
    BY <1>3, <2>3 DEF InStep
  <2>6. LoneInv' /\ replica'[r] = x
    BY <1>1, <2>4, <2>5, RolesStay, LoneMoves
  <2> QED
    BY <2>3, <2>6 DEF Raised
<1> QED
  BY <1>4, <1>5

LEMMA LoneSelects ==
    ASSUME NEW k, StartupInv(k), LoneInv, NEW r \in Replicas, OthersRest(r), SelectRole(r)
    PROVE  LoneInv' /\ ~Raised(r)
<1>1. StartupTypeOK /\ DatabaseOK /\ InStep(replica[r])
  BY StartupFacts DEF StartupInv, LoneInv
<1>2. PICK y \in Replica : y = replica[r]
  BY StartupFacts
<1>3. PICK rows : rows = RowsOf(y.place)
  OBVIOUS
<1>4. y.pc = "roles" /\ y.place \in Places /\ y.pending \cap grants = {}
  BY <1>1, <1>2 DEF SelectRole, At, InStep
<1>5. CASE rows = {}
  <2>1. Goto(r, "insert_role") /\ UNCHANGED database
    BY <1>2, <1>3, <1>5, FS_EmptySet DEF SelectRole
  <2>2. PICK x : x = [y EXCEPT !.pc = "insert_role"]
    OBVIOUS
  <2>3. x.pc = "insert_role" /\ x.pending = y.pending /\ x.place = y.place
    BY <2>2 DEF Replica
  <2>4. replica' = [replica EXCEPT ![r] = x] /\ UNCHANGED <<roles, grants>>
    BY <1>1, <1>2, <2>1, <2>2 DEF Goto, StartupTypeOK, database
  <2>5. InStep(x)'
    BY <1>3, <1>4, <1>5, <2>3, <2>4, RolesStay DEF InStep
  <2>6. LoneInv' /\ replica'[r] = x
    BY <1>1, <2>4, <2>5, RolesStay, LoneMoves
  <2> QED
    BY <2>3, <2>6 DEF Raised
<1>6. CASE rows # {}
  <2>1. PICK i : i \in rows
    BY <1>6
  <2>2. rows = {i}
    BY <1>3, <2>1 DEF RowsOf, LoneInv, OneRowEach
  <2>3. Cardinality(rows) = 1
    BY <2>2, FS_Singleton
  <2>4. PICK row : row = CHOOSE n \in RowsOf(y.place) : TRUE
    OBVIOUS
  <2>5. /\ replica' = [replica EXCEPT ![r].pc = "grants",
                                      ![r].row = CHOOSE n \in RowsOf(replica[r].place) : TRUE]
        /\ UNCHANGED database
    BY <1>2, <1>3, <1>6, <2>3 DEF SelectRole
  <2>6. replica' = [replica EXCEPT ![r].pc = "grants", ![r].row = row]
    BY <1>2, <2>4, <2>5, Zenon
  <2>7. PICK x : x = [y EXCEPT !.pc = "grants", !.row = row]
    OBVIOUS
  <2>8. x.pc = "grants" /\ x.pending = y.pending
    BY <2>7 DEF Replica
  <2>9. replica' = [replica EXCEPT ![r] = x] /\ UNCHANGED <<roles, grants>>
    BY <1>1, <1>2, <2>5, <2>6, <2>7 DEF StartupTypeOK, database
  <2>10. InStep(x)'
    BY <1>4, <2>8, <2>9 DEF InStep
  <2>11. LoneInv' /\ replica'[r] = x
    BY <1>1, <2>9, <2>10, RolesStay, LoneMoves
  <2> QED
    BY <2>8, <2>11 DEF Raised
<1> QED
  BY <1>5, <1>6

LEMMA LoneInserts ==
    ASSUME NEW k, StartupInv(k), LoneInv, NEW r \in Replicas, OthersRest(r), InsertRole(r)
    PROVE  LoneInv' /\ ~Raised(r)
<1>1. StartupTypeOK /\ DatabaseOK /\ InStep(replica[r]) /\ SafeSeeding(replica[r])
  BY StartupFacts DEF StartupInv, LoneInv
<1>2. PICK y \in Replica : y = replica[r]
  BY StartupFacts
<1>3. /\ y.pc = "insert_role" /\ RowsOf(y.place) = {} /\ y.pending \cap grants = {}
      /\ y.place \in Places
  BY <1>1, <1>2 DEF InsertRole, At, InStep, SafeSeeding
<1>4. ~NameTaken(y.place) /\ ~GrantTaken(r)
  BY <1>2, <1>3 DEF NameTaken, GrantTaken
<1>5. PICK new \in Nat : new = Len(roles) + 1
  BY <1>1 DEF DatabaseOK
<1>6. PICK x : x = [y EXCEPT !.pc = "grants", !.row = new, !.pending = {}]
  OBVIOUS
<1>7. x.pc = "grants" /\ x.pending = {}
  BY <1>6 DEF Replica
<1>8. /\ replica' = [replica EXCEPT ![r] = x]
      /\ roles' = Append(roles, y.place)
  BY <1>1, <1>2, <1>4, <1>5, <1>6 DEF InsertRole, StartupTypeOK
<1>9. /\ DOMAIN roles' = DOMAIN roles \cup {new} /\ new \notin DOMAIN roles
      /\ \A i \in DOMAIN roles : roles'[i] = roles[i]
      /\ roles'[new] = y.place
  BY <1>1, <1>3, <1>5, <1>8 DEF DatabaseOK
<1>10. \A i \in DOMAIN roles : roles[i] # y.place
  BY <1>3 DEF RowsOf
<1>11. OneRowEach'
  BY <1>9, <1>10 DEF OneRowEach, LoneInv
<1>12. InStep(x)'
  BY <1>7 DEF InStep
<1>13. LoneInv' /\ replica'[r] = x
  BY <1>1, <1>8, <1>11, <1>12, LoneMoves
<1> QED
  BY <1>7, <1>13 DEF Raised

LEMMA LoneGrants ==
    ASSUME NEW k, StartupInv(k), LoneInv, NEW r \in Replicas, OthersRest(r),
           GrantPermissions(r) \/ Seeded(r)
    PROVE  LoneInv' /\ ~Raised(r)
<1>1. StartupTypeOK /\ InStep(replica[r])
  BY StartupFacts DEF StartupInv, LoneInv
<1>2. PICK y \in Replica : y = replica[r]
  BY StartupFacts
<1>3. y.pending \cap grants = {}
  BY <1>1, <1>2 DEF InStep
<1>4. CASE GrantPermissions(r)
  <2>1. PICK new : new = Ungranted(r)
    OBVIOUS
  <2>2. new \cap grants = {}
    BY <2>1 DEF Ungranted
  <2>3. PICK next : next = y.place + 1
    OBVIOUS
  <2>4. PICK x : x = [y EXCEPT !.pc = "roles", !.place = next, !.row = 0,
                               !.pending = @ \cup new]
    OBVIOUS
  <2>5. x.pc = "roles" /\ x.pending = y.pending \cup new
    BY <2>4 DEF Replica
  <2>6. replica' = [replica EXCEPT ![r] = x] /\ UNCHANGED <<roles, grants>>
    BY <1>1, <1>2, <1>4, <2>1, <2>3, <2>4 DEF GrantPermissions, StartupTypeOK, database
  <2>7. InStep(x)'
    BY <1>3, <2>2, <2>5, <2>6 DEF InStep
  <2>8. LoneInv' /\ replica'[r] = x
    BY <1>1, <2>6, <2>7, RolesStay, LoneMoves
  <2> QED
    BY <2>5, <2>8 DEF Raised
<1>5. CASE Seeded(r)
  <2>1. ~GrantTaken(r)
    BY <1>2, <1>3 DEF GrantTaken
  <2>2. PICK x : x = [Down EXCEPT !.pc = "serving"]
    OBVIOUS
  <2>3. x.pc = "serving" /\ x.pending = {}
    BY <2>2 DEF Down
  <2>4. replica' = [replica EXCEPT ![r] = x] /\ UNCHANGED roles
    BY <1>5, <2>1, <2>2 DEF Seeded
  <2>5. InStep(x)'
    BY <2>3 DEF InStep
  <2>6. LoneInv' /\ replica'[r] = x
    BY <1>1, <2>4, <2>5, RolesStay, LoneMoves
  <2> QED
    BY <2>3, <2>6 DEF Raised
<1> QED
  BY <1>4, <1>5

\* Whoever boots is, or becomes, the one that starts.
LEMMA LoneBoots ==
    ASSUME NEW k, StartupInv(k), StartsApart, StartsApart', NEW r \in Replicas, Boot(r)
    PROVE  OthersRest(r)
<1>1. StartupTypeOK
  BY DEF StartupInv
<1>2. CASE Start(r)
  <2>1. replica' = [replica EXCEPT ![r] = [Down EXCEPT !.pc = "migrate", !.revision = schema.version]]
    BY <1>2 DEF Start
  <2>2. replica'[r].pc = "migrate" /\ \A q \in Replicas \ {r} : replica'[q] = replica[q]
    BY <1>1, <2>1 DEF StartupTypeOK, Down
  <2>3. r \in Starting'
    BY <2>2 DEF Starting
  <2>4. ASSUME NEW q \in Replicas \ {r} PROVE replica[q].pc \in {"down", "serving"}
    <3>1. q \notin Starting'
      BY <2>3 DEF StartsApart
    <3> QED
      BY <2>2, <3>1 DEF Starting
  <2> QED
    BY <2>4 DEF OthersRest
<1>3. CASE ~Start(r)
  <2>1. replica[r].pc \notin {"down", "serving"}
    BY <1>3 DEF Boot, Migrated, Upgrade, CreateObjects, Stamp, ReadPermissions,
                CommitPermissions, SelectRole, InsertRole, GrantPermissions, Seeded, At
  <2> QED
    BY <2>1 DEF StartsApart, Starting, OthersRest
<1> QED
  BY <1>2, <1>3

LEMMA LoneStep ==
    ASSUME NEW k, StartupInv(k), LoneInv, StartsApart, StartsApart', [StartupNext]_startup
    PROVE  /\ LoneInv'
           /\ \A r \in Replicas : ~At(r, "down") /\ replica'[r].pc = "down" =>
                 crashes' = crashes + 1 \/ HalfMigrated
<1>1. StartupTypeOK
  BY DEF StartupInv
<1>2. ASSUME NEW r \in Replicas, Boot(r)
      PROVE  /\ LoneInv'
             /\ \A q \in Replicas : ~At(q, "down") /\ replica'[q].pc = "down" => HalfMigrated
  <2>1. OthersRest(r)
    BY <1>2, LoneBoots
  <2>2. LoneInv' /\ (Raised(r) => HalfMigrated)
    BY <1>2, <2>1, LoneMigrates, LoneSeedsPermissions, LoneSelects, LoneInserts, LoneGrants
       DEF Boot
  <2>3. \E x : replica' = [replica EXCEPT ![r] = x]
    <3>1. ASSUME NEW point, Goto(r, point) PROVE \E x : replica' = [replica EXCEPT ![r] = x]
      BY <3>1 DEF Goto
    <3>2. ASSUME Fail(r) PROVE \E x : replica' = [replica EXCEPT ![r] = x]
      BY <3>2 DEF Fail
    <3>3. CASE Migrated(r) \/ Upgrade(r) \/ CreateObjects(r)
      BY <3>1, <3>2, <3>3 DEF Migrated, Upgrade, CreateObjects
    <3>4. CASE Start(r) \/ Stamp(r)
      BY <3>4 DEF Start, Stamp
    <3>5. CASE ReadPermissions(r) \/ CommitPermissions(r)
      BY <3>2, <3>5 DEF ReadPermissions, CommitPermissions
    <3>6. CASE SelectRole(r)
      BY <3>1, <3>2, <3>6 DEF SelectRole
    <3>7. CASE InsertRole(r)
      BY <3>2, <3>7 DEF InsertRole
    <3>8. CASE GrantPermissions(r) \/ Seeded(r)
      BY <3>2, <3>8 DEF GrantPermissions, Seeded
    <3> QED
      BY <1>2, <3>3, <3>4, <3>5, <3>6, <3>7, <3>8 DEF Boot
  <2>4. \A q \in Replicas \ {r} : replica'[q] = replica[q]
    BY <1>1, <2>3 DEF StartupTypeOK
  <2> QED
    BY <2>2, <2>4 DEF Raised, At
<1>3. ASSUME NEW r \in Replicas, Crash(r) PROVE LoneInv' /\ crashes' = crashes + 1
  <2>1. replica' = [replica EXCEPT ![r] = Down] /\ UNCHANGED <<schema, permissions, roles, grants>>
    BY <1>3 DEF Crash, Fail, database
  <2>2. Down.pc = "down" /\ Down.pending = {}
    BY DEF Down
  <2>3. OneRowEach' /\ \A place : RowsOf(place)' = RowsOf(place)
    BY <2>1, RolesStay
  <2>4. ASSUME NEW q \in Replicas PROVE InStep(replica[q])'
    <3>1. replica'[q] \in {Down, replica[q]} /\ InStep(replica[q])
      BY <1>1, <2>1 DEF StartupTypeOK, LoneInv
    <3> QED
      BY <2>1, <2>2, <2>3, <3>1 DEF InStep
  <2> QED
    BY <1>3, <2>3, <2>4 DEF LoneInv, Crash
<1>4. CASE UNCHANGED startup
  <2>1. UNCHANGED <<schema, permissions, roles, grants, replica>>
    BY <1>4 DEF startup
  <2>2. OneRowEach' /\ \A place : RowsOf(place)' = RowsOf(place)
    BY <2>1, RolesStay
  <2>3. ASSUME NEW q \in Replicas PROVE InStep(replica[q])'
    <3>1. InStep(replica[q])
      BY DEF LoneInv
    <3> QED
      BY <2>1, <2>2, <3>1 DEF InStep
  <2> QED
    BY <2>1, <2>2, <2>3 DEF LoneInv, At
<1> QED
  BY <1>2, <1>3, <1>4 DEF StartupNext

\* Replicas that are started one at a time find nothing that makes a start-up raise: no
\* role is doubled, no key is taken and no revision is behind what was read, whichever
\* of them were killed before.  Only the objects that a kill left half-way between two
\* statements of a migration on Oracle stop a start-up.
THEOREM LoneStartups == Spec /\ []StartsApart => NoStartupRaises
<1>1. Init => LoneInv
  <2> SUFFICES ASSUME Init PROVE LoneInv
    OBVIOUS
  <2>1. DOMAIN roles = {}
    BY DEF Init, StartupInit
  <2>2. \A r \in Replicas : replica[r] = Down
    BY DEF Init, StartupInit
  <2>3. Down.pc = "down" /\ Down.pending = {}
    BY DEF Down
  <2> QED
    BY <2>1, <2>2, <2>3 DEF LoneInv, OneRowEach, InStep
<1>2. [Next]_vars => [StartupNext]_startup
  BY DEF Next, Serve, Die, StartupNext, startup, vars
<1>3. ASSUME Always, LoneInv, StartsApart, StartsApart', [StartupNext]_startup
      PROVE  /\ LoneInv'
             /\ \A r \in Replicas : ~At(r, "down") /\ replica'[r].pc = "down" =>
                   crashes' = crashes + 1 \/ HalfMigrated
  <2>1. StartupInv(Cardinality(Replicas))
    BY <1>3 DEF Always, Inv
  <2> QED
    BY <1>3, <2>1, LoneStep
<1> QED
  BY <1>1, <1>2, <1>3, Invariant, PTL DEF Spec, NoStartupRaises

===============================================================================
