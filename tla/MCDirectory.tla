----------------------------- MODULE MCDirectory ------------------------------
(* Two replicas with a request each, a pack of two roles, two accounts, a  *)
(* mapping, and what of the tables and requests can still matter.          *)
EXTENDS Directory

CONSTANTS w1, w2

MCReplicas == {"r1", "r2"}
MCEngines == {"oracle", "postgres"}
MCPermissions == {"read", "write"}
MCPackRoles == <<"admin", "user">>
MCPackGrants == <<{"read", "write"}, {"read"}>>

MCWorkers == {w1, w2}
MCHome == [w \in MCWorkers |-> IF w = w1 THEN "r1" ELSE "r2"]
MCEmails == {"a", "b"}
MCMatching == {"a"}
MCMapped == {2}
MCAdminRows == [email : {"a"}, role : {2}, number : {1}]

\* Whether an account is an administrator, not what else it is.
RoleSeen(role) == IF role \in {"user", "pending"} THEN "account" ELSE role

\* A request that can change nothing any more: the e-mail is taken, or no role is left.
Over(r) ==
    \/ r.pc \in {"count", "insert", "provision"} /\ r.email \in Accounts /\ r.role # "admin"
    \/ r.pc = "mappings" /\ r.email \notin Matching
    \/ r.pc = "assign" /\ r.left = {} /\ r.adding = {}

\* That a registration came late matters if it makes an administrator.
RequestSeen(r) ==
    IF Over(r) THEN <<>>
    ELSE <<[r EXCEPT !.role = RoleSeen(@), !.late = @ /\ r.role = "admin"]>>

\* The creation of a mapping that is deleted needs no record, and a change that has a record
\* is not missed.
Recorded == audit \ {<<"create", id>> : id \in dropped}
Missed == lost \ (audit \cup {<<"create", id>> : id \in dropped})

View == <<startup, [e \in Emails |-> RoleSeen(users[e])], assigned, given, mappings, dropped,
          Recorded, Missed, [w \in Workers |-> RequestSeen(request[w])]>>

===============================================================================
