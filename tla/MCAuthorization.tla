--------------------------- MODULE MCAuthorization ---------------------------
(* Model values, the pack's expansion of the legacy roles, symmetry, and   *)
(* what of a request can still matter to a property.                       *)
EXTENDS Authorization, TLC

CONSTANTS p, q, r1, r2, i1, i2, w1, w2

MCPerms == {p, q}
MCLegacyRoles == {"admin", "user"}
MCPackRole == [r \in MCLegacyRoles |-> IF r = "admin" THEN MCPerms ELSE {p}]
MCCustomRoles == {r1, r2}
MCRows == {i1, i2}
MCWorkers == {w1, w2}

Symmetry == Permutations(MCCustomRoles) \cup Permutations(MCRows) \cup Permutations(MCWorkers)

\* Of what was held only what may be granted matters, and of an answer whether it was
\* held; once disturbed, nothing else is asked of an answer.  Of a replacement, what others
\* stored that it does not, and nothing at all if its role is gone.
Seen(r) ==
    LET asked == IF r.perms = {} THEN MCPerms ELSE r.perms
        sound == (IF r.op = "token" THEN r.loaded
                  ELSE IF r.answer = "granted" THEN r.perms ELSE {}) \subseteq r.held
    IN  IF r.pc = "replace" /\ r.role = None THEN <<r.pc>>
        ELSE IF r.pc # "answered" THEN <<[r EXCEPT !.held = @ \cap asked,
                                                   !.others = @ \ r.perms]>>
        ELSE IF r.quiet THEN <<r.op, sound, r.perms, r.loaded, r.answer>>
        ELSE <<r.op, sound>>

\* An admin is answered before system roles are looked up.
View == <<role, granted, assigned, doubled \ {"admin"}, [w \in Workers |-> Seen(request[w])]>>

===============================================================================
