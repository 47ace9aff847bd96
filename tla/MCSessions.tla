------------------------------ MODULE MCSessions ------------------------------
(***************************************************************************)
(* Instances of Sessions for TLC.                                          *)
(***************************************************************************)
EXTENDS Sessions, TLC

CONSTANTS u1, w1, w2

OneUser == {u1}
OneWorker == {w1}
TwoWorkers == {w1, w2}

\* Everything but a PATCH of the active flag.
NoPatches == Operations \ {"activate", "deactivate"}

\* What nobody reads any more is left out: which password sign-in it was, past the INSERT of
\* the user; when it counted, past the eviction; the rows of a sweep that are revoked by now;
\* and how a revoked token was come by.
HandlerSeen(h) ==
    [h EXCEPT !.op = IF @ = "register" /\ h.pc # "insert" THEN "login" ELSE @,
              !.since = IF h.pc \in {"issue", "commit"} THEN 0 ELSE @,
              !.loaded = IF h.pc = "sweep_commit" THEN @ \ revoked ELSE @]
TokenSeen(t) == [tokens[t] EXCEPT !.password = @ /\ t \notin revoked]
Seen == <<account, [t \in DOMAIN tokens |-> TokenSeen(t)], revoked, blacklist,
          [w \in Workers |-> HandlerSeen(handler[w])], now>>

Symmetry == Permutations(TwoWorkers)

===============================================================================
