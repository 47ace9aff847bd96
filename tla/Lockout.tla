------------------------------- MODULE Lockout -------------------------------
(***************************************************************************)
(* The failed_login_attempts of one e-mail address and the sign-ins that   *)
(* read and write them.  Every statement of the code filters by e-mail, so *)
(* addresses do not meet, and an address without an account is treated     *)
(* like one with a wrong password.                                         *)
(*                                                                         *)
(* A sign-in counts the recent failures, verifies the password and only    *)
(* then records or clears, with awaits in between: module Sessions goes on *)
(* from where it succeeds.                                                 *)
(*                                                                         *)
(* Rows are kept by age, up to the age at which no query counts them.      *)
(***************************************************************************)
EXTENDS Naturals, FiniteSets

CONSTANTS
    Workers,    \* sign-ins in flight at once, over all replicas
    Threshold,  \* settings.account_lockout_threshold
    Window,     \* settings.account_lockout_duration_minutes, in clock ticks
    Rows        \* identities of the rows young enough to count

ASSUME LockoutAssumption ==
    /\ IsFiniteSet(Workers) /\ Workers # {}
    /\ Threshold \in Nat
    /\ Window \in Nat
    /\ IsFiniteSet(Rows)
    /\ Threshold + Cardinality(Workers) <= Cardinality(Rows) + 1

VARIABLES
    age,        \* age[r] = ticks since the attempt of row r; Window: it is not there
    signin      \* signin[w] = the statement the sign-in of worker w will run next

vars == <<age, signin>>

-------------------------------------------------------------------------------

\* attempted_at > now - account_lockout_duration_minutes
Recent == {r \in Rows : age[r] < Window}

Locked == Cardinality(Recent) >= Threshold

TypeOK ==
    /\ age \in [Rows -> 0..Window]
    /\ signin \in [Workers -> {"idle", "verify", "record", "clear"}]

Init ==
    /\ age = [r \in Rows |-> Window]
    /\ signin = [w \in Workers |-> "idle"]

Goto(w, from, to) ==
    /\ signin[w] = from
    /\ signin' = [signin EXCEPT ![w] = to]

\* Mutant: count > threshold instead of >=.
CheckOffByOne(w) ==
    /\ Cardinality(Recent) <= Threshold
    /\ Goto(w, "idle", "verify")
    /\ UNCHANGED age

\* Mutant: a refused attempt counts as a failure.
CheckRecordsRefused(w) ==
    /\ Goto(w, "idle", IF Locked THEN "record" ELSE "verify")
    /\ UNCHANGED age

\* check_account_lockout: a locked account is refused with 429, and the attempt is
\* not recorded.
Check(w) ==
    /\ ~Locked
    /\ Goto(w, "idle", "verify")
    /\ UNCHANGED age

\* The user is read and the password verified: it is wrong (or nobody has this
\* e-mail), or right; right but the account is deactivated is a 403 that leaves the
\* failures as they are.
Verify(w) ==
    /\ \E next \in {"record", "clear", "idle"} : Goto(w, "verify", next)
    /\ UNCHANGED age

\* Mutant: attempted_at is a local time, behind UTC by more than the window.
RecordLocalTime(w) ==
    /\ Goto(w, "record", "idle")
    /\ \E r \in Rows \ Recent : age' = [age EXCEPT ![r] = Window + 1]

\* record_failed_login: INSERT, COMMIT, 401.
Record(w) ==
    /\ Goto(w, "record", "idle")
    /\ \E r \in Rows \ Recent : age' = [age EXCEPT ![r] = 0]

\* clear_failed_attempts: DELETE, COMMIT; the sign-in goes on.
Clear(w) ==
    /\ Goto(w, "clear", "idle")
    /\ age' = [r \in Rows |-> Window]

\* The handler dies, or bcrypt refuses the stored hash (an account made by SSO or
\* SCIM has none that it can read): 500, nothing recorded.
Abandon(w) ==
    /\ signin[w] # "idle"
    /\ signin' = [signin EXCEPT ![w] = "idle"]
    /\ UNCHANGED age

Tick ==
    /\ age' = [r \in Rows |-> IF age[r] < Window THEN age[r] + 1 ELSE Window]
    /\ UNCHANGED signin

Next ==
    \/ \E w \in Workers : Check(w) \/ Verify(w) \/ Record(w) \/ Clear(w) \/ Abandon(w)
    \/ Tick

\* Time passes; no sign-in is bound to go on, and nobody is bound to sign in.
Spec == Init /\ [][Next]_vars /\ WF_vars(Tick)

-------------------------------------------------------------------------------
(* Properties.                                                             *)

\* Wrong passwords that have been answered, or are about to be, within one window.
WrongGuesses ==
    Cardinality(Recent) + Cardinality({w \in Workers : signin[w] = "record"})

\* Sign-ins that counted the failures before the last one was recorded slip past the
\* threshold, but only as many as are in flight: no interleaving lets more wrong
\* passwords through within one window, unless a right one clears the account.
GuessesBounded == WrongGuesses < Threshold + Cardinality(Workers)

\* The bound by the overlap that is met and not by that which is possible: with k
\* sign-ins on the account in flight together at most; k = 1 is what the setting's
\* name, account_lockout_threshold, says.
InFlight == {w \in Workers : signin[w] # "idle"}
OverlapWithin(k) == Cardinality(InFlight) <= k
GuessesWithin(k) == WrongGuesses < Threshold + k

\* A locked account unlocks by itself: the attempts refused while it is locked do
\* not extend the lock, and those in flight when it closed are too few to keep it.
\* (With a threshold of 0, which nothing rejects, every account is locked for good.)
LockLifts == Threshold > 0 => (Locked ~> ~Locked)

===============================================================================
